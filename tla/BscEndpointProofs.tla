------------------------- MODULE BscEndpointProofs -------------------------
(***************************************************************************)
(* No endpoint whose text fits is silent for longer than ReportGap says,   *)
(* for any endpoints, commands, interval and delays.                       *)
(*                                                                         *)
(* The argument is about the sum of an endpoint's silence (age) and of     *)
(* what its timer has still to run (due), which time does not change.  A   *)
(* report makes it at most I, and a timer that fires without one leaves    *)
(* less than 2 * I, for it finds a silence below I.                        *)
(***************************************************************************)
EXTENDS BscEndpoint, FiniteSetTheorems, SequenceTheorems, TLAPS

\* The types of what the argument is about.
Clocks ==
    /\ up \in BOOLEAN
    /\ due \in [Endpoints -> -Late .. I]
    /\ age \in [Endpoints -> 0 .. AGE_MAX]
    /\ reported \in [Endpoints -> BOOLEAN]
    /\ cut \in [Endpoints -> BOOLEAN]

Balanced(e) == ~cut[e] => age[e] + due[e] <= IF reported[e] THEN 2 * I - 1 ELSE 0

IInv == Clocks /\ \A e \in Endpoints : Balanced(e)

USE TimeAssumption

LEMMA InitBalanced == Init => IInv
  BY DEF Init, IInv, Clocks, Balanced, AGE_MAX

\* Reports set ages to 0 and leave the timers alone.
LEMMA ReportBalanced ==
  ASSUME IInv, UNCHANGED <<up, due>>,
         NEW sent \in SUBSET Endpoints,
         reported' = [e \in Endpoints |-> reported[e] \/ e \in sent],
         age' = [e \in Endpoints |-> IF e \in sent THEN 0 ELSE age[e]],
         cut' \in [Endpoints -> BOOLEAN],
         \A e \in Endpoints : e \notin sent /\ cut[e] => cut'[e]
  PROVE  IInv'
<1>1. Clocks'
  BY DEF IInv, Clocks, AGE_MAX
<1>2. ASSUME NEW e \in Endpoints PROVE Balanced(e)'
  <2>1. CASE e \in sent
    <3>1. age'[e] = 0 /\ reported'[e] = TRUE
      BY <2>1
    <3>2. due'[e] \in -Late .. I
      BY DEF IInv, Clocks
    <3> QED
      BY <3>1, <3>2 DEF Balanced
  <2>2. CASE e \notin sent
    <3>1. age'[e] = age[e] /\ reported'[e] = reported[e] /\ due'[e] = due[e]
      BY <2>2 DEF IInv, Clocks
    <3>2. cut[e] => cut'[e]
      BY <2>2
    <3>3. Balanced(e)
      BY DEF IInv
    <3> QED
      BY <3>1, <3>2, <3>3 DEF Balanced
  <2> QED
    BY <2>1, <2>2
<1> QED
  BY <1>1, <1>2 DEF IInv

\* A timer that fires is armed for at most I, and finds a silence below I
\* when it says nothing.
LEMMA FireBalanced ==
  ASSUME IInv, NEW e \in Endpoints, NEW lag \in 0 .. L, Fire(e, lag)
  PROVE  /\ due' \in [Endpoints -> -Late .. I]
         /\ due'[e] <= I
         /\ \A f \in Endpoints : f # e => due'[f] = due[f]
         /\ up' = up
<1>1. due[e] \in -Late .. I /\ due \in [Endpoints -> -Late .. I]
  BY DEF IInv, Clocks
<1>2. I - lag \in -Late .. I
  BY <1>1 DEF Fire
<1> QED
  BY <1>1, <1>2 DEF Fire

LEMMA TimeoutBalanced ==
  ASSUME IInv, NEW e \in Endpoints, NEW lag \in 0 .. L, bscInfoTimeout(e, lag)
  PROVE  IInv'
<1> DEFINE sent == {f \in {e} \ {} : Fits(value[f])}
<1>1. /\ reported' = [f \in Endpoints |-> reported[f] \/ f \in sent]
      /\ age' = [f \in Endpoints |-> IF f \in sent THEN 0 ELSE age[f]]
      /\ cut' = [f \in Endpoints |-> IF f \in {e} \ {} THEN f \notin sent ELSE cut[f]]
  BY DEF bscInfoTimeout, bscSendInfoEvent
<1>2. /\ due' \in [Endpoints -> -Late .. I]
      /\ due'[e] <= I
      /\ \A f \in Endpoints : f # e => due'[f] = due[f]
      /\ up' = up
  BY FireBalanced DEF bscInfoTimeout
<1> HIDE DEF sent
<1>3. Clocks'
  <2>1. age' \in [Endpoints -> 0 .. AGE_MAX]
    BY <1>1 DEF IInv, Clocks, AGE_MAX
  <2>2. reported' \in [Endpoints -> BOOLEAN] /\ cut' \in [Endpoints -> BOOLEAN]
    BY <1>1, Zenon DEF IInv, Clocks
  <2> QED
    BY <1>2, <2>1, <2>2 DEF IInv, Clocks
<1>4. ASSUME NEW f \in Endpoints PROVE Balanced(f)'
  <2>1. Balanced(f) /\ due[f] \in -Late .. I /\ age[f] \in 0 .. AGE_MAX /\ due'[f] \in -Late .. I
    BY <1>2 DEF IInv, Clocks
  <2>2. CASE f = e /\ f \in sent
    <3>1. age'[f] = 0 /\ reported'[f] = TRUE /\ due'[f] <= I
      BY <1>1, <1>2, <2>2
    <3> QED
      BY <2>1, <3>1 DEF Balanced
  <2>3. CASE f = e /\ f \notin sent
    <3>1. cut'[f]
      BY <1>1, <2>3
    <3> QED
      BY <3>1 DEF Balanced
  <2>4. CASE f # e
    <3>1. f \notin sent
      BY <2>4 DEF sent
    <3>2. age'[f] = age[f] /\ reported'[f] = reported[f] /\ cut'[f] = cut[f] /\ due'[f] = due[f]
      BY <1>1, <1>2, <2>4, <3>1 DEF IInv, Clocks
    <3> QED
      BY <2>1, <3>2 DEF Balanced
  <2> QED
    BY <2>2, <2>3, <2>4
<1> QED
  BY <1>3, <1>4 DEF IInv

LEMMA SkipBalanced ==
  ASSUME IInv, NEW e \in Endpoints, NEW lag \in 0 .. L, bscInfoTimeout_Skip(e, lag)
  PROVE  IInv'
<1>1. UNCHANGED <<age, reported, cut>>
  BY DEF bscInfoTimeout_Skip
<1>2. /\ due' \in [Endpoints -> -Late .. I]
      /\ due'[e] <= I
      /\ \A f \in Endpoints : f # e => due'[f] = due[f]
      /\ up' = up
  BY FireBalanced DEF bscInfoTimeout_Skip
<1>3. ASSUME NEW f \in Endpoints PROVE Balanced(f)'
  <2>1. Balanced(f) /\ due[f] \in -Late .. I /\ age[f] \in 0 .. AGE_MAX /\ due'[f] \in -Late .. I
    BY <1>2 DEF IInv, Clocks
  <2>2. CASE f = e
    <3>1. reported[f] /\ age[f] < I
      BY <2>1, <2>2 DEF bscInfoTimeout_Skip, InfoDue, AGE_MAX
    <3> QED
      BY <1>1, <1>2, <2>1, <2>2, <3>1 DEF Balanced, AGE_MAX
  <2>3. CASE f # e
    BY <1>1, <1>2, <2>1, <2>3 DEF Balanced
  <2> QED
    BY <2>2, <2>3
<1> QED
  BY <1>1, <1>2, <1>3 DEF IInv, Clocks

\* Time takes from one what it gives to the other.
LEMMA TickBalanced ==
  ASSUME IInv, Tick
  PROVE  IInv'
<1>1. ASSUME NEW e \in Endpoints
      PROVE  /\ due'[e] = due[e] - 1 /\ due'[e] \in -Late .. I
             /\ age'[e] \in 0 .. AGE_MAX /\ age'[e] <= age[e] + 1
             /\ Balanced(e)'
  <2>1. Balanced(e) /\ due[e] \in -Late .. I /\ age[e] \in 0 .. AGE_MAX
    BY DEF IInv, Clocks
  <2>2. due'[e] = due[e] - 1 /\ due[e] > -Late
    BY DEF Tick
  <2>3. age'[e] = IF age[e] < AGE_MAX THEN age[e] + 1 ELSE age[e]
    BY DEF Tick
  <2>4. reported'[e] = reported[e] /\ cut'[e] = cut[e]
    BY DEF Tick
  <2>5. due'[e] \in -Late .. I /\ age'[e] \in 0 .. AGE_MAX /\ age'[e] <= age[e] + 1
    BY <2>1, <2>2, <2>3 DEF AGE_MAX
  <2> QED
    BY <2>1, <2>2, <2>4, <2>5 DEF Balanced, AGE_MAX
<1>2. due' = [e \in Endpoints |-> due'[e]] /\ age' = [e \in Endpoints |-> age'[e]]
  BY DEF Tick
<1> QED
  BY <1>1, <1>2 DEF IInv, Clocks, Tick

LEMMA ObeyBalanced ==
  ASSUME IInv, NEW E \in SUBSET Endpoints, NEW c, Obey(E, c)
  PROVE  IInv'
<1> DEFINE fits(e) == {i \in For(e, c) : Fits(After(e, c)[i])}
           sent == {e \in E : fits(e) # {}}
<1>1. /\ reported' = [e \in Endpoints |-> reported[e] \/ (e \in E /\ fits(e) # {})]
      /\ age' = [e \in Endpoints |-> IF e \in E /\ fits(e) # {} THEN 0 ELSE age[e]]
      /\ cut' = [e \in Endpoints |-> IF e \in E THEN Last(For(e, c)) \notin fits(e) ELSE cut[e]]
      /\ UNCHANGED <<up, due>>
  BY DEF Obey
<1> HIDE DEF fits
<1>2. reported' = [e \in Endpoints |-> reported[e] \/ e \in sent]
  BY <1>1, Zenon
<1>3. age' = [e \in Endpoints |-> IF e \in sent THEN 0 ELSE age[e]]
  BY <1>1
<1>4. cut' \in [Endpoints -> BOOLEAN]
  BY <1>1, Zenon DEF IInv, Clocks
<1>5. \A e \in Endpoints : e \notin sent /\ cut[e] => cut'[e]
  BY <1>1, Zenon
<1>6. sent \in SUBSET Endpoints
  OBVIOUS
<1> HIDE DEF sent
<1> QED
  BY <1>1, <1>2, <1>3, <1>4, <1>5, <1>6, ReportBalanced

LEMMA SendBalanced ==
  ASSUME IInv, NEW E \in SUBSET Endpoints, NEW v, NEW no,
         bscSendInfoEvent(E, v, no), UNCHANGED <<up, due>>
  PROVE  IInv'
<1> DEFINE sent == {e \in E \ no : Fits(v[e])}
<1>1. /\ reported' = [e \in Endpoints |-> reported[e] \/ e \in sent]
      /\ age' = [e \in Endpoints |-> IF e \in sent THEN 0 ELSE age[e]]
      /\ cut' = [e \in Endpoints |-> IF e \in E \ no THEN e \notin sent ELSE cut[e]]
  BY DEF bscSendInfoEvent
<1>2. sent \in SUBSET Endpoints
  OBVIOUS
<1> HIDE DEF sent
<1>3. cut' \in [Endpoints -> BOOLEAN]
  BY <1>1, Zenon DEF IInv, Clocks
<1>4. \A e \in Endpoints : e \notin sent /\ cut[e] => cut'[e]
  BY <1>1, Zenon
<1> QED
  BY <1>1, <1>2, <1>3, <1>4, ReportBalanced

LEMMA NextBalanced == IInv /\ [Next]_vars => IInv'
<1> SUFFICES ASSUME IInv, [Next]_vars PROVE IInv'
  OBVIOUS
<1>1. ASSUME NEW E \in SUBSET Endpoints, bscIncomingQuery(E) PROVE IInv'
  BY <1>1, SendBalanced DEF bscIncomingQuery
<1>2. ASSUME NEW e \in Endpoints, NEW s, NEW x, NEW no, bscSendEvent(e, s, x, no) PROVE IInv'
  <2>1. PICK v : v = value'
    OBVIOUS
  <2>2. bscSendInfoEvent({e}, v, no) /\ UNCHANGED <<up, due>>
    BY <1>2, <2>1 DEF bscSendEvent
  <2> QED
    BY <2>2, SendBalanced
<1>3. ASSUME NEW e \in Endpoints, NEW lag \in 0 .. L, bscInfoTimeout(e, lag) PROVE IInv'
  BY <1>3, TimeoutBalanced
<1>4. ASSUME NEW e \in Endpoints, NEW lag \in 0 .. L, bscInfoTimeout_Skip(e, lag) PROVE IInv'
  BY <1>4, SkipBalanced
<1>5. ASSUME NEW T \in SUBSET Outputs, NEW c, bscIncomingCmd(T, c) PROVE IInv'
  <2> DEFINE E == {e \in T : For(e, c) # {}}
  <2>e. E \in SUBSET Endpoints
    BY EndpointAssumption
  <2>1. CASE Crash
    BY <2>1 DEF Crash, IInv, Clocks, Balanced
  <2>2. CASE Obey(E, c)
    BY <2>2, <2>e, ObeyBalanced
  <2> QED
    BY <1>5, <2>1, <2>2 DEF bscIncomingCmd
<1>6. CASE Restart
  BY <1>6 DEF Restart, IInv, Clocks, Balanced, AGE_MAX
<1>7. CASE Tick
  BY <1>7, TickBalanced
<1>8. CASE \E e \in Endpoints, x \in TooLong : bscInfoEvent_Overflow(e, x)
  BY <1>8 DEF bscInfoEvent_Overflow, Crash, IInv, Clocks, Balanced
<1>9. CASE UNCHANGED vars
  BY <1>9 DEF vars, IInv, Clocks, Balanced
<1> QED
  BY <1>1, <1>2, <1>3, <1>4, <1>5, <1>6, <1>7, <1>8, <1>9 DEF Next

(* An endpoint whose text fits has been silent for at most Late seconds     *)
(* before its first report and 2 * I - 1 + Late seconds after it, for every *)
(* set of endpoints and commands and every interval and delay: bsc.c,       *)
(* bscInfoTimeout() with timeoutDispatch() of timeout.c.                    *)
THEOREM GapBound == Spec => []ReportGap
<1>1. IInv => ReportGap
  <2> SUFFICES ASSUME IInv, NEW e \in Endpoints, ~cut[e]
               PROVE  age[e] <= IF reported[e] THEN 2 * I - 1 + Late ELSE Late
    BY DEF ReportGap
  <2>1. due[e] \in -Late .. I /\ age[e] \in 0 .. AGE_MAX /\ Balanced(e)
    BY DEF IInv, Clocks
  <2> QED
    BY <2>1 DEF Balanced, AGE_MAX
<1> QED
  BY InitBalanced, NextBalanced, <1>1, PTL DEF Spec


-----------------------------------------------------------------------------
(***************************************************************************)
(* What a command does.                                                    *)
(***************************************************************************)

(* A set of numbers that is not empty has a least element; what is shown by *)
(* induction below is shown with it.                                        *)
LEMMA LeastElement ==
    ASSUME NEW N \in SUBSET Nat, N # {}
    PROVE  \E n \in N : \A m \in N : n <= m
<1> DEFINE R == {ss \in Nat \X Nat : ss[1] < ss[2]}
<1>1. IsWellFoundedOn(R, Nat)
  BY NatLessThanWellFounded DEF OpToRel
<1>2. \A m, n \in Nat : (<<m, n>> \in R) <=> m < n
  OBVIOUS
<1> HIDE DEF R
<1>3. PICK n \in N : \A m \in N : ~(<<m, n>> \in R)
  BY <1>1, WFMin
<1>4. \A m \in N : n <= m
  <2> SUFFICES ASSUME NEW m \in N
               PROVE  n <= m
    OBVIOUS
  <2>1. m \in Nat /\ n \in Nat
    OBVIOUS
  <2>2. ~(m < n)
    BY <1>2, <1>3, <2>1, Zenon
  <2> QED
    BY <2>1, <2>2
<1> QED
  BY <1>4

\* One more section: After()'s step.
Obeyed(e, c, v, n) ==
    IF n \notin For(e, c) THEN v
    ELSE [state |-> cmd(e, bscSetState(v.state, bscDecodeState(c[n].state))),
          text |-> IF e \in Binary THEN v.text ELSE c[n].text]

(* The recursion of After() has a solution, for it only looks back.         *)
LEMMA AfterSteps ==
    ASSUME NEW e, NEW c \in Commands
    PROVE  /\ Len(c) \in Nat
           /\ After(e, c)[0] = value[e]
           /\ \A n \in 1 .. Len(c) : After(e, c)[n] = Obeyed(e, c, After(e, c)[n - 1], n)
<1>1. Len(c) \in Nat
  BY CommandAssumption
<1> DEFINE G(f, n) == IF n = 0 THEN value[e] ELSE Obeyed(e, c, f[n - 1], n)
           Solved(k) == \E f : f = [n \in 0 .. k |-> G(f, n)]
           N == {k \in 0 .. Len(c) : ~Solved(k)}
<1>2. Solved(Len(c))
  <2>1. ASSUME N # {}
        PROVE  FALSE
    <3>1. N \in SUBSET Nat
      OBVIOUS
    <3>2. PICK k \in N : \A m \in N : k <= m
      <4> HIDE DEF N
      <4> QED
        BY <2>1, <3>1, LeastElement
    <3>3. k \in 0 .. Len(c) /\ ~Solved(k)
      OBVIOUS
    <3>4. CASE k = 0
      <4> DEFINE f == [n \in 0 .. 0 |-> value[e]]
      <4>1. f = [n \in 0 .. 0 |-> G(f, n)]
        OBVIOUS
      <4> QED
        BY <3>3, <3>4, <4>1
    <3>5. CASE k # 0
      <4>1. k - 1 \in 0 .. Len(c) /\ k - 1 \notin N /\ k \in Nat /\ k > 0
        <5>1. k \in Nat /\ k > 0 /\ k - 1 \in 0 .. Len(c) /\ ~(k <= k - 1)
          BY <1>1, <3>3, <3>5
        <5> HIDE DEF N
        <5> QED
          BY <3>2, <5>1
      <4>2. PICK f : f = [n \in 0 .. k - 1 |-> G(f, n)]
        BY <4>1
      <4> DEFINE g == [n \in 0 .. k |-> IF n = k THEN Obeyed(e, c, f[k - 1], k) ELSE f[n]]
      <4>3. ASSUME NEW n \in 0 .. k
            PROVE  g[n] = G(g, n)
        <5>1. CASE n = 0
          BY <4>1, <4>2, <5>1
        <5>2. CASE n # 0 /\ n = k
          <6>1. n - 1 \in 0 .. k /\ n - 1 # k
            BY <4>1, <5>2
          <6>2. g[n - 1] = f[k - 1]
            BY <5>2, <6>1
          <6> QED
            BY <5>2, <6>2
        <5>3. CASE n # 0 /\ n # k
          <6>1. n - 1 \in 0 .. k /\ n - 1 # k /\ n \in 0 .. k - 1
            BY <4>1, <5>3
          <6>2. g[n - 1] = f[n - 1] /\ g[n] = f[n]
            BY <5>3, <6>1
          <6>3. f[n] = G(f, n)
            BY <4>2, <6>1
          <6> QED
            BY <5>3, <6>2, <6>3
        <5> QED
          BY <5>1, <5>2, <5>3
      <4>4. g = [n \in 0 .. k |-> g[n]]
        OBVIOUS
      <4>5. g = [n \in 0 .. k |-> G(g, n)]
        <5> HIDE DEF g, G
        <5> QED
          BY <4>3, <4>4
      <4> HIDE DEF g
      <4> QED
        BY <3>3, <4>5
    <3> QED
      BY <3>4, <3>5
  <2> QED
    BY <1>1, <2>1
<1>3. After(e, c) = CHOOSE f : f = [n \in 0 .. Len(c) |-> G(f, n)]
  BY DEF After, Obeyed
<1>4. After(e, c) = [n \in 0 .. Len(c) |-> G(After(e, c), n)]
  <2> HIDE DEF G
  <2> QED
    BY <1>2, <1>3, Zenon
<1>5. \A n \in 1 .. Len(c) : n \in 0 .. Len(c) /\ n # 0
  BY <1>1
<1>6. 0 \in 0 .. Len(c)
  BY <1>1
<1> DEFINE v == After(e, c)
<1>7. v = [n \in 0 .. Len(c) |-> G(v, n)]
  BY <1>4
<1> HIDE DEF v
<1>8. v[0] = value[e] /\ \A n \in 1 .. Len(c) : v[n] = Obeyed(e, c, v[n - 1], n)
  BY <1>5, <1>6, <1>7
<1> QED
  BY <1>1, <1>8 DEF v


(* The greatest of some of the first numbers.                               *)
LEMMA LastProperties ==
    ASSUME NEW m \in Nat, NEW J \in SUBSET (1 .. m), J # {}
    PROVE  Last(J) \in J /\ \A j \in J : j <= Last(J)
<1> DEFINE N == {m - j : j \in J}
<1>1. N \in SUBSET Nat /\ N # {}
  <2>1. \A j \in J : m - j \in Nat
    OBVIOUS
  <2>2. PICK j \in J : TRUE
    OBVIOUS
  <2>3. m - j \in N
    OBVIOUS
  <2> QED
    BY <2>1, <2>3
<1>2. PICK k \in N : \A n \in N : k <= n
  <2> HIDE DEF N
  <2> QED
    BY <1>1, LeastElement
<1>3. PICK i \in J : k = m - i
  OBVIOUS
<1>4. \A j \in J : j <= i
  <2> SUFFICES ASSUME NEW j \in J
               PROVE  j <= i
    OBVIOUS
  <2>1. m - i <= m - j
    BY <1>2, <1>3
  <2>2. i \in Nat /\ j \in Nat
    OBVIOUS
  <2> HIDE DEF N
  <2> QED
    BY <2>1, <2>2
<1> QED
  BY <1>4 DEF Last

\* The sections of commands.
Sections ==
    [id : Endpoints \cup {"*", "other", None}, state : {"on", "off", "toggle", "junk", None},
     text : Texts \cup {None}]

LEMMA CommandSections ==
    ASSUME NEW c \in Commands
    PROVE  /\ c \in Seq(Sections) /\ Len(c) \in Nat
           /\ \A n \in 1 .. Len(c) : /\ c[n].state \in {"on", "off", "toggle", "junk", None}
                                     /\ c[n].text \in Texts \cup {None}
<1>1. Commands \subseteq Seq(Sections)
  BY CommandAssumption, Zenon DEF Sections
<1>2. \A s \in Sections : s.state \in {"on", "off", "toggle", "junk", None} /\ s.text \in Texts \cup {None}
  BY DEF Sections
<1> QED
  BY <1>1, <1>2

(* The sections for an endpoint have an id and a state.                     *)
LEMMA ForProperties ==
    ASSUME NEW e, NEW c \in Commands
    PROVE  /\ For(e, c) \in SUBSET (1 .. Len(c)) /\ Len(c) \in Nat
           /\ \A n \in For(e, c) : /\ c[n].state \in {"on", "off", "toggle", "junk"}
                                   /\ c[n].text \in Texts \cup {None}
<1>1. \A n \in For(e, c) : n \in 1 .. Len(c) /\ c[n].state # None
  BY CommandSections DEF For, Readable
<1> QED
  BY <1>1, CommandSections

(* After the last section for it nothing happens to an endpoint.            *)
LEMMA AfterIdle ==
    ASSUME NEW e, NEW c \in Commands, NEW a \in 0 .. Len(c), \A n \in For(e, c) : n <= a
    PROVE  After(e, c)[Len(c)] = After(e, c)[a]
<1> DEFINE v == After(e, c)
           N == {k \in a .. Len(c) : v[k] # v[a]}
<1>1. Len(c) \in Nat /\ \A n \in 1 .. Len(c) : v[n] = Obeyed(e, c, v[n - 1], n)
  BY AfterSteps
<1> HIDE DEF v
<1>2. ASSUME N # {}
      PROVE  FALSE
  <2>1. N \in SUBSET Nat
    BY <1>1
  <2>2. PICK k \in N : \A m \in N : k <= m
    <3> HIDE DEF N
    <3> QED
      BY <1>2, <2>1, LeastElement
  <2>3. k \in a .. Len(c) /\ v[k] # v[a] /\ k # a
    OBVIOUS
  <2>4. k \in 1 .. Len(c) /\ k - 1 \in a .. Len(c) /\ k - 1 \notin N
    BY <1>1, <2>2, <2>3
  <2>5. v[k - 1] = v[a]
    BY <2>4
  <2>6. k \notin For(e, c)
    BY <2>3, <2>4, ForProperties
  <2>7. v[k] = v[k - 1]
    BY <1>1, <2>4, <2>6 DEF Obeyed
  <2> QED
    BY <2>3, <2>5, <2>7
<1>3. Len(c) \in a .. Len(c)
  BY <1>1
<1> QED
  BY <1>2, <1>3 DEF v

\* What an endpoint may be.
Values == [state : 0 .. 3, text : Texts]

(* A command that is carried out leaves a state and a text.                 *)
LEMMA AfterTyped ==
    ASSUME NEW e, NEW c \in Commands, value[e] \in Values, ~Fatal(e, c)
    PROVE  \A n \in 0 .. Len(c) : After(e, c)[n] \in Values
<1> DEFINE v == After(e, c)
           N == {k \in 0 .. Len(c) : v[k] \notin Values}
<1>1. /\ Len(c) \in Nat /\ v[0] = value[e]
      /\ \A n \in 1 .. Len(c) : v[n] = Obeyed(e, c, v[n - 1], n)
  BY AfterSteps
<1> HIDE DEF v
<1>2. ASSUME N # {}
      PROVE  FALSE
  <2>1. N \in SUBSET Nat
    BY <1>1
  <2>2. PICK k \in N : \A m \in N : k <= m
    <3> HIDE DEF N
    <3> QED
      BY <1>2, <2>1, LeastElement
  <2>3. k \in 0 .. Len(c) /\ v[k] \notin Values /\ k # 0
    BY <1>1
  <2>4. k \in 1 .. Len(c) /\ k - 1 \in 0 .. Len(c) /\ k - 1 \notin N
    BY <1>1, <2>2, <2>3
  <2>5. v[k - 1] \in Values
    BY <2>4
  <2>6. v[k] = Obeyed(e, c, v[k - 1], k)
    BY <1>1, <2>4
  <2>7. CASE k \in For(e, c)
    <3>1. c[k].state \in {"on", "off", "toggle", "junk"} /\ c[k].text \in Texts \cup {None}
      BY <2>7, ForProperties
    <3>2. cmd(e, bscSetState(v[k - 1].state, bscDecodeState(c[k].state))) \in 0 .. 3
      BY <3>1 DEF cmd, bscSetState, bscDecodeState, ON, OFF, UNKNOWN
    <3>3. e \notin Binary => c[k].text \in Texts
      BY <2>7, <3>1 DEF Fatal
    <3>4. v[k - 1].text \in Texts
      BY <2>5 DEF Values
    <3> QED
      BY <2>3, <2>6, <2>7, <3>2, <3>3, <3>4 DEF Obeyed, Values
  <2>8. CASE k \notin For(e, c)
    BY <2>3, <2>5, <2>6, <2>8 DEF Obeyed
  <2> QED
    BY <2>7, <2>8
<1> QED
  BY <1>2 DEF v


-----------------------------------------------------------------------------
(***************************************************************************)
(* What listeners know.                                                    *)
(***************************************************************************)

\* The types of what reports say.
Told ==
    /\ value \in [Endpoints -> Values]
    /\ seen \in [Endpoints -> Values \cup {None}]
    /\ mute \in [Endpoints -> BOOLEAN]

LEMMA InitTold == Init => Told /\ SeenIsValue
<1> SUFFICES ASSUME Init
             PROVE  Told /\ SeenIsValue
  OBVIOUS
<1>1. \A e \in Endpoints : Initially(e) \in Values
  BY TextAssumption DEF Initially, Values, UNKNOWN, OFF, ON
<1>2. value \in [Endpoints -> Values]
  BY <1>1 DEF Init
<1>3. seen \in [Endpoints -> Values \cup {None}]
  BY DEF Init
<1>4. mute \in [Endpoints -> BOOLEAN]
  BY Zenon DEF Init
<1>5. SeenIsValue
  BY DEF Init, SeenIsValue
<1> QED
  BY <1>2, <1>3, <1>4, <1>5 DEF Told

(* A report says what is to be reported.                                    *)
LEMMA SendTold ==
    ASSUME Told, SeenIsValue, up, NEW E \in SUBSET Endpoints, NEW v \in [Endpoints -> Values], NEW no,
           bscSendInfoEvent(E, v, no), value' = v, \A e \in Endpoints \ E : v[e] = value[e]
    PROVE  Told' /\ SeenIsValue'
<1> DEFINE sent == {e \in E \ no : Fits(v[e])}
<1>1. /\ reported' = [e \in Endpoints |-> reported[e] \/ e \in sent]
      /\ seen' = [e \in Endpoints |-> IF e \in sent THEN v[e] ELSE seen[e]]
      /\ mute' = [e \in Endpoints |-> IF e \in E THEN e \notin sent ELSE mute[e]]
  BY DEF bscSendInfoEvent
<1> HIDE DEF sent
<1>2. mute' \in [Endpoints -> BOOLEAN]
  BY <1>1, Zenon DEF Told
<1>3. seen' \in [Endpoints -> Values \cup {None}]
  BY <1>1 DEF Told
<1>4. ASSUME NEW e \in Endpoints, reported'[e], ~mute'[e]
      PROVE  seen'[e] = value'[e]
  <2>1. CASE e \in sent
    BY <1>1, <2>1
  <2>2. CASE e \notin sent
    <3>1. e \notin E /\ ~mute[e]
      BY <1>1, <1>4, <2>2, Zenon
    <3>2. reported[e]
      BY <1>1, <1>4, <2>2, Zenon
    <3>3. seen[e] = value[e]
      BY <3>1, <3>2 DEF SeenIsValue
    <3> QED
      BY <1>1, <2>2, <3>1, <3>3
  <2> QED
    BY <2>1, <2>2
<1> QED
  BY <1>2, <1>3, <1>4 DEF Told, SeenIsValue

(* The last section for an endpoint leaves what its event says.             *)
LEMMA ObeyTold ==
    ASSUME Told, SeenIsValue, up, NEW E \in SUBSET Endpoints, NEW c \in Commands, Obey(E, c),
           \A e \in E : For(e, c) # {} /\ ~Fatal(e, c)
    PROVE  Told' /\ SeenIsValue'
<1> DEFINE sent(e) == {i \in For(e, c) : Fits(After(e, c)[i])}
<1>1. /\ value' = [e \in Endpoints |-> IF e \in E THEN After(e, c)[Len(c)] ELSE value[e]]
      /\ reported' = [e \in Endpoints |-> reported[e] \/ (e \in E /\ sent(e) # {})]
      /\ seen' = [e \in Endpoints |-> IF e \in E /\ sent(e) # {} THEN After(e, c)[Last(sent(e))] ELSE seen[e]]
      /\ mute' = [e \in Endpoints |-> IF e \in E THEN Last(For(e, c)) \notin sent(e) ELSE mute[e]]
  BY DEF Obey, Reported
<1>2. /\ Len(c) \in Nat
      /\ \A e : For(e, c) \in SUBSET (1 .. Len(c)) /\ sent(e) \in SUBSET For(e, c)
  BY ForProperties
<1>3. ASSUME NEW e \in E
      PROVE  \A n \in 0 .. Len(c) : After(e, c)[n] \in Values
  <2>1. value[e] \in Values /\ ~Fatal(e, c)
    BY DEF Told
  <2> QED
    BY <2>1, AfterTyped
<1> HIDE DEF sent
<1>4. value' \in [Endpoints -> Values]
  <2>1. Len(c) \in 0 .. Len(c)
    BY <1>2
  <2> QED
    BY <1>1, <1>3, <2>1 DEF Told
<1>5. ASSUME NEW e \in E, sent(e) # {}
      PROVE  Last(sent(e)) \in sent(e) /\ (\A j \in sent(e) : j <= Last(sent(e))) /\ Last(sent(e)) \in 0 .. Len(c)
  <2>1. sent(e) \in SUBSET (1 .. Len(c))
    BY <1>2
  <2>2. Last(sent(e)) \in sent(e) /\ \A j \in sent(e) : j <= Last(sent(e))
    BY <1>2, <1>5, <2>1, LastProperties
  <2> QED
    BY <1>2, <2>1, <2>2
<1>6. seen' \in [Endpoints -> Values \cup {None}]
  <2>1. ASSUME NEW e \in Endpoints
        PROVE  (IF e \in E /\ sent(e) # {} THEN After(e, c)[Last(sent(e))] ELSE seen[e]) \in Values \cup {None}
    BY <1>3, <1>5 DEF Told
  <2> QED
    BY <1>1, <2>1
<1>7. mute' \in [Endpoints -> BOOLEAN]
  BY <1>1, Zenon DEF Told
<1>8. ASSUME NEW e \in Endpoints, reported'[e], ~mute'[e]
      PROVE  seen'[e] = value'[e]
  <2>1. CASE e \in E
    <3>1. Last(For(e, c)) \in sent(e)
      BY <1>1, <1>8, <2>1, Zenon
    <3>2. /\ \A j \in For(e, c) : j <= Last(For(e, c))
          /\ Last(For(e, c)) \in For(e, c)
      BY <1>2, <2>1, LastProperties
    <3>3. Last(sent(e)) = Last(For(e, c))
      <4>1. Last(sent(e)) \in For(e, c) /\ Last(For(e, c)) <= Last(sent(e))
        BY <1>2, <1>5, <2>1, <3>1
      <4>2. Last(sent(e)) <= Last(For(e, c))
        BY <3>2, <4>1
      <4>3. Last(sent(e)) \in Nat /\ Last(For(e, c)) \in Nat
        BY <1>2, <3>2, <4>1
      <4> QED
        BY <4>1, <4>2, <4>3
    <3>4. Last(For(e, c)) \in 0 .. Len(c)
      BY <1>2, <3>2
    <3>5. After(e, c)[Len(c)] = After(e, c)[Last(For(e, c))]
      BY <3>2, <3>4, AfterIdle
    <3>6. sent(e) # {}
      BY <3>1
    <3> QED
      BY <1>1, <2>1, <3>3, <3>5, <3>6
  <2>2. CASE e \notin E
    <3>1. ~mute[e] /\ reported[e]
      BY <1>1, <1>8, <2>2, Zenon
    <3>2. seen[e] = value[e]
      BY <3>1 DEF SeenIsValue
    <3> QED
      BY <1>1, <2>2, <3>2
  <2> QED
    BY <2>1, <2>2
<1> QED
  BY <1>4, <1>6, <1>7, <1>8 DEF Told, SeenIsValue

LEMMA NextTold == Told /\ SeenIsValue /\ [Next]_vars => Told' /\ SeenIsValue'
<1> SUFFICES ASSUME Told, SeenIsValue, [Next]_vars
             PROVE  Told' /\ SeenIsValue'
  OBVIOUS
<1>1. ASSUME NEW E \in SUBSET Endpoints, bscIncomingQuery(E)
      PROVE  Told' /\ SeenIsValue'
  <2>1. value \in [Endpoints -> Values] /\ up /\ bscSendInfoEvent(E, value, {}) /\ value' = value
    BY <1>1 DEF bscIncomingQuery, Told
  <2> QED
    BY <2>1, SendTold
<1>2. ASSUME NEW e \in Endpoints, NEW s \in {OFF, ON, UNKNOWN}, NEW x \in Texts, NEW no,
             bscSendEvent(e, s, x, no)
      PROVE  Told' /\ SeenIsValue'
  <2>1. PICK v : v = value'
    OBVIOUS
  <2>2. /\ up /\ bscSendInfoEvent({e}, v, no)
        /\ v = [value EXCEPT ![e] = [state |-> s, text |-> IF e \in Binary THEN value[e].text ELSE x]]
    BY <1>2, <2>1 DEF bscSendEvent
  <2>3. value \in [Endpoints -> Values] /\ value[e] \in Values
    BY DEF Told
  <2>4. value[e].text \in Texts
    BY <2>3 DEF Values
  <2>5. [state |-> s, text |-> IF e \in Binary THEN value[e].text ELSE x] \in Values
    BY <2>4 DEF Values, OFF, ON, UNKNOWN
  <2>6. v \in [Endpoints -> Values] /\ \A f \in Endpoints \ {e} : v[f] = value[f]
    BY <2>2, <2>3, <2>5
  <2> QED
    BY <2>1, <2>2, <2>6, SendTold
<1>3. ASSUME NEW e \in Endpoints, NEW lag, bscInfoTimeout(e, lag)
      PROVE  Told' /\ SeenIsValue'
  <2>1. value \in [Endpoints -> Values] /\ up /\ bscSendInfoEvent({e}, value, {}) /\ value' = value
    BY <1>3 DEF bscInfoTimeout, Fire, Told
  <2> QED
    BY <2>1, SendTold
<1>4. ASSUME NEW T \in SUBSET Outputs, NEW c \in Commands, bscIncomingCmd(T, c)
      PROVE  Told' /\ SeenIsValue'
  <2> DEFINE E == {e \in T : For(e, c) # {}}
  <2>1. E \in SUBSET Endpoints /\ up
    BY <1>4, EndpointAssumption DEF bscIncomingCmd
  <2>2. CASE Crash
    BY <2>2 DEF Crash, Told, SeenIsValue
  <2>3. CASE Obey(E, c) /\ \A e \in E : ~Fatal(e, c)
    <3>1. \A e \in E : For(e, c) # {}
      OBVIOUS
    <3> HIDE DEF E
    <3> QED
      BY <2>1, <2>3, <3>1, ObeyTold
  <2> QED
    BY <1>4, <2>2, <2>3 DEF bscIncomingCmd
<1>5. CASE Restart
  <2>1. \A e \in Endpoints : Initially(e) \in Values
    BY TextAssumption DEF Initially, Values, UNKNOWN, OFF, ON
  <2>2. value' \in [Endpoints -> Values] /\ seen' \in [Endpoints -> Values \cup {None}]
    BY <1>5, <2>1 DEF Restart
  <2>3. mute' \in [Endpoints -> BOOLEAN] /\ SeenIsValue'
    BY <1>5, Zenon DEF Restart, SeenIsValue
  <2> QED
    BY <2>2, <2>3 DEF Told
<1>6. CASE \/ \E e \in Endpoints, lag \in 0 .. L : bscInfoTimeout_Skip(e, lag)
           \/ Tick
           \/ UNCHANGED vars
  <2>1. UNCHANGED <<up, value, reported, seen, mute>>
    BY <1>6 DEF bscInfoTimeout_Skip, Fire, Tick, vars
  <2> QED
    BY <2>1 DEF Told, SeenIsValue
<1>7. CASE \E e \in Endpoints, x \in TooLong : bscInfoEvent_Overflow(e, x)
  BY <1>7 DEF bscInfoEvent_Overflow, Crash, Told, SeenIsValue
<1> QED
  BY <1>1, <1>2, <1>3, <1>4, <1>5, <1>6, <1>7 DEF Next

(* The variables have their types, for any endpoints, texts and commands:   *)
(* no command that is carried out leaves an endpoint without a text, and no *)
(* state is outside the bit field of two that holds it.  bsc.h.             *)
THEOREM TypeCorrect == Spec => []TypeOK
<1>1. IInv /\ Told => TypeOK
  BY DEF IInv, Clocks, Told, Values, TypeOK
<1> QED
  BY InitBalanced, NextBalanced, InitTold, NextTold, <1>1, PTL DEF Spec

(* What listeners know of an endpoint whose last report could be sent is    *)
(* what it is, for any endpoints and commands of any length: of a command   *)
(* with several sections for it the event of the last one remains.  bsc.c:  *)
(* bscIncomingCmd(), bscSendCmdEvent(), bscInfoEvent().                     *)
THEOREM ReportsAreTrue == Spec => []SeenIsValue
  BY InitTold, NextTold, PTL DEF Spec


-----------------------------------------------------------------------------
(***************************************************************************)
(* What a command reads like is what it does.                              *)
(***************************************************************************)

(* The body of a command is what the loop reads of it.                      *)
LEMMA BodyProperties ==
    ASSUME NEW c \in Commands
    PROVE  /\ Len(Body(c)) \in Nat /\ Len(Body(c)) <= Len(c)
           /\ \A i \in 1 .. Len(Body(c)) : Body(c)[i] = c[i]
           /\ Readable(c) = 1 .. Len(Body(c))
<1>1. c \in Seq(Sections) /\ Len(c) \in Nat /\ SECTIONS \in Nat
  BY CommandSections, CommandAssumption
<1> DEFINE bad == {i \in 1 .. Len(c) : None \in {c[i].id, c[i].state}}
           n == IF bad = {} THEN Len(c) ELSE (CHOOSE i \in bad : \A j \in bad : i <= j) - 1
           k == IF n < SECTIONS THEN n ELSE SECTIONS
<1>2. /\ n \in 0 .. Len(c)
      /\ \A i \in 1 .. Len(c) : i <= n <=> \A j \in 1 .. i : j \notin bad
  <2>1. CASE bad = {}
    BY <1>1, <2>1
  <2>2. CASE bad # {}
    <3>1. bad \in SUBSET Nat
      OBVIOUS
    <3> DEFINE m == CHOOSE i \in bad : \A j \in bad : i <= j
    <3>2. m \in bad /\ \A j \in bad : m <= j
      <4> HIDE DEF bad
      <4>1. \E i \in bad : \A j \in bad : i <= j
        BY <2>2, <3>1, LeastElement
      <4> QED
        BY <4>1
    <3>3. n = m - 1
      BY <2>2
    <3> HIDE DEF m
    <3>4. m \in 1 .. Len(c)
      BY <3>2
    <3> HIDE DEF n, bad
    <3>5. ASSUME NEW i \in 1 .. Len(c)
          PROVE  i <= n <=> \A j \in 1 .. i : j \notin bad
      <4>1. CASE i <= n
        <5>1. \A j \in 1 .. i : ~(m <= j)
          BY <3>3, <3>4, <4>1
        <5> QED
          BY <3>2, <4>1, <5>1
      <4>2. CASE ~(i <= n)
        <5>1. m \in 1 .. i
          BY <3>3, <3>4, <4>2
        <5> QED
          BY <3>2, <4>2, <5>1
      <4> QED
        BY <4>1, <4>2
    <3> QED
      BY <1>1, <3>3, <3>4, <3>5
  <2> QED
    BY <2>1, <2>2
<1>3. Body(c) = SubSeq(c, 1, k)
  BY DEF Body
<1>4. Readable(c) = {i \in 1 .. Len(c) : i <= SECTIONS /\ \A j \in 1 .. i : j \notin bad}
  <2>1. \A i \in 1 .. Len(c) : \A j \in 1 .. i : j \notin bad <=> c[j].id # None /\ c[j].state # None
    BY <1>1
  <2> HIDE DEF bad
  <2> QED
    BY <2>1 DEF Readable
<1> HIDE DEF n, bad
<1>5. k \in 0 .. Len(c)
  BY <1>1, <1>2
<1>6. Readable(c) = 1 .. k
  <2>1. \A i \in 1 .. Len(c) : i <= SECTIONS /\ i <= n <=> i <= k
    BY <1>1, <1>2
  <2>2. \A i \in 1 .. k : i \in 1 .. Len(c)
    BY <1>5
  <2> HIDE DEF k
  <2> QED
    BY <1>1, <1>2, <1>4, <1>5, <2>1, <2>2
<1> HIDE DEF k
<1>7. Len(SubSeq(c, 1, k)) = k /\ \A i \in 1 .. k : SubSeq(c, 1, k)[i] = c[i]
  BY <1>1, <1>5
<1> QED
  BY <1>1, <1>3, <1>5, <1>6, <1>7

\* Off and on in turn, k times.
Turned(left, k) ==
    IF k = 0 THEN left
    ELSE LET flipped == IF k % 2 = 1 THEN ON ELSE OFF
         IN  IF left = ON THEN 1 - flipped ELSE flipped

LEMMA TurnedOnce ==
    ASSUME NEW left, NEW k \in Nat
    PROVE  Turned(left, k + 1) = bscSetState(Turned(left, k), 2)
<1>1. CASE k = 0
  BY <1>1 DEF Turned, bscSetState, ON, OFF
<1>2. CASE k # 0 /\ k % 2 = 1
  <2>1. (k + 1) % 2 = 0 /\ k + 1 # 0
    BY <1>2
  <2> QED
    BY <1>2, <2>1 DEF Turned, bscSetState, ON, OFF
<1>3. CASE k # 0 /\ k % 2 # 1
  <2>1. (k + 1) % 2 = 1 /\ k + 1 # 0
    BY <1>3
  <2> QED
    BY <1>3, <2>1 DEF Turned, bscSetState, ON, OFF
<1> QED
  BY <1>1, <1>2, <1>3

\* The words for e in the first n sections, those that are no toggles, the toggles after
\* these, and what they amount to.
Words(e, c, n) == {i \in For(e, c) : i <= n}
Plain(e, c, n) == {i \in Words(e, c, n) : c[i].state # "toggle"}
Toggles(e, c, n) == {i \in Words(e, c, n) : \A j \in Plain(e, c, n) : j < i}
Left(e, c, n) ==
    IF Plain(e, c, n) = {} THEN value[e].state
    ELSE [on |-> ON, off |-> OFF, junk |-> UNKNOWN][c[Last(Plain(e, c, n))].state]
Amount(e, c, n) == Turned(Left(e, c, n), Cardinality(Toggles(e, c, n)))

LEMMA TogglesFinite ==
    ASSUME NEW e, NEW c \in Commands, NEW n
    PROVE  IsFiniteSet(Toggles(e, c, n)) /\ Cardinality(Toggles(e, c, n)) \in Nat
<1>1. Toggles(e, c, n) \subseteq 1 .. Len(c) /\ Len(c) \in Nat
  BY ForProperties DEF Toggles, Words
<1>2. IsFiniteSet(1 .. Len(c))
  BY <1>1, FS_Interval
<1>3. IsFiniteSet(Toggles(e, c, n))
  BY <1>1, <1>2, FS_Subset
<1> QED
  BY <1>3, FS_CardinalityType

(* Another section that is not for e, a toggle, and another word.           *)
LEMMA AmountStep ==
    ASSUME NEW e, NEW c \in Commands, NEW n \in 1 .. Len(c)
    PROVE  Amount(e, c, n) = IF n \notin For(e, c) THEN Amount(e, c, n - 1)
                             ELSE bscSetState(Amount(e, c, n - 1), bscDecodeState(c[n].state))
<1>1. Len(c) \in Nat /\ For(e, c) \in SUBSET (1 .. Len(c)) /\ n \in Nat
  BY ForProperties
<1>2. \A i \in For(e, c) : i <= n - 1 <=> i <= n /\ i # n
  BY <1>1
<1>3. CASE n \notin For(e, c)
  <2>1. Words(e, c, n) = Words(e, c, n - 1)
    BY <1>2, <1>3 DEF Words
  <2> QED
    BY <1>3, <2>1 DEF Amount, Left, Toggles, Plain
<1>4. CASE n \in For(e, c) /\ c[n].state = "toggle"
  <2>1. Words(e, c, n) = Words(e, c, n - 1) \cup {n}
    BY <1>1, <1>2, <1>4 DEF Words
  <2>2. Plain(e, c, n) = Plain(e, c, n - 1)
    BY <1>4, <2>1 DEF Plain
  <2>3. \A j \in Plain(e, c, n) : j < n
    BY <1>1, <1>2, <2>2 DEF Plain, Words
  <2>4. Toggles(e, c, n) = Toggles(e, c, n - 1) \cup {n}
    BY <2>1, <2>2, <2>3 DEF Toggles
  <2>5. n \notin Toggles(e, c, n - 1)
    BY <1>1, <1>2 DEF Toggles, Words
  <2>6. Cardinality(Toggles(e, c, n)) = Cardinality(Toggles(e, c, n - 1)) + 1
    BY <2>4, <2>5, TogglesFinite, FS_AddElement
  <2>7. Left(e, c, n) = Left(e, c, n - 1)
    BY <2>2 DEF Left
  <2>8. bscDecodeState(c[n].state) = 2
    BY <1>4 DEF bscDecodeState
  <2> QED
    BY <1>4, <2>6, <2>7, <2>8, TogglesFinite, TurnedOnce DEF Amount
<1>5. CASE n \in For(e, c) /\ c[n].state # "toggle"
  <2>1. Words(e, c, n) = Words(e, c, n - 1) \cup {n}
    BY <1>1, <1>2, <1>5 DEF Words
  <2>2. n \in Plain(e, c, n) /\ \A i \in Plain(e, c, n) : i <= n
    BY <1>1, <1>5 DEF Plain, Words
  <2>3. Plain(e, c, n) \in SUBSET (1 .. Len(c))
    BY <1>1 DEF Plain, Words
  <2>4. Last(Plain(e, c, n)) = n
    <3>1. /\ Last(Plain(e, c, n)) \in Plain(e, c, n)
          /\ n <= Last(Plain(e, c, n))
      BY <1>1, <2>2, <2>3, LastProperties
    <3>2. Last(Plain(e, c, n)) <= n /\ Last(Plain(e, c, n)) \in Nat
      BY <2>2, <2>3, <3>1
    <3> QED
      BY <1>1, <3>1, <3>2
  <2>5. Toggles(e, c, n) = {}
    <3>1. \A i \in Words(e, c, n) : ~(n < i)
      BY <1>1 DEF Words
    <3> QED
      BY <2>2, <3>1 DEF Toggles
  <2>6. Cardinality(Toggles(e, c, n)) = 0
    BY <2>5, FS_EmptySet
  <2>7. c[n].state \in {"on", "off", "junk"}
    BY <1>5, ForProperties
  <2>8. Left(e, c, n) = [on |-> ON, off |-> OFF, junk |-> UNKNOWN][c[n].state]
    BY <2>2, <2>4 DEF Left
  <2>9. Amount(e, c, n) = Left(e, c, n)
    BY <2>6 DEF Amount, Turned
  <2>10. Left(e, c, n) = bscSetState(Amount(e, c, n - 1), bscDecodeState(c[n].state))
    BY <2>7, <2>8 DEF bscSetState, bscDecodeState, ON, OFF, UNKNOWN
  <2> QED
    BY <1>5, <2>9, <2>10
<1> QED
  BY <1>3, <1>4, <1>5


(* A toggle does not tell a state without a key from unknown.               *)
LEMMA ToggledAlike ==
    ASSUME NEW e, NEW s, NEW i, <<e, ON>> \notin Missing
    PROVE  bscSetState(cmd(e, s), i) = bscSetState(s, i)
<1>1. cmd(e, s) = ON <=> s = ON
  BY DEF cmd, ON, UNKNOWN
<1> QED
  BY <1>1 DEF bscSetState

(* After n sections an output that can be switched on is in the state they  *)
(* amount to, if that has a key, and a binary one has the text it had.      *)
LEMMA AfterAmount ==
    ASSUME NEW e, NEW c \in Commands, NEW k \in 0 .. Len(c)
    PROVE  /\ <<e, ON>> \notin Missing =>
                 After(e, c)[k].state = IF Words(e, c, k) = {} THEN Amount(e, c, k) ELSE cmd(e, Amount(e, c, k))
           /\ e \in Binary => After(e, c)[k].text = value[e].text
<1> DEFINE v == After(e, c)
           Right(n) ==
              /\ <<e, ON>> \notin Missing =>
                    v[n].state = IF Words(e, c, n) = {} THEN Amount(e, c, n) ELSE cmd(e, Amount(e, c, n))
              /\ e \in Binary => v[n].text = value[e].text
           N == {n \in 0 .. Len(c) : ~Right(n)}
<1>1. /\ Len(c) \in Nat /\ v[0] = value[e]
      /\ \A n \in 1 .. Len(c) : v[n] = Obeyed(e, c, v[n - 1], n)
  BY AfterSteps
<1> HIDE DEF v
<1>2. Right(0)
  <2>1. Words(e, c, 0) = {}
    BY ForProperties DEF Words
  <2>2. Plain(e, c, 0) = {} /\ Toggles(e, c, 0) = {}
    BY <2>1 DEF Plain, Toggles
  <2>3. Cardinality(Toggles(e, c, 0)) = 0
    BY <2>2, FS_EmptySet
  <2> QED
    BY <1>1, <2>1, <2>2, <2>3 DEF Amount, Turned, Left
<1>3. ASSUME NEW n \in 1 .. Len(c), Right(n - 1)
      PROVE  Right(n)
  <2>1. v[n] = Obeyed(e, c, v[n - 1], n)
    BY <1>1
  <2>2. Amount(e, c, n) = IF n \notin For(e, c) THEN Amount(e, c, n - 1)
                          ELSE bscSetState(Amount(e, c, n - 1), bscDecodeState(c[n].state))
    BY AmountStep
  <2>3. CASE n \in For(e, c)
    <3> DEFINE s == Amount(e, c, n - 1)
               i == bscDecodeState(c[n].state)
    <3>1. n \in Words(e, c, n)
      BY <1>1, <2>3 DEF Words
    <3>2. v[n].state = cmd(e, bscSetState(v[n - 1].state, i)) /\ (e \in Binary => v[n].text = v[n - 1].text)
      BY <2>1, <2>3 DEF Obeyed
    <3>3. Amount(e, c, n) = bscSetState(s, i)
      BY <2>2, <2>3
    <3> HIDE DEF s, i
    <3>4. <<e, ON>> \notin Missing => bscSetState(cmd(e, s), i) = bscSetState(s, i)
      BY ToggledAlike
    <3>5. <<e, ON>> \notin Missing => v[n - 1].state \in {s, cmd(e, s)}
      BY <1>3 DEF s
    <3>6. <<e, ON>> \notin Missing => v[n].state = cmd(e, Amount(e, c, n))
      BY <3>2, <3>3, <3>4, <3>5
    <3> QED
      BY <1>3, <3>1, <3>2, <3>6
  <2>4. CASE n \notin For(e, c)
    <3>1. v[n] = v[n - 1] /\ Amount(e, c, n) = Amount(e, c, n - 1)
      BY <2>1, <2>2, <2>4 DEF Obeyed
    <3>2. Words(e, c, n) = Words(e, c, n - 1)
      <4>1. \A j \in For(e, c) : j \in Nat /\ j # n
        BY <2>4, ForProperties
      <4>2. \A j \in For(e, c) : j <= n <=> j <= n - 1
        BY <4>1
      <4> QED
        BY <4>2 DEF Words
    <3> QED
      BY <1>3, <3>1, <3>2
  <2> QED
    BY <2>3, <2>4
<1> HIDE DEF Right
<1>4. ASSUME N # {}
      PROVE  FALSE
  <2>1. N \in SUBSET Nat
    BY <1>1
  <2>2. PICK m \in N : \A i \in N : m <= i
    <3> HIDE DEF N
    <3> QED
      BY <1>4, <2>1, LeastElement
  <2>3. m \in 0 .. Len(c) /\ ~Right(m) /\ m # 0
    BY <1>2
  <2>4. m \in 1 .. Len(c) /\ m - 1 \in 0 .. Len(c) /\ m - 1 \notin N
    BY <1>1, <2>2, <2>3
  <2>5. Right(m - 1)
    BY <2>4
  <2> QED
    BY <1>3, <2>3, <2>4, <2>5
<1>5. Right(k)
  BY <1>4
<1> QED
  BY <1>5 DEF Right, v

LEMMA CarriedOut == CommandCarriedOut
<1> SUFFICES ASSUME NEW e \in Outputs, NEW c \in Commands
             PROVE  IF Naming(e, Body(c)) = {} THEN After(e, c)[Len(c)] = value[e]
                    ELSE /\ IF <<e, ON>> \in Missing THEN After(e, c)[Len(c)].state # ON
                            ELSE After(e, c)[Len(c)].state = cmd(e, Commanded(e, Body(c), value[e].state))
                         /\ After(e, c)[Len(c)].text =
                               IF e \in Binary THEN value[e].text ELSE Body(c)[Last(Naming(e, Body(c)))].text
  BY DEF CommandCarriedOut
<1> DEFINE b == Body(c)
           n == Len(c)
<1>1. /\ Len(b) \in Nat /\ Len(b) <= n /\ n \in Nat
      /\ \A i \in 1 .. Len(b) : b[i] = c[i]
      /\ Readable(c) = 1 .. Len(b)
  BY BodyProperties, ForProperties
<1>2. For(e, c) \in SUBSET (1 .. n)
  BY ForProperties
<1> HIDE DEF b
<1>3. For(e, c) \in SUBSET (1 .. Len(b)) /\ \A i \in For(e, c) : b[i] = c[i]
  BY <1>1 DEF For
<1>4. Naming(e, b) = For(e, c)
  BY <1>1 DEF Naming, For
<1>5. <<e, ON>> \notin Missing /\ For(e, c) # {} =>
         After(e, c)[n].state = cmd(e, Commanded(e, b, value[e].state))
  <2>1. Words(e, c, n) = For(e, c)
    BY <1>1, <1>2 DEF Words
  <2> DEFINE plain == {i \in Naming(e, b) : b[i].state # "toggle"}
             toggles == {i \in Naming(e, b) : \A j \in plain : j < i}
             left == IF plain = {} THEN value[e].state
                     ELSE [on |-> ON, off |-> OFF, junk |-> UNKNOWN][b[Last(plain)].state]
  <2>2. plain = Plain(e, c, n)
    BY <1>3, <1>4, <2>1 DEF Plain
  <2>3. toggles = Toggles(e, c, n)
    <3> HIDE DEF plain
    <3> QED
      BY <1>4, <2>1, <2>2 DEF Toggles
  <2>4. left = Left(e, c, n)
    <3>1. CASE plain = {}
      BY <2>2, <3>1 DEF Left
    <3>2. CASE plain # {}
      <4>1. plain \in SUBSET (1 .. Len(b)) /\ plain \in SUBSET For(e, c)
        BY <1>3, <1>4
      <4> HIDE DEF plain
      <4>2. Last(plain) \in plain
        BY <1>1, <3>2, <4>1, LastProperties
      <4>3. b[Last(plain)] = c[Last(plain)]
        BY <1>3, <4>1, <4>2
      <4> QED
        BY <2>2, <3>2, <4>3 DEF Left
    <3> QED
      BY <3>1, <3>2
  <2>5. Commanded(e, b, value[e].state) = Turned(left, Cardinality(toggles))
    BY DEF Commanded, Turned
  <2> HIDE DEF plain, toggles, left
  <2>6. n \in 0 .. Len(c)
    BY <1>1
  <2>7. <<e, ON>> \notin Missing /\ For(e, c) # {} => After(e, c)[n].state = cmd(e, Amount(e, c, n))
    BY <2>1, <2>6, AfterAmount
  <2> QED
    BY <2>3, <2>4, <2>5, <2>7 DEF Amount
<1>6. For(e, c) = {} => After(e, c)[n] = value[e]
  <2>1. 0 \in 0 .. Len(c)
    BY <1>1
  <2>2. For(e, c) = {} => After(e, c)[n] = After(e, c)[0]
    BY <2>1, AfterIdle
  <2> QED
    BY <2>2, AfterSteps
<1>7. ASSUME For(e, c) # {}
      PROVE  /\ <<e, ON>> \in Missing => After(e, c)[n].state # ON
             /\ After(e, c)[n].text = IF e \in Binary THEN value[e].text ELSE b[Last(Naming(e, b))].text
  <2> DEFINE a == Last(For(e, c))
  <2>1. a \in For(e, c) /\ \A j \in For(e, c) : j <= a
    BY <1>1, <1>2, <1>7, LastProperties
  <2> HIDE DEF a
  <2>2. a \in 0 .. Len(c) /\ a \in 1 .. Len(c)
    BY <1>1, <1>2, <2>1
  <2>3. After(e, c)[n] = After(e, c)[a]
    BY <2>1, <2>2, AfterIdle
  <2> DEFINE w == After(e, c)[a - 1]
             s == bscSetState(w.state, bscDecodeState(c[a].state))
  <2>4. After(e, c)[a] = Obeyed(e, c, w, a)
    BY <2>2, AfterSteps
  <2> HIDE DEF w
  <2>5. After(e, c)[a].state = cmd(e, s) /\ (e \notin Binary => After(e, c)[a].text = c[a].text)
    BY <2>1, <2>4 DEF Obeyed
  <2> HIDE DEF s
  <2>6. <<e, ON>> \in Missing => cmd(e, s) # ON
    BY DEF cmd, ON, UNKNOWN
  <2>7. e \in Binary => After(e, c)[n].text = value[e].text
    <3>1. n \in 0 .. Len(c)
      BY <1>1
    <3> QED
      BY <3>1, AfterAmount
  <2> QED
    BY <1>3, <1>4, <2>1, <2>3, <2>5, <2>6, <2>7 DEF a
<1> QED
  BY <1>4, <1>5, <1>6, <1>7 DEF b

(* A command of any length is carried out as it reads, whatever the states  *)
(* and texts before it: the loop over its sections, which follows toggles   *)
(* one by one and stops at a malformed section or at the last it may read,  *)
(* ends where the count of the toggles after the last other word says, or   *)
(* unknown if an output lacks a key for that.  bsc.c: bscIncomingCmd(),     *)
(* bscSetState(); ini.c: cmdURF().                                          *)
THEOREM CommandsAreCarriedOut == Spec => []CommandCarriedOut
<1>1. CommandCarriedOut
  BY CarriedOut
<1> QED
  BY <1>1, PTL
=============================================================================
