--------------------------- MODULE OneWireProofs ----------------------------
(***************************************************************************)
(* Proofs about OneWire: for any number of sensors and .ini files, any     *)
(* readings and calibration, and any times.                                *)
(***************************************************************************)
EXTENDS OneWire, FiniteSetTheorems, SequenceTheorems, TLAPS

\* What a timer is for.
Key(e) == <<e.func, e.data>>
Keys(s) == {Key(s[k]) : k \in 1 .. Len(s)}
Unique(s) == \A j, k \in 1 .. Len(s) : Key(s[j]) = Key(s[k]) => j = k

\* The timers an .ini file asks for.
KeysOf(x) ==
    {<<"info", i>> : i \in Range(Valid(x))}
        \cup IF x.timeout THEN {<<"check", i>> : i \in Range(Valid(x))} \cup {<<"report", None>>} ELSE {}

\* The timers are new.
Fresh(s) == \A k \in 1 .. Len(s) : s[k].due = 0

Checks(x) == IF x.timeout THEN 1 ELSE 0

\* The endpoints are those of the .ini file that was last read, and there is one
\* timer for each purpose.
Wired ==
    /\ list = Reverse(Valid(ini))
    /\ Unique(timers) /\ Keys(timers) = KeysOf(ini)
    /\ Len(timers) = Len(list) * (1 + Checks(ini)) + Checks(ini)
    /\ Len(filters) = Len(list) /\ Range(filters) = Range(list)

\* A value is near what was told, where "?" counts as 0.
Near(x, told) ==
    IF told = None THEN x \in -Hyst .. Hyst
    ELSE LET most == IF {x, told} \subseteq Short THEN Hyst ELSE Hyst + 9 IN x - told \in -most .. most

\* What is compared with is what five characters keep of what was reported; with
\* calibration, all of it, since it was cut before.
ToldOf(e) ==
    /\ e.prevValue = Kept(e.seen.text)
    /\ Offset # 0 => e.prevValue = e.seen.text
    /\ e.reported /\ e.text # None => Near(e.text, e.seen.text)

Told == \A i \in DOMAIN sensor : ToldOf(sensor[i])

\* The report of an endpoint that was reported q seconds ago is due in time.
DueOf(i, q, ts) ==
    \A k \in 1 .. Len(ts) : ts[k].data = i /\ ts[k].func = "info" => q + ts[k].due <= 2 * I - 1

Due == \A i \in DOMAIN sensor : DueOf(i, sensor[i].quiet, timers)

\* A known sensor is checked before its time is over, and one that was reported
\* as known was known then.
QuietOf(i, e, ts) ==
    ~e.forced =>
        /\ e.seen.state = ON => e.since - e.quiet <= 2 * T + Late
        /\ e.state = ON =>
              \A k \in 1 .. Len(ts) :
                  ts[k].data = i /\ ts[k].func = "check" => e.since + ts[k].due <= 2 * T

Quiet == ini.timeout => \A i \in DOMAIN sensor : QuietOf(i, sensor[i], timers)

\* The board has been asked for a reading, and owes it for o more seconds, or is
\* about to be asked.
AskedInTime(e, ts, o) ==
    /\ o # None => e.since + o <= T - MARGIN + Late + A
    /\ o = None =>
          \A k \in 1 .. Len(ts) : ts[k].func = "report" => e.since + ts[k].due <= T - MARGIN

\* A sensor that has stayed connected is the one its readings go to.
Steady ==
    \A i \in DOMAIN sensor : LET e == sensor[i] IN
        e.steady =>
            /\ e.romid \in bus /\ list[findROMID(e.romid)] = i
            /\ ini.timeout /\ ~e.forced => e.state = ON
            /\ AskedInTime(e, timers, owed[e.romid])

IInv == TypeOK /\ Wired /\ OfferedAreFree /\ Told /\ Due /\ Quiet /\ Steady

-----------------------------------------------------------------------------
(***************************************************************************)
(* Numbers and lists.                                                      *)
(***************************************************************************)

(* A set of numbers that is not empty has a least element; what is shown by *)
(* induction below is shown with it.                                        *)
LEMMA LeastElement ==
    ASSUME NEW N \in SUBSET Nat, N # {}
    PROVE  \E n \in N : \A m \in N : n <= m
<1> DEFINE R == {ss \in Nat \X Nat : ss[1] < ss[2]}
<1>1. IsWellFoundedOn(R, Nat)
  BY NatLessThanWellFounded DEF OpToRel
<1>2. \A m, n \in Nat : (<<m, n>> \in R) <=> m < n
  OBVIOUS
<1> HIDE DEF R
<1>3. PICK n \in N : \A m \in N : ~(<<m, n>> \in R)
  BY <1>1, WFMin
<1>4. \A m \in N : n <= m
  <2> SUFFICES ASSUME NEW m \in N
               PROVE  n <= m
    OBVIOUS
  <2>1. m \in Nat /\ n \in Nat
    OBVIOUS
  <2>2. ~(m < n)
    BY <1>2, <1>3, <2>1, Zenon
  <2> QED
    BY <2>1, <2>2
<1> QED
  BY <1>4

(* What is left of a list without its i-th element.                         *)
LEMMA RemoveAtProperties ==
    ASSUME NEW S, NEW s \in Seq(S), NEW i \in 1 .. Len(s)
    PROVE  /\ RemoveAt(s, i) \in Seq(S)
           /\ Len(RemoveAt(s, i)) = Len(s) - 1
           /\ \A j \in 1 .. Len(s) - 1 : RemoveAt(s, i)[j] = IF j < i THEN s[j] ELSE s[j + 1]
<1> DEFINE a == SubSeq(s, 1, i - 1)
           b == SubSeq(s, i + 1, Len(s))
<1>1. a \in Seq(S) /\ Len(a) = i - 1 /\ \A j \in 1 .. i - 1 : a[j] = s[j]
  OBVIOUS
<1>2. b \in Seq(S) /\ Len(b) = Len(s) - i /\ \A j \in 1 .. Len(s) - i : b[j] = s[i + j]
  OBVIOUS
<1> HIDE DEF a, b
<1>3. RemoveAt(s, i) = a \o b
  BY DEF RemoveAt, a, b
<1>4. /\ a \o b \in Seq(S) /\ Len(a \o b) = Len(s) - 1
      /\ \A j \in 1 .. Len(s) - 1 : (a \o b)[j] = IF j <= i - 1 THEN a[j] ELSE b[j - (i - 1)]
  <2>1. /\ a \o b \in Seq(S) /\ Len(a \o b) = Len(a) + Len(b)
        /\ \A j \in 1 .. Len(a) + Len(b) : (a \o b)[j] = IF j <= Len(a) THEN a[j] ELSE b[j - Len(a)]
    BY <1>1, <1>2, ConcatProperties
  <2> QED
    BY <2>1, <1>1, <1>2
<1>5. ASSUME NEW j \in 1 .. Len(s) - 1
      PROVE  (a \o b)[j] = IF j < i THEN s[j] ELSE s[j + 1]
  <2>1. (a \o b)[j] = IF j <= i - 1 THEN a[j] ELSE b[j - (i - 1)]
    BY <1>4
  <2>2. CASE j < i
    BY <1>1, <2>1, <2>2
  <2>3. CASE ~(j < i)
    <3>1. j - (i - 1) \in 1 .. Len(s) - i /\ i + (j - (i - 1)) = j + 1 /\ ~(j <= i - 1)
      BY <2>3
    <3>2. b[j - (i - 1)] = s[j + 1]
      BY <1>2, <3>1
    <3> QED
      BY <2>1, <2>3, <3>1, <3>2
  <2> QED
    BY <2>2, <2>3
<1> QED
  BY <1>3, <1>4, <1>5

\* h finds the elements of t, which are those of the first m of s that are not
\* in D, in s.
Embeds(h, t, s, D, m) ==
    /\ h \in [1 .. Len(t) -> 1 .. m]
    /\ \A j, k \in 1 .. Len(t) : h[j] = h[k] => j = k
    /\ \A j \in 1 .. Len(t) : t[j] = s[h[j]] /\ t[j] \notin D
    /\ \A i \in 1 .. m : s[i] \notin D => \E j \in 1 .. Len(t) : h[j] = i

(* One element more, which is deleted or kept.                              *)
LEMMA EmbedsNext ==
    ASSUME NEW S, NEW s \in Seq(S), NEW D, NEW m \in 1 .. Len(s), NEW t \in Seq(S),
           NEW h, Embeds(h, t, s, D, m - 1)
    PROVE  LET t2 == IF s[m] \in D THEN t ELSE Append(t, s[m])
           IN  t2 \in Seq(S) /\ \E h2 : Embeds(h2, t2, s, D, m)
<1> DEFINE n == Len(t)
<1>1. n \in Nat /\ m \in Nat /\ m - 1 \in Nat
  OBVIOUS
<1>2. CASE s[m] \in D
  <2>1. Embeds(h, t, s, D, m)
    BY <1>1, <1>2 DEF Embeds
  <2> QED
    BY <1>2, <2>1
<1>3. CASE s[m] \notin D
  <2> DEFINE t2 == Append(t, s[m])
             h2 == [j \in 1 .. n + 1 |-> IF j = n + 1 THEN m ELSE h[j]]
  <2>1. /\ t2 \in Seq(S) /\ Len(t2) = n + 1 /\ t2[n + 1] = s[m]
        /\ \A j \in 1 .. n : t2[j] = t[j]
    OBVIOUS
  <2>2. /\ \A j \in 1 .. n : h2[j] = h[j] /\ h[j] \in 1 .. m - 1 /\ h[j] # m
        /\ h2[n + 1] = m /\ DOMAIN h2 = 1 .. n + 1
    BY <1>1 DEF Embeds
  <2> HIDE DEF t2, h2
  <2>3. h2 \in [1 .. n + 1 -> 1 .. m]
    <3>1. \A j \in 1 .. n + 1 : h2[j] \in 1 .. m
      BY <1>1, <2>2
    <3> QED
      BY <3>1 DEF h2
  <2>4. \A j, k \in 1 .. n + 1 : h2[j] = h2[k] => j = k
    <3> SUFFICES ASSUME NEW j \in 1 .. n + 1, NEW k \in 1 .. n + 1, h2[j] = h2[k]
                 PROVE  j = k
      OBVIOUS
    <3>1. CASE j \in 1 .. n /\ k \in 1 .. n
      <4>1. h[j] = h[k]
        BY <2>2, <3>1
      <4> QED
        BY <3>1, <4>1 DEF Embeds
    <3>2. CASE j = n + 1 /\ k \in 1 .. n
      BY <2>2, <3>2
    <3>3. CASE j \in 1 .. n /\ k = n + 1
      BY <2>2, <3>3
    <3> QED
      BY <1>1, <3>1, <3>2, <3>3
  <2>5. \A j \in 1 .. n + 1 : t2[j] = s[h2[j]] /\ t2[j] \notin D
    <3> SUFFICES ASSUME NEW j \in 1 .. n + 1
                 PROVE  t2[j] = s[h2[j]] /\ t2[j] \notin D
      OBVIOUS
    <3>1. CASE j \in 1 .. n
      BY <2>1, <2>2, <3>1 DEF Embeds
    <3>2. CASE j = n + 1
      BY <1>3, <2>1, <2>2, <3>2
    <3> QED
      BY <1>1, <3>1, <3>2
  <2>6. \A i \in 1 .. m : s[i] \notin D => \E j \in 1 .. n + 1 : h2[j] = i
    <3> SUFFICES ASSUME NEW i \in 1 .. m, s[i] \notin D
                 PROVE  \E j \in 1 .. n + 1 : h2[j] = i
      OBVIOUS
    <3>1. CASE i = m
      BY <1>1, <2>2, <3>1
    <3>2. CASE i # m
      <4>1. i \in 1 .. m - 1
        BY <1>1, <3>2
      <4>2. PICK j \in 1 .. n : h[j] = i
        BY <4>1 DEF Embeds
      <4>3. j \in 1 .. n + 1 /\ h2[j] = i
        BY <1>1, <2>2, <4>2
      <4> QED
        BY <4>3
    <3> QED
      BY <3>1, <3>2
  <2>7. Embeds(h2, t2, s, D, m)
    BY <2>1, <2>3, <2>4, <2>5, <2>6 DEF Embeds
  <2> QED
    BY <1>3, <2>1, <2>7 DEF t2
<1> QED
  BY <1>2, <1>3

(* What is left of a list, in terms of the places in it: the function of    *)
(* Without exists, and each of its values is found in the list.             *)
LEMMA WithoutEmbeds ==
    ASSUME NEW S, NEW s \in Seq(S), NEW D
    PROVE  Without(s, D) \in Seq(S) /\ \E h : Embeds(h, Without(s, D), s, D, Len(s))
<1> DEFINE Defines(f, m) == f = [i \in 0 .. m |->
                IF i = 0 THEN <<>> ELSE IF s[i] \in D THEN f[i - 1] ELSE Append(f[i - 1], s[i])]
           n == Len(s)
<1>1. n \in Nat
  OBVIOUS
<1>2. ASSUME NEW m \in 0 .. n
      PROVE  \E f : Defines(f, m)
  <2> DEFINE N == {j \in 0 .. n : ~ \E f : Defines(f, j)}
  <2>1. SUFFICES ASSUME N # {}
                 PROVE  FALSE
    BY <1>1
  <2>2. N \in SUBSET Nat
    BY <1>1
  <2> HIDE DEF N
  <2>3. PICK j \in N : \A k \in N : j <= k
    BY <2>1, <2>2, LeastElement
  <2>4. j \in 0 .. n /\ ~ \E f : Defines(f, j)
    BY <2>3 DEF N
  <2>5. j # 0
    <3>1. Defines([i \in 0 .. 0 |-> <<>>], 0)
      OBVIOUS
    <3> QED
      BY <2>4, <3>1
  <2>6. j - 1 \in 0 .. n /\ j - 1 \notin N
    BY <1>1, <2>2, <2>3, <2>4, <2>5
  <2>7. PICK f : Defines(f, j - 1)
    BY <2>6 DEF N
  <2> DEFINE new == IF s[j] \in D THEN f[j - 1] ELSE Append(f[j - 1], s[j])
             g == [i \in 0 .. j |-> IF i = j THEN new ELSE f[i]]
  <2>8. \A i \in 0 .. j : g[i] = IF i = 0 THEN <<>> ELSE IF s[i] \in D THEN g[i - 1]
                                ELSE Append(g[i - 1], s[i])
    <3> SUFFICES ASSUME NEW i \in 0 .. j
                 PROVE  g[i] = IF i = 0 THEN <<>> ELSE IF s[i] \in D THEN g[i - 1]
                               ELSE Append(g[i - 1], s[i])
      OBVIOUS
    <3>1. CASE i = j
      <4>1. g[i] = new /\ g[i - 1] = f[j - 1]
        BY <2>4, <2>5, <3>1
      <4> QED
        BY <2>5, <3>1, <4>1
    <3>2. CASE i # j
      <4>1. i \in 0 .. j - 1 /\ g[i] = f[i]
        BY <2>4, <3>2
      <4>2. f[i] = IF i = 0 THEN <<>> ELSE IF s[i] \in D THEN f[i - 1] ELSE Append(f[i - 1], s[i])
        BY <2>7, <4>1
      <4>3. i # 0 => g[i - 1] = f[i - 1]
        BY <2>4, <4>1
      <4> QED
        BY <4>1, <4>2, <4>3
    <3> QED
      BY <3>1, <3>2
  <2>9. Defines(g, j)
    BY <2>8
  <2> QED
    BY <2>4, <2>9
<1>3. PICK f : Defines(f, n) /\ Without(s, D) = f[n]
  <2> DEFINE c == CHOOSE f : Defines(f, n)
  <2>1. Defines(c, n)
    <3>1. \E f : Defines(f, n)
      <4>1. n \in 0 .. n
        BY <1>1
      <4> HIDE DEF n, Defines
      <4> QED
        BY <1>2, <4>1
    <3> HIDE DEF Defines
    <3> QED
      BY <3>1, Zenon
  <2>2. Without(s, D) = c[n]
    BY DEF Without
  <2> QED
    BY <2>1, <2>2
<1>4. \A i \in 0 .. n : f[i] \in Seq(S) /\ \E h : Embeds(h, f[i], s, D, i)
  <2> DEFINE Good(i) == f[i] \in Seq(S) /\ \E h : Embeds(h, f[i], s, D, i)
             N == {j \in 0 .. n : ~ Good(j)}
  <2>1. SUFFICES ASSUME N # {}
                 PROVE  FALSE
    OBVIOUS
  <2>2. N \in SUBSET Nat
    BY <1>1
  <2> HIDE DEF N
  <2>3. PICK j \in N : \A k \in N : j <= k
    BY <2>1, <2>2, LeastElement
  <2>4. j \in 0 .. n /\ ~ Good(j)
    BY <2>3 DEF N
  <2>5. j # 0
    <3> SUFFICES ASSUME j = 0
                 PROVE  FALSE
      OBVIOUS
    <3>1. f[0] = <<>>
      BY <1>1, <1>3
    <3>2. Embeds(<<>>, <<>>, s, D, 0) /\ <<>> \in Seq(S)
      BY DEF Embeds
    <3> QED
      BY <2>4, <3>1, <3>2
  <2>6. j - 1 \in 0 .. n /\ j - 1 \notin N
    BY <1>1, <2>2, <2>3, <2>4, <2>5
  <2>7. Good(j - 1)
    BY <2>6 DEF N
  <2>8. f[j] = IF s[j] \in D THEN f[j - 1] ELSE Append(f[j - 1], s[j])
    BY <1>3, <2>4, <2>5
  <2>9. j \in 1 .. n
    BY <2>4, <2>5
  <2>10. PICK h : f[j - 1] \in Seq(S) /\ Embeds(h, f[j - 1], s, D, j - 1)
    BY <2>7
  <2> DEFINE t == f[j - 1]
  <2>11. t \in Seq(S) /\ Embeds(h, t, s, D, j - 1) /\ f[j] = IF s[j] \in D THEN t ELSE Append(t, s[j])
    BY <2>8, <2>10
  <2> HIDE DEF t
  <2>12. f[j] \in Seq(S) /\ \E h2 : Embeds(h2, f[j], s, D, j)
    BY <2>9, <2>11, EmbedsNext
  <2> QED
    BY <2>4, <2>12
<1> QED
  BY <1>1, <1>3, <1>4

-----------------------------------------------------------------------------
(***************************************************************************)
(* The endpoints of an .ini file.                                          *)
(***************************************************************************)

(* The numbers with a ROM id, each once.                                    *)
LEMMA ValidProperties ==
    ASSUME NEW x \in Inis
    PROVE  /\ Valid(x) \in Seq(1 .. Len(x.romid)) /\ IsInjective(Valid(x))
           /\ Range(Valid(x)) = {i \in 1 .. Len(x.romid) : x.romid[i] # None}
           /\ Len(Valid(x)) \in Nat /\ Len(Valid(x)) <= MAXDEVICES
<1> DEFINE n == Len(x.romid)
           s == [i \in 1 .. n |-> i]
           D == {i \in 1 .. n : x.romid[i] = None}
           t == Valid(x)
<1>1. n \in Nat /\ n <= MAXDEVICES
  BY IniAssumption
<1>2. s \in Seq(1 .. n) /\ Len(s) = n /\ \A i \in 1 .. n : s[i] = i
  BY <1>1
<1>3. t = Without(s, D)
  BY DEF Valid
<1> HIDE DEF s, t
<1>4. PICK h : t \in Seq(1 .. n) /\ Embeds(h, t, s, D, n)
  BY <1>2, <1>3, WithoutEmbeds
<1> DEFINE m == Len(t)
<1>5. m \in Nat /\ DOMAIN t = 1 .. m /\ \A j \in 1 .. m : t[j] \in 1 .. n
  BY <1>4
<1>6. \A j \in 1 .. m : h[j] \in 1 .. n /\ t[j] = h[j] /\ t[j] \notin D
  <2>1. \A j \in 1 .. m : h[j] \in 1 .. n /\ t[j] = s[h[j]] /\ t[j] \notin D
    BY <1>4 DEF Embeds
  <2> QED
    BY <1>2, <2>1
<1>7. IsInjective(t)
  BY <1>4, <1>5, <1>6 DEF IsInjective, Embeds
<1>8. Range(t) = {i \in 1 .. n : x.romid[i] # None}
  <2>1. \A j \in 1 .. m : t[j] \in {i \in 1 .. n : x.romid[i] # None}
    BY <1>6
  <2>2. ASSUME NEW i \in 1 .. n, x.romid[i] # None
        PROVE  i \in Range(t)
    <3>1. s[i] \notin D
      BY <1>2, <2>2
    <3>2. PICK j \in 1 .. m : h[j] = i
      BY <1>4, <3>1 DEF Embeds
    <3> QED
      BY <1>5, <1>6, <3>2 DEF Range
  <2> HIDE DEF m, D
  <2> QED
    BY <1>5, <2>1, <2>2 DEF Range
<1>9. m <= n
  <2>1. t \in Injection(1 .. m, 1 .. n)
    BY <1>5, <1>4, <1>7 DEF Injection
  <2>2. IsFiniteSet(1 .. n) /\ Cardinality(1 .. n) = n /\ Cardinality(1 .. m) = m
    <3>1. \A b \in Nat : IsFiniteSet(1 .. b) /\ Cardinality(1 .. b) = b
      <4> SUFFICES ASSUME NEW b \in Nat
                   PROVE  IsFiniteSet(1 .. b) /\ Cardinality(1 .. b) = b
        OBVIOUS
      <4>1. IsFiniteSet(1 .. b) /\ Cardinality(1 .. b) = IF 1 > b THEN 0 ELSE b - 1 + 1
        BY FS_Interval
      <4> QED
        BY <4>1
    <3> QED
      BY <1>1, <1>5, <3>1
  <2>3. Cardinality(1 .. m) <= Cardinality(1 .. n)
    BY <2>1, <2>2, FS_Injection
  <2> QED
    BY <2>2, <2>3
<1>10. m <= MAXDEVICES
  BY <1>1, <1>5, <1>9, SizeAssumption
<1> QED
  BY <1>4, <1>5, <1>7, <1>8, <1>10 DEF t

(* The list of endpoints has the newest first.                              *)
LEMMA ReverseProperties ==
    ASSUME NEW S, NEW s \in Seq(S), IsInjective(s)
    PROVE  /\ Reverse(s) \in Seq(S) /\ IsInjective(Reverse(s)) /\ Range(Reverse(s)) = Range(s)
           /\ Len(Reverse(s)) = Len(s)
           /\ \A k \in 1 .. Len(s) : Reverse(s)[k] = s[(Len(s) - k) + 1]
<1> DEFINE n == Len(s)
           r == Reverse(s)
<1>1. n \in Nat /\ DOMAIN s = 1 .. n
  OBVIOUS
<1>2. r = [k \in 1 .. n |-> s[(n - k) + 1]]
  BY DEF Reverse
<1>3. \A k \in 1 .. n : (n - k) + 1 \in 1 .. n
  BY <1>1
<1> HIDE DEF r, n
<1>4. DOMAIN r = 1 .. n /\ \A k \in 1 .. n : r[k] = s[(n - k) + 1]
  BY <1>2
<1>5. r \in Seq(S) /\ Len(r) = n
  <2>1. \A k \in 1 .. n : s[(n - k) + 1] \in S
    BY <1>1, <1>3 DEF n
  <2> QED
    BY <1>1, <1>2, <2>1
<1>6. IsInjective(r)
  <2> SUFFICES ASSUME NEW j \in 1 .. n, NEW k \in 1 .. n, r[j] = r[k]
               PROVE  j = k
    BY <1>4 DEF IsInjective
  <2>1. (n - j) + 1 = (n - k) + 1
    BY <1>1, <1>3, <1>4 DEF IsInjective
  <2> QED
    BY <1>1, <2>1
<1>7. Range(r) = Range(s)
  <2>1. \A k \in 1 .. n : r[k] \in Range(s)
    BY <1>1, <1>3, <1>4 DEF Range
  <2>2. \A k \in 1 .. n : s[k] \in Range(r)
    <3> SUFFICES ASSUME NEW k \in 1 .. n
                 PROVE  s[k] \in Range(r)
      OBVIOUS
    <3> DEFINE j == (n - k) + 1
    <3>1. j \in 1 .. n /\ (n - j) + 1 = k
      BY <1>1
    <3> HIDE DEF j
    <3>2. r[j] = s[k]
      BY <1>4, <3>1
    <3> QED
      BY <1>4, <3>1, <3>2 DEF Range
  <2> QED
    BY <1>1, <1>4, <2>1, <2>2 DEF Range
<1> QED
  BY <1>4, <1>5, <1>6, <1>7 DEF r, n

-----------------------------------------------------------------------------
(***************************************************************************)
(* Lists of timers.                                                        *)
(***************************************************************************)

TimerType == [func : {"check", "info", "report"}, data : Text, due : Int]

(* Two lists of timers for different purposes, one after the other.         *)
LEMMA ConcatTimers ==
    ASSUME NEW s \in Seq(TimerType), NEW t \in Seq(TimerType), Unique(s), Unique(t),
           Keys(s) \cap Keys(t) = {}
    PROVE  /\ s \o t \in Seq(TimerType) /\ Unique(s \o t) /\ Keys(s \o t) = Keys(s) \cup Keys(t)
           /\ Len(s \o t) = Len(s) + Len(t) /\ (Fresh(s) /\ Fresh(t) => Fresh(s \o t))
<1> DEFINE m == Len(s)
           n == Len(t)
           u == s \o t
<1>1. m \in Nat /\ n \in Nat
  OBVIOUS
<1>2. /\ u \in Seq(TimerType) /\ Len(u) = m + n
      /\ \A i \in 1 .. m + n : u[i] = IF i <= m THEN s[i] ELSE t[i - m]
  BY ConcatProperties
<1> HIDE DEF u
<1>3. \A i \in 1 .. m : Key(s[i]) \in Keys(s)
  BY DEF Keys
<1>4. \A i \in 1 .. n : Key(t[i]) \in Keys(t)
  BY DEF Keys
<1>5. \A i \in 1 .. m + n : \/ i \in 1 .. m /\ u[i] = s[i]
                            \/ i > m /\ i - m \in 1 .. n /\ u[i] = t[i - m]
  BY <1>1, <1>2
<1>6. /\ \A i \in 1 .. m : i \in 1 .. m + n /\ u[i] = s[i]
      /\ \A i \in 1 .. n : m + i \in 1 .. m + n /\ u[m + i] = t[i]
  <2> HIDE DEF m, n
  <2>1. ASSUME NEW i \in 1 .. m
        PROVE  i \in 1 .. m + n /\ u[i] = s[i]
    BY <1>1, <1>2
  <2>2. ASSUME NEW i \in 1 .. n
        PROVE  m + i \in 1 .. m + n /\ u[m + i] = t[i]
    <3> DEFINE j == m + i
    <3>1. j \in 1 .. m + n /\ ~(j <= m) /\ j - m = i
      BY <1>1
    <3> HIDE DEF j
    <3>2. u[j] = t[i]
      BY <1>2, <3>1
    <3> QED
      BY <3>1, <3>2 DEF j
  <2> QED
    BY <2>1, <2>2
<1>7. Unique(u)
  <2> SUFFICES ASSUME NEW i \in 1 .. m + n, NEW j \in 1 .. m + n, Key(u[i]) = Key(u[j])
               PROVE  i = j
    BY <1>2 DEF Unique
  <2>1. CASE i \in 1 .. m /\ j \in 1 .. m
    BY <1>6, <2>1 DEF Unique
  <2>2. CASE i > m /\ j > m
    <3>1. i - m \in 1 .. n /\ j - m \in 1 .. n /\ Key(t[i - m]) = Key(t[j - m])
      BY <1>1, <1>5, <2>2
    <3>2. i - m = j - m
      BY <3>1 DEF Unique
    <3> QED
      BY <1>1, <3>2
  <2>3. CASE i \in 1 .. m /\ j > m
    <3>1. Key(u[i]) \in Keys(s) /\ Key(u[j]) \in Keys(t)
      BY <1>1, <1>3, <1>4, <1>5, <2>3
    <3> QED
      BY <3>1
  <2>4. CASE i > m /\ j \in 1 .. m
    <3>1. Key(u[j]) \in Keys(s) /\ Key(u[i]) \in Keys(t)
      BY <1>1, <1>3, <1>4, <1>5, <2>4
    <3> QED
      BY <3>1
  <2> QED
    BY <1>1, <1>5, <2>1, <2>2, <2>3, <2>4
<1>8. Keys(u) = Keys(s) \cup Keys(t)
  <2>1. \A i \in 1 .. m + n : Key(u[i]) \in Keys(s) \cup Keys(t)
    BY <1>3, <1>4, <1>5
  <2>2. \A i \in 1 .. m : Key(s[i]) \in Keys(u)
    BY <1>2, <1>6 DEF Keys
  <2>3. \A i \in 1 .. n : Key(t[i]) \in Keys(u)
    BY <1>2, <1>6 DEF Keys
  <2>4. Keys(u) \subseteq Keys(s) \cup Keys(t)
    BY <1>2, <2>1 DEF Keys
  <2>5. Keys(s) \subseteq Keys(u)
    BY <2>2 DEF Keys
  <2>6. Keys(t) \subseteq Keys(u)
    BY <2>3 DEF Keys
  <2> QED
    BY <2>4, <2>5, <2>6
<1>9. Fresh(s) /\ Fresh(t) => Fresh(u)
  BY <1>2, <1>5 DEF Fresh
<1> QED
  BY <1>2, <1>7, <1>8, <1>9 DEF u

(* A timer is taken out of a list.                                          *)
LEMMA RemoveTimer ==
    ASSUME NEW s \in Seq(TimerType), Unique(s), NEW k \in 1 .. Len(s)
    PROVE  /\ RemoveAt(s, k) \in Seq(TimerType) /\ Unique(RemoveAt(s, k))
           /\ Keys(RemoveAt(s, k)) = Keys(s) \ {Key(s[k])}
<1> DEFINE n == Len(s)
           t == RemoveAt(s, k)
           from(j) == IF j < k THEN j ELSE j + 1
<1>1. n \in Nat /\ k \in 1 .. n
  OBVIOUS
<1>2. t \in Seq(TimerType) /\ Len(t) = n - 1 /\ \A j \in 1 .. n - 1 : t[j] = s[from(j)]
  <2>1. /\ RemoveAt(s, k) \in Seq(TimerType) /\ Len(RemoveAt(s, k)) = n - 1
        /\ \A j \in 1 .. n - 1 : RemoveAt(s, k)[j] = IF j < k THEN s[j] ELSE s[j + 1]
    BY RemoveAtProperties
  <2> QED
    BY <2>1
<1>3. \A j \in 1 .. n - 1 : from(j) \in 1 .. n /\ from(j) # k
  BY <1>1
<1>4. \A i, j \in 1 .. n - 1 : from(i) = from(j) => i = j
  BY <1>1
<1>5. \A j \in 1 .. n : j # k => \E i \in 1 .. n - 1 : from(i) = j
  <2> SUFFICES ASSUME NEW j \in 1 .. n, j # k
               PROVE  \E i \in 1 .. n - 1 : from(i) = j
    OBVIOUS
  <2>1. CASE j < k
    BY <1>1, <2>1
  <2>2. CASE j > k
    <3>1. j - 1 \in 1 .. n - 1 /\ from(j - 1) = j
      BY <1>1, <2>2
    <3> QED
      BY <3>1
  <2> QED
    BY <1>1, <2>1, <2>2
<1> HIDE DEF from, t
<1>6. Unique(t)
  <2> SUFFICES ASSUME NEW i \in 1 .. n - 1, NEW j \in 1 .. n - 1, Key(t[i]) = Key(t[j])
               PROVE  i = j
    BY <1>2 DEF Unique
  <2>1. from(i) = from(j)
    BY <1>2, <1>3 DEF Unique
  <2> QED
    BY <1>4, <2>1
<1>7. Keys(t) = Keys(s) \ {Key(s[k])}
  <2>1. \A j \in 1 .. n - 1 : Key(t[j]) \in Keys(s) \ {Key(s[k])}
    BY <1>2, <1>3 DEF Keys, Unique
  <2>2. \A j \in 1 .. n : Key(s[j]) # Key(s[k]) => Key(s[j]) \in Keys(t)
    <3> SUFFICES ASSUME NEW j \in 1 .. n, Key(s[j]) # Key(s[k])
                 PROVE  Key(s[j]) \in Keys(t)
      OBVIOUS
    <3>1. PICK i \in 1 .. n - 1 : from(i) = j
      BY <1>5
    <3> QED
      BY <1>2, <3>1 DEF Keys
  <2>3. Keys(t) \subseteq Keys(s) \ {Key(s[k])}
    BY <1>2, <2>1 DEF Keys
  <2>4. Keys(s) \ {Key(s[k])} \subseteq Keys(t)
    BY <2>2 DEF Keys
  <2> QED
    BY <2>3, <2>4
<1> QED
  BY <1>2, <1>6, <1>7 DEF t

LEMMA MinProperties ==
    ASSUME NEW N \in SUBSET Nat, N # {}
    PROVE  Min(N) \in N /\ \A m \in N : Min(N) <= m
<1>1. PICK n \in N : \A m \in N : n <= m
  BY LeastElement
<1> QED
  BY <1>1 DEF Min

(* One timer with the data is deleted, if there is one.                     *)
LEMMA DelTimeoutCases ==
    ASSUME NEW s \in Seq(TimerType), NEW i
    PROVE  \/ DelTimeoutOf(s, i) = s /\ \A k \in 1 .. Len(s) : s[k].data # i
           \/ \E k \in 1 .. Len(s) : s[k].data = i /\ DelTimeoutOf(s, i) = RemoveAt(s, k)
<1> DEFINE N == {k \in 1 .. Len(s) : s[k].data = i}
<1>1. CASE N = {}
  <2>1. \A k \in 1 .. Len(s) : s[k].data # i
    BY <1>1
  <2> QED
    BY <2>1 DEF DelTimeoutOf, RemoveFirstMatch
<1>2. CASE N # {}
  <2>1. Min(N) \in N
    <3>1. N \in SUBSET Nat
      OBVIOUS
    <3> QED
      BY <1>2, <3>1, MinProperties
  <2>2. DelTimeoutOf(s, i) = RemoveAt(s, Min(N))
    BY <1>2 DEF DelTimeoutOf, RemoveFirstMatch, SelectInSeq
  <2> QED
    BY <2>1, <2>2
<1> QED
  BY <1>1, <1>2

(* An endpoint's timers are two at most: none is left.                      *)
LEMMA TimersWithoutKeys ==
    ASSUME NEW s \in Seq(TimerType), Unique(s), NEW i,
           \A k \in 1 .. Len(s) : s[k].data = i => s[k].func # "report"
    PROVE  LET t == TimersWithout(s, i)
           IN  t \in Seq(TimerType) /\ Unique(t) /\ Keys(t) = {q \in Keys(s) : q[2] # i}
<1> DEFINE s1 == DelTimeoutOf(s, i)
           t == DelTimeoutOf(s1, i)
<1>1. TimersWithout(s, i) = t
  BY DEF TimersWithout
<1>2. \A u \in Seq(TimerType) : \A k \in 1 .. Len(u) :
         u[k] \in TimerType /\ Key(u[k]) \in Keys(u) /\ Key(u[k])[1] = u[k].func /\ Key(u[k])[2] = u[k].data
  BY DEF Keys, Key
<1>3. \A u \in Seq(TimerType) : (\A k \in 1 .. Len(u) : u[k].data # i) => \A q \in Keys(u) : q[2] # i
  <2> SUFFICES ASSUME NEW u \in Seq(TimerType), \A k \in 1 .. Len(u) : u[k].data # i, NEW q \in Keys(u)
               PROVE  q[2] # i
    OBVIOUS
  <2>1. PICK k \in 1 .. Len(u) : q = Key(u[k])
    BY DEF Keys
  <2> QED
    BY <1>2, <2>1
<1>4. \A q \in Keys(s) : q[2] = i => q \in {<<"info", i>>, <<"check", i>>}
  <2> SUFFICES ASSUME NEW k \in 1 .. Len(s), s[k].data = i
               PROVE  Key(s[k]) \in {<<"info", i>>, <<"check", i>>}
    BY <1>2 DEF Keys
  <2>1. s[k].func \in {"info", "check"}
    BY <1>2 DEF TimerType
  <2> QED
    BY <2>1 DEF Key
<1> HIDE DEF t, s1
<1>5. CASE s1 = s /\ \A k \in 1 .. Len(s) : s[k].data # i
  <2>1. t = s
    BY <1>5, DelTimeoutCases DEF t
  <2> QED
    BY <1>1, <1>3, <1>5, <2>1
<1>6. CASE \E k \in 1 .. Len(s) : s[k].data = i /\ s1 = RemoveAt(s, k)
  <2>1. PICK k \in 1 .. Len(s) : s[k].data = i /\ s1 = RemoveAt(s, k)
    BY <1>6
  <2>2. s1 \in Seq(TimerType) /\ Unique(s1) /\ Keys(s1) = Keys(s) \ {Key(s[k])}
    BY <2>1, RemoveTimer
  <2>3. Key(s[k]) \in Keys(s) /\ Key(s[k])[2] = i
    BY <1>2, <2>1
  <2>4. CASE t = s1 /\ \A j \in 1 .. Len(s1) : s1[j].data # i
    <3>1. \A q \in Keys(s1) : q[2] # i
      BY <1>3, <2>2, <2>4
    <3> QED
      BY <1>1, <2>2, <2>3, <2>4, <3>1
  <2>5. CASE \E j \in 1 .. Len(s1) : s1[j].data = i /\ t = RemoveAt(s1, j)
    <3>1. PICK j \in 1 .. Len(s1) : s1[j].data = i /\ t = RemoveAt(s1, j)
      BY <2>5
    <3>2. t \in Seq(TimerType) /\ Unique(t) /\ Keys(t) = Keys(s1) \ {Key(s1[j])}
      BY <2>2, <3>1, RemoveTimer
    <3>3. Key(s1[j]) \in Keys(s1) /\ Key(s1[j])[2] = i
      BY <1>2, <2>2, <3>1
    <3>4. \A q \in Keys(s) : q[2] = i => q = Key(s[k]) \/ q = Key(s1[j])
      BY <1>4, <2>2, <2>3, <3>3
    <3>5. Keys(t) = {q \in Keys(s) : q[2] # i}
      BY <2>2, <2>3, <3>2, <3>3, <3>4
    <3> QED
      BY <1>1, <3>2, <3>5
  <2>6. t = DelTimeoutOf(s1, i)
    BY DEF t
  <2> QED
    BY <2>2, <2>4, <2>5, <2>6, DelTimeoutCases
<1>7. s1 = DelTimeoutOf(s, i)
  BY DEF s1
<1> QED
  BY <1>5, <1>6, <1>7, DelTimeoutCases

(* When all endpoints have been deleted their timers have gone.             *)
LEMMA DelEndpointsKeys ==
    ASSUME timers \in Seq(TimerType), Unique(timers), list \in Seq(Nat),
           \A k \in 1 .. Len(timers) : timers[k].func = "report" => timers[k].data = None
    PROVE  /\ DelEndpoints \in Seq(TimerType) /\ Unique(DelEndpoints)
           /\ Keys(DelEndpoints) = {q \in Keys(timers) : q[2] \notin Range(list)}
<1> DEFINE n == Len(list)
           Defines(g, m) == g = [k \in 0 .. m |-> IF k = 0 THEN timers ELSE TimersWithout(g[k - 1], list[k])]
<1>1. n \in Nat /\ DOMAIN list = 1 .. n /\ \A k \in 1 .. n : list[k] \in Nat
  OBVIOUS
<1> HIDE DEF n
<1>2. ASSUME NEW m \in 0 .. n
      PROVE  \E g : Defines(g, m)
  <2> DEFINE N == {j \in 0 .. n : ~ \E g : Defines(g, j)}
  <2>1. SUFFICES ASSUME N # {}
                 PROVE  FALSE
    BY <1>1
  <2>2. N \in SUBSET Nat
    BY <1>1
  <2> HIDE DEF N
  <2>3. PICK j \in N : \A k \in N : j <= k
    BY <2>1, <2>2, LeastElement
  <2>4. j \in 0 .. n /\ ~ \E g : Defines(g, j)
    BY <2>3 DEF N
  <2>5. j # 0
    <3>1. Defines([k \in 0 .. 0 |-> timers], 0)
      OBVIOUS
    <3> QED
      BY <2>4, <3>1
  <2>6. j - 1 \in 0 .. n /\ j - 1 \notin N
    BY <1>1, <2>2, <2>3, <2>4, <2>5
  <2>7. PICK g : Defines(g, j - 1)
    BY <2>6 DEF N
  <2> DEFINE new == TimersWithout(g[j - 1], list[j])
             h == [k \in 0 .. j |-> IF k = j THEN new ELSE g[k]]
  <2>8. \A k \in 0 .. j : h[k] = IF k = 0 THEN timers ELSE TimersWithout(h[k - 1], list[k])
    <3> SUFFICES ASSUME NEW k \in 0 .. j
                 PROVE  h[k] = IF k = 0 THEN timers ELSE TimersWithout(h[k - 1], list[k])
      OBVIOUS
    <3>1. CASE k = j
      <4>1. h[k] = new /\ h[k - 1] = g[j - 1]
        BY <2>4, <2>5, <3>1
      <4> QED
        BY <2>5, <3>1, <4>1
    <3>2. CASE k # j
      <4>1. k \in 0 .. j - 1 /\ h[k] = g[k]
        BY <2>4, <3>2
      <4>2. g[k] = IF k = 0 THEN timers ELSE TimersWithout(g[k - 1], list[k])
        BY <2>7, <4>1
      <4>3. k # 0 => h[k - 1] = g[k - 1]
        BY <2>4, <4>1
      <4> QED
        BY <4>1, <4>2, <4>3
    <3> QED
      BY <3>1, <3>2
  <2>9. Defines(h, j)
    BY <2>8
  <2> QED
    BY <2>4, <2>9
<1>3. PICK g : Defines(g, n) /\ DelEndpoints = g[n]
  <2> DEFINE c == CHOOSE g : Defines(g, n)
  <2>1. Defines(c, n)
    <3>1. \E g : Defines(g, n)
      <4>1. n \in 0 .. n
        BY <1>1
      <4> HIDE DEF Defines
      <4> QED
        BY <1>2, <4>1
    <3> HIDE DEF Defines
    <3> QED
      BY <3>1, Zenon
  <2>2. DelEndpoints = c[n]
    BY DEF DelEndpoints, n
  <2> QED
    BY <2>1, <2>2
<1> DEFINE Gone(m) == {list[k] : k \in 1 .. m}
           Good(m) == /\ g[m] \in Seq(TimerType) /\ Unique(g[m])
                      /\ Keys(g[m]) = {q \in Keys(timers) : q[2] \notin Gone(m)}
<1>4. \A q \in Keys(timers) : q[1] = "report" => q[2] = None
  BY DEF Keys, Key
<1>5. \A m \in 0 .. n : Good(m)
  <2> DEFINE N == {j \in 0 .. n : ~ Good(j)}
  <2>1. SUFFICES ASSUME N # {}
                 PROVE  FALSE
    OBVIOUS
  <2>2. N \in SUBSET Nat
    BY <1>1
  <2> HIDE DEF N
  <2>3. PICK j \in N : \A k \in N : j <= k
    BY <2>1, <2>2, LeastElement
  <2>4. j \in 0 .. n /\ ~ Good(j)
    BY <2>3 DEF N
  <2>5. j # 0
    <3>1. g[0] = timers /\ Gone(0) = {}
      BY <1>1, <1>3
    <3>2. Good(0)
      BY <3>1
    <3> QED
      BY <2>4, <3>2
  <2>6. j - 1 \in 0 .. n /\ j - 1 \notin N
    BY <1>1, <2>2, <2>3, <2>4, <2>5
  <2>7. Good(j - 1)
    BY <2>6 DEF N
  <2>8. g[j] = TimersWithout(g[j - 1], list[j]) /\ j \in 1 .. n
    <3>1. j \in 0 .. n /\ j \in 1 .. n
      BY <1>1, <2>4, <2>5
    <3>2. g[j] = IF j = 0 THEN timers ELSE TimersWithout(g[j - 1], list[j])
      BY <1>3, <3>1
    <3> QED
      BY <2>5, <3>1, <3>2
  <2> DEFINE s == g[j - 1]
             i == list[j]
  <2>9. s \in Seq(TimerType) /\ Unique(s) /\ g[j] = TimersWithout(s, i) /\ i \in Nat
    BY <1>1, <2>7, <2>8
  <2>10. Keys(s) = {q \in Keys(timers) : q[2] \notin Gone(j - 1)}
    BY <2>7
  <2>11. Gone(j) = Gone(j - 1) \cup {i}
    <3>1. 1 .. j = (1 .. j - 1) \cup {j}
      BY <2>8
    <3> QED
      BY <3>1
  <2> HIDE DEF s, i, Gone
  <2>12. \A k \in 1 .. Len(s) : s[k].data = i => s[k].func # "report"
    <3> SUFFICES ASSUME NEW k \in 1 .. Len(s), s[k].data = i, s[k].func = "report"
                 PROVE  FALSE
      OBVIOUS
    <3>1. Key(s[k]) \in Keys(timers) /\ Key(s[k]) = <<"report", i>>
      BY <2>10 DEF Keys, Key
    <3>2. i = None
      BY <1>4, <3>1
    <3> QED
      BY <2>9, <3>2, ReadingAssumption
  <2>13. /\ g[j] \in Seq(TimerType) /\ Unique(g[j])
         /\ Keys(g[j]) = {q \in Keys(s) : q[2] # i}
    BY <2>9, <2>12, TimersWithoutKeys
  <2>14. Keys(g[j]) = {q \in Keys(timers) : q[2] \notin Gone(j)}
    BY <2>10, <2>11, <2>13
  <2> QED
    BY <2>4, <2>13, <2>14
<1>6. Gone(n) = Range(list)
  BY <1>1 DEF Range
<1>7. Good(n)
  <2>1. n \in 0 .. n
    BY <1>1
  <2> HIDE DEF Good
  <2> QED
    BY <1>5, <2>1
<1> QED
  BY <1>3, <1>6, <1>7

LEMMA TimerTyped ==
    ASSUME NEW f \in {"check", "info", "report"}, NEW i \in Nat \cup {None}
    PROVE  /\ Timer(f, i) \in TimerType /\ Timer(f, i).func = f /\ Timer(f, i).data = i
           /\ Timer(f, i).due = 0 /\ Key(Timer(f, i)) = <<f, i>>
<1> QED
  BY DEF Timer, TimerType, Text, Key

(* A timer for each of some endpoints.                                      *)
LEMMA TimerPerEndpoint ==
    ASSUME NEW f \in {"check", "info", "report"}, NEW m \in Seq(Nat), IsInjective(m)
    PROVE  LET s == [k \in 1 .. Len(m) |-> Timer(f, m[k])]
           IN  /\ s \in Seq(TimerType) /\ Unique(s) /\ Keys(s) = {<<f, i>> : i \in Range(m)}
               /\ Len(s) = Len(m) /\ Fresh(s)
<1> DEFINE n == Len(m)
           s == [k \in 1 .. n |-> Timer(f, m[k])]
<1>1. n \in Nat /\ DOMAIN m = 1 .. n /\ \A k \in 1 .. n : m[k] \in Nat
  OBVIOUS
<1>2. \A k \in 1 .. n : Timer(f, m[k]) \in TimerType /\ Timer(f, m[k]).due = 0 /\ Key(Timer(f, m[k])) = <<f, m[k]>>
  BY <1>1, TimerTyped
<1>3. s \in Seq(TimerType) /\ Len(s) = n
  BY <1>1, <1>2
<1>4. \A k \in 1 .. n : s[k].due = 0 /\ Key(s[k]) = <<f, m[k]>>
  BY <1>2
<1> HIDE DEF s, n
<1>5. Unique(s)
  BY <1>1, <1>3, <1>4 DEF Unique, IsInjective
<1>6. Keys(s) = {<<f, i>> : i \in Range(m)}
  BY <1>1, <1>3, <1>4 DEF Keys, Range
<1> QED
  BY <1>3, <1>4, <1>5, <1>6 DEF s, n, Fresh

(* Two timers for each, side by side.                                       *)
LEMMA TimersSideBySide ==
    ASSUME NEW m \in Seq(Nat), IsInjective(m)
    PROVE  LET s == [k \in 1 .. 2 * Len(m) |-> IF k % 2 = 1 THEN Timer("info", m[(k + 1) \div 2])
                                               ELSE Timer("check", m[k \div 2])]
           IN  /\ s \in Seq(TimerType) /\ Unique(s)
               /\ Keys(s) = {<<"info", i>> : i \in Range(m)} \cup {<<"check", i>> : i \in Range(m)}
               /\ Len(s) = 2 * Len(m) /\ Fresh(s)
<1> DEFINE n == Len(m)
           s == [k \in 1 .. 2 * n |-> IF k % 2 = 1 THEN Timer("info", m[(k + 1) \div 2])
                                      ELSE Timer("check", m[k \div 2])]
           func(k) == IF k % 2 = 1 THEN "info" ELSE "check"
           of(k) == IF k % 2 = 1 THEN (k + 1) \div 2 ELSE k \div 2
<1>1. n \in Nat /\ DOMAIN m = 1 .. n /\ \A k \in 1 .. n : m[k] \in Nat
  OBVIOUS
<1> HIDE DEF n
<1>2. \A k \in 1 .. 2 * n : of(k) \in 1 .. n
  BY <1>1
<1>3. \A k \in 1 .. 2 * n : s[k] = Timer(func(k), m[of(k)])
  OBVIOUS
<1>4. \A j, k \in 1 .. 2 * n : func(j) = func(k) /\ of(j) = of(k) => j = k
  <2> SUFFICES ASSUME NEW j \in 1 .. 2 * n, NEW k \in 1 .. 2 * n, func(j) = func(k), of(j) = of(k)
               PROVE  j = k
    OBVIOUS
  <2>1. j \in Nat /\ k \in Nat
    BY <1>1
  <2>2. (j % 2 = 1 /\ k % 2 = 1) \/ (j % 2 # 1 /\ k % 2 # 1)
    OBVIOUS
  <2>3. CASE j % 2 = 1 /\ k % 2 = 1
    <3>1. (j + 1) \div 2 = (k + 1) \div 2
      BY <2>3
    <3> QED
      BY <2>1, <2>3, <3>1
  <2>4. CASE j % 2 # 1 /\ k % 2 # 1
    <3>1. j \div 2 = k \div 2
      BY <2>4
    <3> QED
      BY <2>1, <2>4, <3>1
  <2> QED
    BY <2>2, <2>3, <2>4
<1>5. \A k \in 1 .. n : /\ 2 * k - 1 \in 1 .. 2 * n /\ func(2 * k - 1) = "info" /\ of(2 * k - 1) = k
                        /\ 2 * k \in 1 .. 2 * n /\ func(2 * k) = "check" /\ of(2 * k) = k
  <2> SUFFICES ASSUME NEW k \in 1 .. n
               PROVE  /\ 2 * k - 1 \in 1 .. 2 * n /\ func(2 * k - 1) = "info" /\ of(2 * k - 1) = k
                      /\ 2 * k \in 1 .. 2 * n /\ func(2 * k) = "check" /\ of(2 * k) = k
    OBVIOUS
  <2>1. /\ 2 * k - 1 \in 1 .. 2 * n /\ 2 * k \in 1 .. 2 * n
        /\ (2 * k - 1) % 2 = 1 /\ (2 * k) % 2 = 0 /\ (2 * k) \div 2 = k /\ ((2 * k - 1) + 1) \div 2 = k
    BY <1>1
  <2> QED
    BY <2>1
<1>6. \A k \in 1 .. 2 * n : func(k) \in {"info", "check"}
  OBVIOUS
<1>7. DOMAIN s = 1 .. 2 * n
  OBVIOUS
<1> HIDE DEF func, of
<1>8. \A k \in 1 .. 2 * n : s[k] \in TimerType /\ s[k].due = 0 /\ Key(s[k]) = <<func(k), m[of(k)]>>
  <2>1. \A k \in 1 .. 2 * n : func(k) \in {"check", "info", "report"} /\ m[of(k)] \in Nat \cup {None}
    BY <1>1, <1>2, <1>6
  <2> HIDE DEF s
  <2> SUFFICES ASSUME NEW k \in 1 .. 2 * n
               PROVE  s[k] \in TimerType /\ s[k].due = 0 /\ Key(s[k]) = <<func(k), m[of(k)]>>
    OBVIOUS
  <2> DEFINE f == func(k)
             i == m[of(k)]
  <2>2. f \in {"check", "info", "report"} /\ i \in Nat \cup {None} /\ s[k] = Timer(f, i)
    BY <1>3, <2>1
  <2> HIDE DEF f, i
  <2>3. s[k] \in TimerType /\ s[k].due = 0 /\ Key(s[k]) = <<f, i>>
    BY <2>2, TimerTyped
  <2> QED
    BY <2>3 DEF f, i
<1>9. s \in Seq(TimerType) /\ Len(s) = 2 * n
  <2>1. 2 * n \in Nat
    BY <1>1
  <2>2. s \in [1 .. 2 * n -> TimerType]
    BY <1>7, <1>8
  <2> HIDE DEF s
  <2>3. s \in Seq(TimerType)
    BY <2>1, <2>2
  <2> QED
    BY <1>7, <2>1, <2>3
<1> HIDE DEF s
<1>10. Unique(s)
  <2> SUFFICES ASSUME NEW j \in 1 .. 2 * n, NEW k \in 1 .. 2 * n, Key(s[j]) = Key(s[k])
               PROVE  j = k
    BY <1>9 DEF Unique
  <2>1. func(j) = func(k) /\ m[of(j)] = m[of(k)]
    BY <1>8
  <2>2. of(j) = of(k)
    BY <1>1, <1>2, <2>1 DEF IsInjective
  <2> QED
    BY <1>4, <2>1, <2>2
<1>11. Keys(s) = {<<"info", i>> : i \in Range(m)} \cup {<<"check", i>> : i \in Range(m)}
  <2> DEFINE K == {<<"info", i>> : i \in Range(m)} \cup {<<"check", i>> : i \in Range(m)}
  <2>1. \A k \in 1 .. 2 * n : Key(s[k]) \in K
    BY <1>1, <1>2, <1>6, <1>8 DEF Range
  <2>2. Keys(s) \subseteq K
    BY <1>9, <2>1 DEF Keys
  <2>3. \A k \in 1 .. n : <<"info", m[k]>> \in Keys(s) /\ <<"check", m[k]>> \in Keys(s)
    <3> SUFFICES ASSUME NEW k \in 1 .. n
                 PROVE  <<"info", m[k]>> \in Keys(s) /\ <<"check", m[k]>> \in Keys(s)
      OBVIOUS
    <3> DEFINE a == 2 * k - 1
               b == 2 * k
    <3>1. /\ a \in 1 .. 2 * n /\ func(a) = "info" /\ of(a) = k
          /\ b \in 1 .. 2 * n /\ func(b) = "check" /\ of(b) = k
      BY <1>5
    <3> HIDE DEF a, b
    <3>2. Key(s[a]) = <<"info", m[k]>> /\ Key(s[b]) = <<"check", m[k]>>
      BY <1>8, <3>1
    <3>3. Key(s[a]) \in Keys(s) /\ Key(s[b]) \in Keys(s)
      BY <1>9, <3>1 DEF Keys
    <3> QED
      BY <3>2, <3>3
  <2>4. K \subseteq Keys(s)
    BY <1>1, <2>3 DEF Range
  <2> QED
    BY <2>2, <2>4
<1> QED
  BY <1>8, <1>9, <1>10, <1>11 DEF s, n, Fresh

LEMMA ReportTimerKeys ==
    ASSUME NEW x \in Inis
    PROVE  /\ ReportTimer(x) \in Seq(TimerType) /\ Unique(ReportTimer(x)) /\ Fresh(ReportTimer(x))
           /\ Keys(ReportTimer(x)) = (IF x.timeout THEN {<<"report", None>>} ELSE {})
           /\ Len(ReportTimer(x)) = Checks(x)
<1> DEFINE e == Timer("report", None)
<1>1. e \in TimerType /\ e.due = 0 /\ Key(e) = <<"report", None>>
  BY TimerTyped
<1> HIDE DEF e
<1>2. CASE x.timeout
  <2>1. ReportTimer(x) = <<e>>
    BY <1>2 DEF ReportTimer, e
  <2>2. <<e>> \in Seq(TimerType) /\ Len(<<e>>) = 1 /\ <<e>>[1] = e /\ 1 .. 1 = {1}
    BY <1>1
  <2> QED
    BY <1>1, <1>2, <2>1, <2>2 DEF Unique, Keys, Fresh, Checks
<1>3. CASE ~x.timeout
  <2>1. ReportTimer(x) = <<>>
    BY <1>3 DEF ReportTimer
  <2> QED
    BY <1>3, <2>1 DEF Unique, Keys, Fresh, Checks
<1> QED
  BY <1>2, <1>3

LEMMA NoTimers ==
    /\ <<>> \in Seq(TimerType) /\ Unique(<<>>) /\ Keys(<<>>) = {} /\ Fresh(<<>>) /\ Len(<<>>) = 0
    /\ \A s \in Seq(TimerType) : Keys(s) = {} => s = <<>>
<1>1. \A s \in Seq(TimerType) : Keys(s) = {} => s = <<>>
  <2> SUFFICES ASSUME NEW s \in Seq(TimerType), Keys(s) = {}
               PROVE  s = <<>>
    OBVIOUS
  <2>1. Len(s) = 0
    <3> SUFFICES ASSUME Len(s) # 0
                 PROVE  FALSE
      OBVIOUS
    <3>1. 1 \in 1 .. Len(s)
      OBVIOUS
    <3> QED
      BY <3>1 DEF Keys
  <2> QED
    BY <2>1
<1> QED
  BY <1>1 DEF Unique, Keys, Fresh

(* The timers made at the start, and by a reset, are those the .ini file    *)
(* asks for.                                                                *)
LEMMA NewTimers ==
    ASSUME NEW x \in Inis, NEW s, s = TimersAtStart(x) \/ s = TimersOfReset(x)
    PROVE  /\ s \in Seq(TimerType) /\ Unique(s) /\ Keys(s) = KeysOf(x) /\ Fresh(s)
           /\ Len(s) = Len(Valid(x)) * (1 + Checks(x)) + Checks(x)
<1> DEFINE v == Valid(x)
           m == Reverse(v)
           n == Len(v)
           r == ReportTimer(x)
           V == Range(v)
           Infos == {<<"info", i>> : i \in V}
           Both == {<<"check", i>> : i \in V}
           Reports == IF x.timeout THEN {<<"report", None>>} ELSE {}
<1>1. v \in Seq(Nat) /\ IsInjective(v) /\ n \in Nat /\ V \subseteq Nat
  <2>1. v \in Seq(1 .. Len(x.romid)) /\ Len(x.romid) \in Nat
    BY ValidProperties, IniAssumption
  <2>2. v \in Seq(Nat)
    BY <2>1
  <2> QED
    BY <2>2, ValidProperties DEF Range
<1>2. /\ m \in Seq(Nat) /\ IsInjective(m) /\ Range(m) = V /\ Len(m) = n
  BY <1>1, ReverseProperties
<1>3. /\ r \in Seq(TimerType) /\ Unique(r) /\ Fresh(r) /\ Keys(r) = Reports /\ Len(r) = Checks(x)
  BY ReportTimerKeys
<1>4. x.timeout \in BOOLEAN
  BY IniAssumption
<1>5. KeysOf(x) = Infos \cup (IF x.timeout THEN Both ELSE {}) \cup Reports
  BY <1>4 DEF KeysOf
<1>6. Infos \cap Both = {} /\ Infos \cap Reports = {} /\ Both \cap Reports = {}
  OBVIOUS
<1> HIDE DEF v, m, n, r, V, Infos, Both, Reports
<1>7. CASE s = TimersAtStart(x)
  <2> DEFINE a == [k \in 1 .. Len(v) |-> Timer("info", v[k])]
             c == [k \in 1 .. Len(m) |-> Timer("check", m[k])]
             d == IF x.timeout THEN c ELSE <<>>
  <2>1. a \in Seq(TimerType) /\ Unique(a) /\ Keys(a) = Infos /\ Fresh(a) /\ Len(a) = n
    BY <1>1, TimerPerEndpoint DEF Infos, V, n
  <2>2. c \in Seq(TimerType) /\ Unique(c) /\ Keys(c) = Both /\ Fresh(c) /\ Len(c) = n
    BY <1>2, TimerPerEndpoint DEF Both
  <2>3. s = (a \o r) \o d
    BY <1>2, <1>7 DEF TimersAtStart, v, m, r, n
  <2> HIDE DEF a, c
  <2>4. /\ d \in Seq(TimerType) /\ Unique(d) /\ Fresh(d)
        /\ Keys(d) = (IF x.timeout THEN Both ELSE {}) /\ Len(d) = (IF x.timeout THEN n ELSE 0)
    <3>1. CASE x.timeout
      <4>1. d = c
        BY <3>1
      <4> QED
        BY <2>2, <3>1, <4>1
    <3>2. CASE ~x.timeout
      <4>1. d = <<>>
        BY <3>2
      <4> HIDE DEF d
      <4> QED
        BY <3>2, <4>1, NoTimers
    <3> QED
      BY <3>1, <3>2
  <2> HIDE DEF d
  <2> DEFINE b == a \o r
  <2>5. b \in Seq(TimerType) /\ Unique(b) /\ Keys(b) = Infos \cup Reports /\ Fresh(b) /\ Len(b) = n + Checks(x)
    BY <1>3, <1>6, <2>1, ConcatTimers
  <2>6. s = b \o d
    BY <2>3
  <2> HIDE DEF b
  <2>7. Keys(b) \cap Keys(d) = {}
    BY <1>6, <2>4, <2>5
  <2>8. /\ s \in Seq(TimerType) /\ Unique(s) /\ Keys(s) = Keys(b) \cup Keys(d) /\ Fresh(s)
        /\ Len(s) = n + Checks(x) + Len(d)
    BY <2>4, <2>5, <2>6, <2>7, ConcatTimers
  <2>9. Keys(s) = KeysOf(x)
    BY <1>5, <2>4, <2>5, <2>8
  <2>10. Len(s) = n * (1 + Checks(x)) + Checks(x)
    BY <1>1, <2>4, <2>8 DEF Checks
  <2> QED
    BY <2>8, <2>9, <2>10 DEF n, v
<1>8. CASE s = TimersOfReset(x)
  <2> DEFINE a == [k \in 1 .. 2 * Len(m) |-> IF k % 2 = 1 THEN Timer("info", m[(k + 1) \div 2])
                                             ELSE Timer("check", m[k \div 2])]
             c == [k \in 1 .. Len(m) |-> Timer("info", m[k])]
             d == IF x.timeout THEN a ELSE c
  <2>1. a \in Seq(TimerType) /\ Unique(a) /\ Keys(a) = Infos \cup Both /\ Fresh(a) /\ Len(a) = 2 * n
    BY <1>2, TimersSideBySide DEF Infos, Both
  <2>2. c \in Seq(TimerType) /\ Unique(c) /\ Keys(c) = Infos /\ Fresh(c) /\ Len(c) = n
    BY <1>2, TimerPerEndpoint DEF Infos
  <2>3. s = r \o d
    BY <1>8 DEF TimersOfReset, v, m, r
  <2> HIDE DEF a, c
  <2>4. /\ d \in Seq(TimerType) /\ Unique(d) /\ Fresh(d)
        /\ Keys(d) = Infos \cup (IF x.timeout THEN Both ELSE {}) /\ Len(d) = (IF x.timeout THEN 2 * n ELSE n)
    BY <2>1, <2>2
  <2> HIDE DEF d
  <2>5. Keys(r) \cap Keys(d) = {}
    BY <1>3, <1>6, <2>4
  <2>6. /\ s \in Seq(TimerType) /\ Unique(s) /\ Keys(s) = Keys(r) \cup Keys(d) /\ Fresh(s)
        /\ Len(s) = Checks(x) + Len(d)
    BY <1>3, <2>3, <2>4, <2>5, ConcatTimers
  <2>7. Keys(s) = KeysOf(x)
    BY <1>3, <1>5, <2>4, <2>6
  <2>8. Len(s) = n * (1 + Checks(x)) + Checks(x)
    BY <1>1, <2>4, <2>6 DEF Checks
  <2> QED
    BY <2>6, <2>7, <2>8 DEF n, v
<1> QED
  BY <1>7, <1>8

-----------------------------------------------------------------------------
(***************************************************************************)
(* Endpoints and timers as they are made.                                  *)
(***************************************************************************)

EndpointType ==
    [romid : Roms, uid : 128 .. 159, state : State, text : Text, prevValue : Text,
     reported : BOOLEAN, quiet : Nat, since : 0 .. NEVER,
     seen : [state : State, text : Text], forced : BOOLEAN, steady : BOOLEAN]

LEMMA Times ==
    /\ T \in Nat /\ T > 0 /\ I \in Nat /\ I > 0 /\ L \in Nat /\ Late \in Nat /\ A \in Nat
    /\ MARGIN \in Nat /\ MARGIN > 0 /\ MARGIN < T /\ Late + A <= MARGIN
    /\ NEVER \in Nat /\ NEVER = 2 * T + 2 * I + 2 * Late + 1
<1>1. /\ T \in Nat /\ T > 0 /\ I \in Nat /\ I > 0 /\ L \in Nat /\ Late \in Nat /\ A \in Nat
  BY TimeAssumption
<1>2. MARGIN \in Nat /\ MARGIN > 0 /\ MARGIN < T /\ Late + A <= MARGIN
  BY <1>1, TimeAssumption
<1> QED
  BY <1>1, <1>2 DEF NEVER

LEMMA Intervals ==
    /\ Interval("check") = T /\ Interval("info") = I /\ Interval("report") = T - MARGIN
    /\ \A f \in {"check", "info", "report"} : Interval(f) \in Nat /\ Interval(f) > 0
<1>1. Interval("check") = T /\ Interval("info") = I /\ Interval("report") = T - MARGIN
  BY DEF Interval
<1> QED
  BY <1>1, Times

(* An endpoint that is made is unknown and has reported nothing.            *)
LEMMA EndpointsNew ==
    ASSUME NEW x \in Inis
    PROVE  /\ Endpoints(x) \in [Range(Valid(x)) -> EndpointType]
           /\ \A i \in Range(Valid(x)) : LET e == Endpoints(x)[i] IN
                 /\ e.state = UNKNOWN /\ e.prevValue = None /\ ~e.steady /\ ~e.reported
                 /\ e.seen.state = UNKNOWN /\ e.seen.text = None /\ e.quiet = I
<1> DEFINE v == Valid(x)
           at(i) == SelectInSeq(v, LAMBDA j : j = i)
<1>1. /\ v \in Seq(1 .. Len(x.romid)) /\ Len(v) \in Nat /\ Len(v) <= MAXDEVICES
      /\ Range(v) = {i \in 1 .. Len(x.romid) : x.romid[i] # None}
  BY ValidProperties
<1> HIDE DEF v
<1>2. \A i \in Range(v) : at(i) \in 1 .. Len(v)
  <2> SUFFICES ASSUME NEW i \in Range(v)
               PROVE  at(i) \in 1 .. Len(v)
    OBVIOUS
  <2> DEFINE N == {k \in 1 .. Len(v) : v[k] = i}
  <2>1. N # {} /\ N \in SUBSET Nat
    BY <1>1 DEF Range
  <2>2. Min(N) \in N
    BY <2>1, MinProperties
  <2>3. at(i) = Min(N)
    BY <2>1 DEF SelectInSeq
  <2> QED
    BY <2>2, <2>3
<1>3. Endpoints(x) = [i \in Range(v) |-> New(x.romid[i], 127 + at(i))]
  BY DEF Endpoints, v
<1> HIDE DEF at
<1>4. ASSUME NEW i \in Range(v)
      PROVE  New(x.romid[i], 127 + at(i)) \in EndpointType
  <2> DEFINE rom == x.romid[i]
             uid == 127 + at(i)
  <2>1. rom \in Roms
    <3>1. x.romid \in Seq(Roms \cup {None}) /\ i \in 1 .. Len(x.romid) /\ x.romid[i] # None
      BY <1>1, IniAssumption
    <3> QED
      BY <3>1
  <2>2. uid \in 128 .. 159
    <3>1. at(i) \in Nat /\ at(i) >= 1 /\ at(i) <= MAXDEVICES /\ MAXDEVICES <= 32 /\ MAXDEVICES \in Nat
      BY <1>1, <1>2, SizeAssumption
    <3> QED
      BY <3>1
  <2>3. I \in Nat /\ NEVER \in 0 .. NEVER /\ UNKNOWN \in State /\ None \in Text
    BY Times DEF State, Text
  <2> HIDE DEF rom, uid
  <2>4. New(rom, uid) \in EndpointType
    BY <2>1, <2>2, <2>3 DEF New, EndpointType
  <2> QED
    BY <2>4 DEF rom, uid
<1>5. Endpoints(x) \in [Range(v) -> EndpointType]
  BY <1>3, <1>4
<1>6. \A i \in Range(v) : LET e == Endpoints(x)[i] IN
          /\ e.state = UNKNOWN /\ e.prevValue = None /\ ~e.steady /\ ~e.reported
          /\ e.seen.state = UNKNOWN /\ e.seen.text = None /\ e.quiet = I
  BY <1>3 DEF New
<1> QED
  BY <1>5, <1>6 DEF v

\* The state that the start and a reset end in.
Made ==
    /\ ini \in Inis /\ list = Reverse(Valid(ini)) /\ sensor = Endpoints(ini)
    /\ filters \in Seq(Nat) /\ Len(filters) = Len(list) /\ Range(filters) = Range(list)
    /\ timers = TimersAtStart(ini) \/ timers = TimersOfReset(ini)
    /\ unassigned = {} /\ bus \subseteq Roms
    /\ owed \in [Roms -> 0 .. A \cup {None}] /\ \A r \in Roms : owed[r] # None => r \in bus

(* The numbers of the endpoints, in the order of the list and of the file.  *)
LEMMA ListOf ==
    ASSUME NEW x \in Inis
    PROVE  /\ Valid(x) \in Seq(Nat) /\ Reverse(Valid(x)) \in Seq(Nat)
           /\ Range(Reverse(Valid(x))) = Range(Valid(x)) /\ Range(Valid(x)) \subseteq Nat
           /\ Len(Reverse(Valid(x))) = Len(Valid(x))
<1>1. Valid(x) \in Seq(1 .. Len(x.romid)) /\ IsInjective(Valid(x)) /\ Len(x.romid) \in Nat
  BY ValidProperties, IniAssumption
<1>2. Valid(x) \in Seq(Nat)
  BY <1>1
<1>3. /\ Reverse(Valid(x)) \in Seq(Nat) /\ Range(Reverse(Valid(x))) = Range(Valid(x))
      /\ Len(Reverse(Valid(x))) = Len(Valid(x))
  BY <1>1, <1>2, ReverseProperties
<1>4. Range(Valid(x)) \subseteq Nat
  BY <1>2 DEF Range
<1> QED
  BY <1>2, <1>3, <1>4

LEMMA MadeIInv == Made => IInv
<1> SUFFICES ASSUME Made
             PROVE  IInv
  OBVIOUS
<1>1. /\ ini \in Inis /\ list = Reverse(Valid(ini)) /\ sensor = Endpoints(ini)
      /\ filters \in Seq(Nat) /\ Len(filters) = Len(list) /\ Range(filters) = Range(list)
      /\ unassigned = {} /\ bus \subseteq Roms
      /\ owed \in [Roms -> 0 .. A \cup {None}] /\ \A r \in Roms : owed[r] # None => r \in bus
  BY DEF Made
<1>2. /\ list \in Seq(Nat) /\ Range(list) = Range(Valid(ini)) /\ Len(list) = Len(Valid(ini))
  BY <1>1, ListOf
<1>3. /\ timers \in Seq(TimerType) /\ Unique(timers) /\ Keys(timers) = KeysOf(ini) /\ Fresh(timers)
      /\ Len(timers) = Len(list) * (1 + Checks(ini)) + Checks(ini)
  BY <1>1, <1>2, NewTimers DEF Made
<1>4. /\ sensor \in [Range(list) -> EndpointType]
      /\ \A i \in Range(list) :
            /\ sensor[i].state = UNKNOWN /\ sensor[i].prevValue = None /\ ~sensor[i].steady
            /\ sensor[i].seen.state = UNKNOWN /\ sensor[i].seen.text = None
            /\ ~sensor[i].reported /\ sensor[i].quiet = I
  BY <1>1, <1>2, EndpointsNew
<1>5. \A k \in 1 .. Len(timers) : timers[k].due \in -Late .. Interval(timers[k].func)
  <2> SUFFICES ASSUME NEW k \in 1 .. Len(timers)
               PROVE  timers[k].due \in -Late .. Interval(timers[k].func)
    OBVIOUS
  <2>1. timers[k].func \in {"check", "info", "report"} /\ timers[k].due = 0
    <3>1. timers[k] \in TimerType
      BY <1>3
    <3> QED
      BY <1>3, <3>1 DEF Fresh, TimerType
  <2>2. Interval(timers[k].func) \in Nat /\ Late \in Nat
    BY <2>1, Intervals, Times
  <2> QED
    BY <2>1, <2>2
<1>6. TypeOK
  BY <1>1, <1>2, <1>3, <1>4, <1>5 DEF TypeOK, TimerType, EndpointType
<1>7. Wired
  BY <1>1, <1>2, <1>3 DEF Wired
<1>8. DOMAIN sensor = Range(list) /\ UNKNOWN # ON
  BY <1>4 DEF UNKNOWN, ON
<1>9. OfferedAreFree /\ Told /\ Quiet /\ Steady
  BY <1>1, <1>4, <1>8 DEF OfferedAreFree, Told, ToldOf, Kept, Quiet, QuietOf, Steady
<1>10. Due
  BY <1>3, <1>4, <1>8, Times DEF Due, DueOf, Fresh
<1> QED
  BY <1>6, <1>7, <1>9, <1>10 DEF IInv

LEMMA InitIInv == Init => IInv
<1> SUFFICES ASSUME Init
             PROVE  Made
  BY MadeIInv
<1>1. ini \in Inis /\ list = Reverse(Valid(ini)) /\ filters = Valid(ini)
  BY DEF Init
<1>2. filters \in Seq(Nat) /\ Len(filters) = Len(list) /\ Range(filters) = Range(list)
  BY <1>1, ListOf
<1>3. owed \in [Roms -> 0 .. A \cup {None}] /\ \A r \in Roms : owed[r] # None => r \in bus
  <2>1. A \in 0 .. A
    BY Times
  <2> QED
    BY <2>1 DEF Init
<1> QED
  BY <1>1, <1>2, <1>3 DEF Init, Made

(* A reset leaves none of the timers there were, and none of the filters.   *)
LEMMA ResetStep ==
    ASSUME IInv, NEW x \in Inis, resetOneWireEndpoints(x)
    PROVE  IInv'
<1>1. /\ ini' = x /\ list' = Reverse(Valid(x)) /\ sensor' = Endpoints(x) /\ unassigned' = {}
      /\ filters' = Reverse(Valid(x)) \o Without(filters, Range(list)) /\ bus' = bus
      /\ timers' = TimersOfReset(x) \o RemoveFirstMatch(DelEndpoints, LAMBDA t : t.func = "report")
      /\ owed' = IF x.romid # <<>> THEN Asked ELSE owed
  BY DEF resetOneWireEndpoints, Cleared
<1>2. /\ timers \in Seq(TimerType) /\ list \in Seq(Nat) /\ filters \in Seq(Nat) /\ bus \subseteq Roms
      /\ owed \in [Roms -> 0 .. A \cup {None}] /\ \A r \in Roms : owed[r] # None => r \in bus
      /\ ini \in Inis
  BY DEF IInv, TypeOK, TimerType
<1>3. /\ Unique(timers) /\ Keys(timers) = KeysOf(ini) /\ Range(filters) = Range(list)
      /\ Range(list) = Range(Valid(ini))
  BY <1>2, ListOf DEF IInv, Wired
<1>4. filters' \in Seq(Nat) /\ Len(filters') = Len(list') /\ Range(filters') = Range(list')
  <2> DEFINE w == Without(filters, Range(list))
  <2>1. PICK h : w \in Seq(Nat) /\ Embeds(h, w, filters, Range(list), Len(filters))
    BY <1>2, WithoutEmbeds
  <2>2. \A i \in 1 .. Len(filters) : filters[i] \in Range(list)
    <3>1. \A i \in 1 .. Len(filters) : filters[i] \in Range(filters)
      BY <1>2 DEF Range
    <3> QED
      BY <1>3, <3>1
  <2> HIDE DEF w
  <2>3. Len(w) = 0
    <3> SUFFICES ASSUME Len(w) # 0
                 PROVE  FALSE
      OBVIOUS
    <3>1. 1 \in 1 .. Len(w)
      BY <2>1
    <3>2. h[1] \in 1 .. Len(filters) /\ w[1] = filters[h[1]] /\ w[1] \notin Range(list)
      BY <2>1, <3>1 DEF Embeds
    <3> QED
      BY <2>2, <3>2
  <2>4. w = <<>>
    BY <2>1, <2>3
  <2>5. Reverse(Valid(x)) \in Seq(Nat)
    BY ListOf
  <2>6. filters' = Reverse(Valid(x)) \o <<>>
    BY <1>1, <2>4 DEF w
  <2>7. filters' = Reverse(Valid(x))
    BY <2>5, <2>6
  <2> QED
    BY <1>1, <2>5, <2>7
<1>5. timers' = TimersOfReset(x)
  <2> DEFINE d == DelEndpoints
             e == RemoveFirstMatch(d, LAMBDA t : t.func = "report")
  <2>1. \A k \in 1 .. Len(timers) : timers[k].func = "report" => timers[k].data = None
    <3> SUFFICES ASSUME NEW k \in 1 .. Len(timers), timers[k].func = "report"
                 PROVE  timers[k].data = None
      OBVIOUS
    <3>1. Key(timers[k]) \in KeysOf(ini) /\ Key(timers[k]) = <<"report", timers[k].data>>
      BY <1>3 DEF Keys, Key
    <3> QED
      BY <3>1 DEF KeysOf
  <2>2. /\ d \in Seq(TimerType) /\ Unique(d)
        /\ Keys(d) = {q \in Keys(timers) : q[2] \notin Range(list)}
    BY <1>2, <1>3, <2>1, DelEndpointsKeys
  <2>3. \A q \in Keys(d) : q = <<"report", None>>
    BY <1>3, <2>2 DEF KeysOf
  <2> HIDE DEF d
  <2>4. e = <<>>
    <3> DEFINE N == {k \in 1 .. Len(d) : d[k].func = "report"}
    <3>1. \A k \in 1 .. Len(d) : Key(d[k]) \in Keys(d) /\ d[k].func = "report"
      <4> SUFFICES ASSUME NEW k \in 1 .. Len(d)
                   PROVE  Key(d[k]) \in Keys(d) /\ d[k].func = "report"
        OBVIOUS
      <4>1. Key(d[k]) \in Keys(d)
        BY DEF Keys
      <4>2. Key(d[k]) = <<"report", None>>
        BY <2>3, <4>1
      <4> QED
        BY <4>1, <4>2 DEF Key
    <3>2. CASE N = {}
      <4>1. e = d
        BY <3>2 DEF RemoveFirstMatch
      <4>2. Keys(d) = {}
        BY <3>1, <3>2 DEF Keys
      <4> QED
        BY <2>2, <4>1, <4>2, NoTimers
    <3>3. CASE N # {}
      <4>1. Min(N) \in N
        <5>1. N \in SUBSET Nat
          OBVIOUS
        <5> QED
          BY <3>3, <5>1, MinProperties
      <4> DEFINE k == Min(N)
      <4>2. e = RemoveAt(d, k)
        BY <3>3 DEF RemoveFirstMatch, SelectInSeq
      <4>3. k \in 1 .. Len(d)
        BY <4>1
      <4> HIDE DEF k, e, N
      <4>4. e \in Seq(TimerType) /\ Keys(e) = Keys(d) \ {Key(d[k])}
        BY <2>2, <4>2, <4>3, RemoveTimer
      <4>5. Keys(e) = {}
        BY <2>3, <3>1, <4>3, <4>4
      <4> QED
        BY <4>4, <4>5, NoTimers
    <3> QED
      BY <3>2, <3>3
  <2>5. timers' = TimersOfReset(x) \o <<>>
    BY <1>1, <2>4 DEF d
  <2>6. TimersOfReset(x) \in Seq(TimerType)
    BY NewTimers
  <2> QED
    BY <2>5, <2>6
<1>6. owed' \in [Roms -> 0 .. A \cup {None}] /\ \A r \in Roms : owed'[r] # None => r \in bus
  <2>1. A \in 0 .. A
    BY Times
  <2> QED
    BY <1>1, <1>2, <2>1 DEF Asked
<1>7. Made'
  BY <1>1, <1>2, <1>4, <1>5, <1>6 DEF Made
<1>8. Made' => IInv'
  BY MadeIInv, PTL
<1> QED
  BY <1>7, <1>8

-----------------------------------------------------------------------------
(***************************************************************************)
(* What holds between resets.                                              *)
(***************************************************************************)

(* A step that makes and deletes no endpoint, filter or timer.              *)
LEMMA StepKeeps ==
    ASSUME IInv, UNCHANGED <<ini, list, filters>>,
           sensor' \in [DOMAIN sensor -> EndpointType],
           \A i \in DOMAIN sensor : sensor'[i].romid = sensor[i].romid,
           timers' \in Seq(TimerType), Len(timers') = Len(timers),
           \A k \in 1 .. Len(timers) : /\ timers'[k].func = timers[k].func
                                       /\ timers'[k].data = timers[k].data
                                       /\ timers'[k].due \in -Late .. Interval(timers[k].func),
           unassigned' \subseteq Roms, bus' \subseteq Roms, owed' \in [Roms -> 0 .. A \cup {None}],
           \A r \in Roms : owed'[r] # None => r \in bus',
           \A i \in Range(list) : sensor[i].romid \notin unassigned',
           \A i \in DOMAIN sensor : ToldOf(sensor'[i]) /\ DueOf(i, sensor'[i].quiet, timers'),
           ini.timeout => \A i \in DOMAIN sensor : QuietOf(i, sensor'[i], timers'),
           \A i \in DOMAIN sensor : LET e == sensor'[i] IN
              e.steady =>
                  /\ e.romid \in bus' /\ list[findROMID(e.romid)] = i
                  /\ ini.timeout /\ ~e.forced => e.state = ON
                  /\ AskedInTime(e, timers', owed'[e.romid])
    PROVE  IInv'
<1>1. DOMAIN sensor = Range(list) /\ DOMAIN sensor' = Range(list) /\ list \in Seq(Nat)
  BY DEF IInv, TypeOK
<1>2. TypeOK'
  <2>1. sensor' \in [Range(list') -> EndpointType]
    BY <1>1
  <2>2. \A k \in 1 .. Len(timers') : timers'[k].due \in -Late .. Interval(timers'[k].func)
    OBVIOUS
  <2> QED
    BY <2>1, <2>2 DEF IInv, TypeOK, TimerType, EndpointType
<1>3. Wired'
  <2>1. \A k \in 1 .. Len(timers) : Key(timers'[k]) = Key(timers[k])
    BY DEF Key
  <2>2. Unique(timers') /\ Keys(timers') = Keys(timers)
    BY <2>1 DEF IInv, Wired, Unique, Keys
  <2> QED
    BY <2>2 DEF IInv, Wired
<1>4. OfferedAreFree'
  BY <1>1 DEF OfferedAreFree
<1>5. Told' /\ Due'
  BY <1>1 DEF Told, Due
<1>6. Quiet'
  BY <1>1 DEF Quiet
<1>7. \A r : findROMID(r)' = findROMID(r)
  <2> SUFFICES ASSUME NEW r
               PROVE  findROMID(r)' = findROMID(r)
    OBVIOUS
  <2>1. \A k \in 1 .. Len(list) : sensor'[list[k]].romid = sensor[list[k]].romid
    BY <1>1 DEF Range
  <2> DEFINE new == {k \in 1 .. Len(list) : sensor'[list[k]].romid = r}
             old == {k \in 1 .. Len(list) : sensor[list[k]].romid = r}
  <2>2. new = old
    BY <2>1
  <2>3. findROMID(r)' = IF new # {} THEN Min(new) ELSE 0
    BY DEF findROMID, SelectInSeq
  <2>4. findROMID(r) = IF old # {} THEN Min(old) ELSE 0
    BY DEF findROMID, SelectInSeq
  <2> HIDE DEF new, old
  <2> QED
    BY <2>2, <2>3, <2>4
<1>8. Steady'
  BY <1>1, <1>7 DEF Steady
<1> QED
  BY <1>2, <1>3, <1>4, <1>5, <1>6, <1>8 DEF IInv

(* Of a value that is cut, the tenths are lost.                             *)
LEMMA KeptProperties ==
    ASSUME NEW x \in Text
    PROVE  /\ Kept(x) \in Text /\ Kept(Kept(x)) = Kept(x)
           /\ x = None <=> Kept(x) = None
           /\ x # None => /\ x \in Int /\ Kept(x) \in Int /\ Kept(x) - x \in -9 .. 9
                          /\ x \in Short <=> Kept(x) \in Short
                          /\ x \in Short => Kept(x) = x
                          /\ \A n \in Nat : x \in -n .. n => Kept(x) \in -n .. n
<1>1. None \notin Int
  BY ReadingAssumption
<1>2. CASE x = None
  BY <1>1, <1>2 DEF Kept, Text
<1>3. CASE x \in Short
  <2>1. Kept(x) = x
    BY <1>3 DEF Kept
  <2>2. x \in Int /\ x - x = 0
    BY <1>3 DEF Short
  <2>3. x # None
    BY <1>1, <2>2
  <2> QED
    BY <1>3, <2>1, <2>2, <2>3
<1>4. \A y \in Int : y \notin Short => Kept(y) = IF y > 0 THEN 10 * (y \div 10) ELSE -10 * ((-y) \div 10)
  BY <1>1 DEF Kept
<1>5. \A y \in Int : y \in Short <=> -999 <= y /\ y <= 9999
  BY DEF Short
<1>6. CASE x \in Int /\ x > 9999
  <2>1. Kept(x) = 10 * (x \div 10)
    BY <1>6, <1>4, <1>5
  <2> DEFINE d == x \div 10
             y == 10 * d
  <2>2. d \in Int /\ 10 * d <= x /\ x <= 10 * d + 9
    BY <1>6
  <2> HIDE DEF d
  <2>3. y \in Int /\ y > 9999
    BY <1>6, <2>2
  <2>4. y \div 10 = d
    BY <2>2, <2>3
  <2>5. Kept(y) = y
    BY <1>4, <1>5, <2>3, <2>4
  <2> HIDE DEF y
  <2>6. /\ Kept(x) = y /\ x # None /\ y # None /\ y - x \in -9 .. 9
        /\ \A n \in Nat : x \in -n .. n => y \in -n .. n
    BY <1>1, <1>6, <2>1, <2>2, <2>3 DEF d, y
  <2> QED
    BY <1>6, <1>5, <2>3, <2>5, <2>6 DEF Text
<1>7. CASE x \in Int /\ x < -999
  <2>1. Kept(x) = -10 * ((-x) \div 10)
    BY <1>7, <1>4, <1>5
  <2> DEFINE d == (-x) \div 10
             y == -10 * d
  <2>2. d \in Int /\ -10 * d >= x /\ x >= -10 * d - 9
    BY <1>7
  <2> HIDE DEF d
  <2>3. y \in Int /\ y < -999
    BY <1>7, <2>2
  <2>4. (-y) \div 10 = d
    BY <2>2, <2>3
  <2>5. Kept(y) = y
    BY <1>4, <1>5, <2>3, <2>4
  <2> HIDE DEF y
  <2>6. /\ Kept(x) = y /\ x # None /\ y # None /\ y - x \in -9 .. 9
        /\ \A n \in Nat : x \in -n .. n => y \in -n .. n
    BY <1>1, <1>7, <2>1, <2>2, <2>3 DEF d, y
  <2> QED
    BY <1>7, <1>5, <2>3, <2>5, <2>6 DEF Text
<1> QED
  <2>1. x = None \/ x \in Int
    BY DEF Text
  <2> QED
    BY <1>2, <1>6, <1>7, <1>3, <1>5, <2>1

LEMMA AtofTyped ==
    ASSUME NEW x \in Text
    PROVE  atof(x) \in Int /\ Calibrated(x) \in Text
<1>1. atof(x) \in Int
  BY DEF atof, Text
<1>2. atof(x) + Offset \in Text
  BY <1>1, ReadingAssumption DEF Text
<1> QED
  BY <1>1, <1>2, KeptProperties DEF Calibrated

(* A report goes out, or the value is within the hysteresis of the last one *)
(* that did.                                                                *)
LEMMA ReportCases ==
    ASSUME NEW e \in EndpointType, NEW clazz \in {"info", "event"}
    PROVE  LET d == Report(e, clazz) IN
           /\ d \in EndpointType /\ d.text = Calibrated(e.text)
           /\ d.romid = e.romid /\ d.state = e.state /\ d.since = e.since
           /\ d.forced = e.forced /\ d.steady = e.steady
           /\ \/ /\ d.seen.state = e.state /\ d.seen.text = d.text /\ d.prevValue = Kept(d.text)
                 /\ d.quiet = 0 /\ d.reported
              \/ /\ d.seen = e.seen /\ d.prevValue = e.prevValue /\ d.quiet = e.quiet /\ e.reported
                 /\ clazz # "info"
                 /\ (atof(e.text) + Offset) - atof(e.prevValue) \in -Hyst .. Hyst
<1> DEFINE d == Report(e, clazz)
           text == Calibrated(e.text)
           kept == Kept(text)
           new == atof(e.text) + Offset
           old == atof(e.prevValue)
           a == [e EXCEPT !.text = text, !.prevValue = kept, !.reported = TRUE, !.quiet = 0,
                          !.seen = [state |-> e.state, text |-> text]]
           b == [e EXCEPT !.text = text]
           goes == clazz = "info" \/ new > old + Hyst \/ new < old - Hyst \/ ~e.reported
<1>1. d = IF goes THEN a ELSE b
  BY DEF Report, Suppressed
<1>2. e.text \in Text /\ e.prevValue \in Text /\ e.state \in State
  BY DEF EndpointType
<1>3. text \in Text /\ new \in Int /\ old \in Int /\ Hyst \in Nat
  BY <1>2, AtofTyped, ReadingAssumption
<1>4. kept \in Text
  BY <1>3, KeptProperties
<1> HIDE DEF text, kept
<1>5. a \in EndpointType
  BY <1>2, <1>3, <1>4 DEF EndpointType
<1>6. b \in EndpointType
  BY <1>2, <1>3 DEF EndpointType
<1>7. /\ a.romid = e.romid /\ a.state = e.state /\ a.since = e.since /\ a.forced = e.forced
      /\ a.steady = e.steady /\ a.seen.state = e.state /\ a.text = text /\ a.seen.text = text
      /\ a.prevValue = kept /\ a.quiet = 0 /\ a.reported
  BY DEF EndpointType
<1>8. /\ b.romid = e.romid /\ b.state = e.state /\ b.since = e.since /\ b.forced = e.forced
      /\ b.steady = e.steady /\ b.text = text /\ b.seen = e.seen /\ b.prevValue = e.prevValue
      /\ b.quiet = e.quiet
  BY DEF EndpointType
<1> HIDE DEF a, b, d
<1>9. CASE goes
  <2>1. d = a
    BY <1>1, <1>9
  <2> HIDE DEF goes
  <2> QED
    BY <1>5, <1>7, <2>1 DEF d, text, kept
<1>10. CASE ~goes
  <2>1. d = b
    BY <1>1, <1>10
  <2>2. new - old \in -Hyst .. Hyst /\ e.reported /\ clazz # "info"
    BY <1>3, <1>10
  <2> HIDE DEF goes
  <2>3. (atof(e.text) + Offset) - atof(e.prevValue) \in -Hyst .. Hyst
    BY <2>2, Zenon
  <2> HIDE DEF new, old
  <2> QED
    BY <1>6, <1>8, <2>1, <2>2, <2>3 DEF d, text
<1> QED
  BY <1>9, <1>10

(* What is reported agrees with what is remembered as reported.             *)
LEMMA ReportTold ==
    ASSUME NEW e \in EndpointType, NEW clazz \in {"info", "event"},
           e.prevValue = Kept(e.seen.text), Offset # 0 => e.prevValue = e.seen.text
    PROVE  ToldOf(Report(e, clazz))
<1> DEFINE d == Report(e, clazz)
           x == e.text
           y == d.text
           told == e.seen.text
<1>1. d \in EndpointType /\ y = Calibrated(x)
  BY ReportCases
<1>2. x \in Text /\ y \in Text /\ told \in Text
  BY <1>1 DEF EndpointType
<1>3. Hyst \in Nat /\ Offset \in Int /\ None \notin Int
  BY ReadingAssumption
<1>4. atof(x) \in Int /\ atof(x) + Offset \in Int /\ atof(x) + Offset \in Text
  <2>1. atof(x) \in Int
    BY <1>2, AtofTyped
  <2>2. atof(x) + Offset \in Int
    BY <1>3, <2>1
  <2> QED
    BY <2>1, <2>2 DEF Text
<1>5. Offset # 0 => y = Kept(atof(x) + Offset)
  BY <1>1 DEF Calibrated
<1>6. Offset = 0 => y = x
  BY <1>1 DEF Calibrated
<1>7. \/ d.seen.text = y /\ d.prevValue = Kept(y)
      \/ d.seen = e.seen /\ d.prevValue = e.prevValue
         /\ (atof(x) + Offset) - atof(e.prevValue) \in -Hyst .. Hyst
  BY ReportCases
<1> HIDE DEF d, x, y, told
<1>8. CASE d.seen.text = y /\ d.prevValue = Kept(y)
  <2>1. Offset # 0 => Kept(y) = y
    BY <1>4, <1>5, KeptProperties
  <2>2. y # None => Near(y, y)
    BY <1>2, <1>3 DEF Near, Text
  <2>3. ToldOf(d)
    BY <1>8, <2>1, <2>2 DEF ToldOf, y
  <2> QED
    BY <2>3 DEF d
<1>9. CASE /\ d.seen = e.seen /\ d.prevValue = e.prevValue
           /\ (atof(x) + Offset) - atof(e.prevValue) \in -Hyst .. Hyst
  <2>1. y # None => Near(y, told)
    <3> SUFFICES ASSUME y # None
                 PROVE  Near(y, told)
      OBVIOUS
    <3> DEFINE n == atof(x) + Offset
               m == atof(Kept(told))
    <3>1. n \in Int /\ n \in Text /\ m \in Int /\ n - m \in -Hyst .. Hyst /\ y \in Int
      <4>1. m \in Int
        BY <1>2, KeptProperties, AtofTyped
      <4>2. m = atof(e.prevValue)
        BY DEF told
      <4> HIDE DEF m
      <4>3. n - m \in -Hyst .. Hyst
        BY <1>9, <4>2, Zenon
      <4>4. y \in Int
        BY <1>2 DEF Text
      <4> HIDE DEF n
      <4> QED
        BY <1>4, <4>1, <4>3, <4>4 DEF n
    <3>2. Offset = 0 => y = n
      BY <1>3, <1>4, <1>6 DEF atof
    <3>3. Offset # 0 => y = Kept(n)
      BY <1>5
    <3>4. /\ told = None => m = 0
          /\ told # None => m = Kept(told)
      BY <1>2, <1>3, KeptProperties DEF atof
    <3>5. Offset # 0 /\ told # None => m = told
      BY <1>3, <3>4 DEF told
    <3>6. /\ Kept(n) \in Int /\ Kept(n) - n \in -9 .. 9 /\ (n \in Short <=> Kept(n) \in Short)
          /\ n \in Short => Kept(n) = n
          /\ \A k \in Nat : n \in -k .. k => Kept(n) \in -k .. k
      BY <1>3, <3>1, KeptProperties
    <3>7. told # None => /\ told \in Int /\ Kept(told) - told \in -9 .. 9
                         /\ told \in Short => Kept(told) = told
      BY <1>2, KeptProperties
    <3> HIDE DEF n, m
    <3>8. CASE told = None
      <4>1. n \in -Hyst .. Hyst
        BY <1>3, <3>1, <3>4, <3>8
      <4>2. y \in -Hyst .. Hyst
        BY <1>3, <3>2, <3>3, <3>6, <4>1
      <4> QED
        BY <3>8, <4>2 DEF Near
    <3>9. CASE told # None /\ Offset = 0
      BY <1>3, <3>1, <3>2, <3>4, <3>7, <3>9 DEF Near
    <3>10. CASE told # None /\ Offset # 0
      BY <1>3, <3>1, <3>3, <3>5, <3>6, <3>7, <3>10 DEF Near
    <3> QED
      BY <3>8, <3>9, <3>10
  <2>2. ToldOf(d)
    BY <1>9, <2>1 DEF ToldOf, y, told
  <2> QED
    BY <2>2 DEF d
<1> QED
  BY <1>7, <1>8, <1>9

(* A report tells a state that has been checked in time.                    *)
LEMMA ReportQuiet ==
    ASSUME NEW e \in EndpointType, NEW clazz \in {"info", "event"}, NEW i, NEW ts, QuietOf(i, e, ts),
           ~e.forced /\ e.state = ON => e.since <= 2 * T + Late
    PROVE  QuietOf(i, Report(e, clazz), ts)
<1> DEFINE d == Report(e, clazz)
<1>1. /\ d.state = e.state /\ d.since = e.since /\ d.forced = e.forced
      /\ \/ d.seen.state = e.state /\ d.quiet = 0
         \/ d.seen = e.seen /\ d.quiet = e.quiet
  BY ReportCases
<1>2. e.since \in Nat /\ e.quiet \in Nat
  BY Times DEF EndpointType
<1> HIDE DEF d
<1>3. QuietOf(i, d, ts)
  BY <1>1, <1>2 DEF QuietOf
<1> QED
  BY <1>3 DEF d

-----------------------------------------------------------------------------
(***************************************************************************)
(* In time.                                                                *)
(***************************************************************************)

(* There is a timer for each purpose the .ini file asks for.                *)
LEMMA TimerFor ==
    ASSUME IInv, NEW f, NEW i, <<f, i>> \in KeysOf(ini)
    PROVE  \E k \in 1 .. Len(timers) :
              timers[k].func = f /\ timers[k].data = i /\ timers[k].due \in Int /\ timers[k].due >= -Late
<1>1. <<f, i>> \in Keys(timers)
  BY DEF IInv, Wired
<1>2. PICK k \in 1 .. Len(timers) : Key(timers[k]) = <<f, i>>
  BY <1>1 DEF Keys
<1>3. timers[k].func = f /\ timers[k].data = i
  BY <1>2 DEF Key
<1>4. timers[k] \in TimerType /\ timers[k].due \in -Late .. Interval(timers[k].func)
  <2>1. timers \in Seq(TimerType) /\ timers[k].due \in -Late .. Interval(timers[k].func)
    BY DEF IInv, TypeOK, TimerType
  <2> QED
    BY <2>1
<1>5. timers[k].func \in {"check", "info", "report"}
  BY <1>4 DEF TimerType
<1>6. Interval(timers[k].func) \in Nat /\ Late \in Nat
  BY <1>5, Intervals, Times
<1> QED
  BY <1>3, <1>4, <1>6

LEMMA EndpointHere ==
    ASSUME IInv, NEW i \in DOMAIN sensor
    PROVE  /\ sensor[i] \in EndpointType /\ i \in Range(list) /\ i \in Nat
           /\ sensor[i].romid \in Roms /\ sensor[i].since \in Nat /\ sensor[i].quiet \in Nat
           /\ <<"info", i>> \in KeysOf(ini)
           /\ ini.timeout => <<"check", i>> \in KeysOf(ini) /\ <<"report", None>> \in KeysOf(ini)
<1>1. ini \in Inis /\ sensor \in [Range(list) -> EndpointType] /\ list = Reverse(Valid(ini))
  BY DEF IInv, TypeOK, Wired, EndpointType
<1>2. Range(list) = Range(Valid(ini)) /\ Range(list) \subseteq Nat
  BY <1>1, ListOf
<1>3. sensor[i] \in EndpointType /\ i \in Range(list) /\ i \in Nat
  BY <1>1, <1>2
<1>4. sensor[i].romid \in Roms /\ sensor[i].since \in Nat /\ sensor[i].quiet \in Nat
  BY <1>3, Times DEF EndpointType
<1> QED
  BY <1>2, <1>3, <1>4 DEF KeysOf

(* A known sensor has been heard within two timeouts.                       *)
LEMMA CheckedInTime ==
    ASSUME IInv, ini.timeout, NEW i \in DOMAIN sensor, ~sensor[i].forced, sensor[i].state = ON
    PROVE  sensor[i].since <= 2 * T + Late
<1>1. sensor[i].since \in Nat /\ <<"check", i>> \in KeysOf(ini)
  BY EndpointHere
<1>2. PICK k \in 1 .. Len(timers) :
         timers[k].func = "check" /\ timers[k].data = i /\ timers[k].due \in Int /\ timers[k].due >= -Late
  BY <1>1, TimerFor
<1>3. sensor[i].since + timers[k].due <= 2 * T
  BY <1>2 DEF IInv, Quiet, QuietOf
<1> QED
  BY <1>1, <1>2, <1>3, Times

(* A sensor that stays connected is heard before it is checked.             *)
LEMMA AnsweredInTime ==
    ASSUME IInv, ini.timeout, NEW i \in DOMAIN sensor, sensor[i].steady
    PROVE  sensor[i].since <= T - MARGIN + Late + A /\ sensor[i].since <= T
<1> DEFINE o == owed[sensor[i].romid]
<1>1. sensor[i].since \in Nat /\ <<"report", None>> \in KeysOf(ini) /\ sensor[i].romid \in Roms
  BY EndpointHere
<1>2. o \in 0 .. A \cup {None} /\ AskedInTime(sensor[i], timers, o)
  BY <1>1 DEF IInv, TypeOK, Steady
<1> HIDE DEF o
<1>3. CASE o # None
  <2>1. o \in 0 .. A /\ sensor[i].since + o <= T - MARGIN + Late + A
    BY <1>2, <1>3 DEF AskedInTime
  <2>2. o \in Nat
    BY <2>1, Times
  <2> QED
    BY <1>1, <2>1, <2>2, Times
<1>4. CASE o = None
  <2>1. PICK k \in 1 .. Len(timers) :
           timers[k].func = "report" /\ timers[k].data = None /\ timers[k].due \in Int /\ timers[k].due >= -Late
    BY <1>1, TimerFor
  <2>2. sensor[i].since + timers[k].due <= T - MARGIN
    BY <1>2, <1>4, <2>1 DEF AskedInTime
  <2> DEFINE s == sensor[i].since
             n == timers[k].due
  <2>3. s \in Nat /\ n \in Int /\ n >= -Late /\ s + n <= T - MARGIN
    BY <1>1, <2>1, <2>2
  <2> HIDE DEF s, n
  <2>4. s <= (T - MARGIN) + Late /\ s <= T
    BY <2>3, Times
  <2>5. s <= T - MARGIN + Late + A
    BY <2>3, <2>4, Times
  <2> QED
    BY <2>4, <2>5 DEF s
<1> QED
  BY <1>3, <1>4

(* A report is due in time, whether or not there has just been one.         *)
LEMMA DueInTime ==
    ASSUME IInv, NEW i \in DOMAIN sensor, NEW q \in {0, sensor[i].quiet}
    PROVE  DueOf(i, q, timers)
<1> SUFFICES ASSUME NEW k \in 1 .. Len(timers), timers[k].data = i, timers[k].func = "info"
             PROVE  q + timers[k].due <= 2 * I - 1
  BY DEF DueOf
<1>1. timers[k].due \in Int /\ timers[k].due \in -Late .. I
  BY Intervals DEF IInv, TypeOK
<1>2. sensor[i].quiet + timers[k].due <= 2 * I - 1
  BY DEF IInv, Due, DueOf
<1> QED
  BY <1>1, <1>2, Times

(* The report of an endpoint is no further off than two of its intervals.   *)
LEMMA ToldInTime ==
    ASSUME IInv, NEW i \in DOMAIN sensor
    PROVE  sensor[i].quiet <= Untold
<1>1. sensor[i].quiet \in Nat /\ <<"info", i>> \in KeysOf(ini)
  BY EndpointHere
<1>2. PICK k \in 1 .. Len(timers) :
         timers[k].func = "info" /\ timers[k].data = i /\ timers[k].due \in Int /\ timers[k].due >= -Late
  BY <1>1, TimerFor
<1> DEFINE q == sensor[i].quiet
           n == timers[k].due
<1>3. q + n <= 2 * I - 1 /\ q \in Nat /\ n \in Int /\ n >= -Late
  BY <1>1, <1>2 DEF IInv, Due, DueOf
<1> HIDE DEF q, n
<1>4. q <= 2 * I - 1 + Late
  BY <1>3, Times
<1> QED
  BY <1>4 DEF Untold, q

-----------------------------------------------------------------------------
(***************************************************************************)
(* The steps.                                                              *)
(***************************************************************************)

LEMMA Now ==
    ASSUME IInv
    PROVE  /\ ini \in Inis /\ list \in Seq(Nat) /\ sensor \in [DOMAIN sensor -> EndpointType]
           /\ DOMAIN sensor = Range(list) /\ timers \in Seq(TimerType)
           /\ \A k \in 1 .. Len(timers) : /\ timers[k] \in TimerType /\ timers[k].due \in Int
                                          /\ timers[k].func \in {"check", "info", "report"}
                                          /\ timers[k].due \in -Late .. Interval(timers[k].func)
                                          /\ timers[k].func # "report" => timers[k].data \in DOMAIN sensor
           /\ unassigned \subseteq Roms /\ bus \subseteq Roms /\ owed \in [Roms -> 0 .. A \cup {None}]
           /\ \A r \in Roms : owed[r] # None => r \in bus
<1>1. /\ ini \in Inis /\ list \in Seq(Nat) /\ sensor \in [Range(list) -> EndpointType]
      /\ timers \in Seq(TimerType)
      /\ unassigned \subseteq Roms /\ bus \subseteq Roms /\ owed \in [Roms -> 0 .. A \cup {None}]
      /\ \A r \in Roms : owed[r] # None => r \in bus
  BY DEF IInv, TypeOK, EndpointType, TimerType
<1>2. ASSUME NEW k \in 1 .. Len(timers)
      PROVE  /\ timers[k] \in TimerType /\ timers[k].due \in Int
             /\ timers[k].func \in {"check", "info", "report"}
             /\ timers[k].due \in -Late .. Interval(timers[k].func)
             /\ timers[k].func # "report" => timers[k].data \in Range(list)
  <2>1. timers[k] \in TimerType /\ timers[k].due \in -Late .. Interval(timers[k].func)
    BY <1>1 DEF IInv, TypeOK
  <2>2. timers[k].func # "report" => timers[k].data \in Range(list)
    <3>1. Key(timers[k]) \in KeysOf(ini) /\ Range(Valid(ini)) = Range(list)
      BY <1>1, ListOf DEF IInv, Wired, Keys
    <3> QED
      BY <3>1 DEF KeysOf, Key
  <2> QED
    BY <2>1, <2>2 DEF TimerType
<1> QED
  BY <1>1, <1>2

(* A step about one endpoint, which may set one of its timers.              *)
LEMMA EndpointStep ==
    ASSUME IInv, UNCHANGED <<ini, list, filters, unassigned, bus, owed>>,
           NEW i \in DOMAIN sensor, NEW e \in EndpointType, sensor' = [sensor EXCEPT ![i] = e],
           e.romid = sensor[i].romid, e.since = sensor[i].since, e.steady = sensor[i].steady,
           timers' \in Seq(TimerType), Len(timers') = Len(timers),
           \A k \in 1 .. Len(timers) : /\ timers'[k].func = timers[k].func
                                       /\ timers'[k].data = timers[k].data
                                       /\ timers'[k].due \in -Late .. Interval(timers[k].func)
                                       /\ timers[k].data # i => timers'[k].due = timers[k].due,
           ToldOf(e), DueOf(i, e.quiet, timers'), ini.timeout => QuietOf(i, e, timers'),
           ini.timeout /\ e.steady /\ ~e.forced => e.state = ON
    PROVE  IInv'
<1>1. \A j \in DOMAIN sensor : sensor'[j] = IF j = i THEN e ELSE sensor[j]
  BY Now
<1>2. sensor' \in [DOMAIN sensor -> EndpointType] /\ \A j \in DOMAIN sensor : sensor'[j].romid = sensor[j].romid
  BY <1>1, Now
<1>3. \A j \in DOMAIN sensor : ToldOf(sensor'[j]) /\ DueOf(j, sensor'[j].quiet, timers')
  <2> SUFFICES ASSUME NEW j \in DOMAIN sensor, j # i
               PROVE  ToldOf(sensor[j]) /\ DueOf(j, sensor[j].quiet, timers')
    BY <1>1
  <2>1. ToldOf(sensor[j]) /\ DueOf(j, sensor[j].quiet, timers)
    BY DEF IInv, Told, Due
  <2> QED
    BY <2>1 DEF DueOf
<1>4. ini.timeout => \A j \in DOMAIN sensor : QuietOf(j, sensor'[j], timers')
  <2> SUFFICES ASSUME ini.timeout, NEW j \in DOMAIN sensor, j # i
               PROVE  QuietOf(j, sensor[j], timers')
    BY <1>1
  <2>1. QuietOf(j, sensor[j], timers)
    BY DEF IInv, Quiet
  <2>2. \A k \in 1 .. Len(timers) : timers'[k].data = j =>
           timers[k].data = j /\ timers'[k].due = timers[k].due /\ timers'[k].func = timers[k].func
    OBVIOUS
  <2> QED
    BY <2>1, <2>2 DEF QuietOf
<1>5. \A k \in 1 .. Len(timers) : timers[k].func = "report" => timers[k].data # i
  <2> SUFFICES ASSUME NEW k \in 1 .. Len(timers), timers[k].func = "report"
               PROVE  timers[k].data # i
    OBVIOUS
  <2>1. Key(timers[k]) \in KeysOf(ini) /\ Key(timers[k]) = <<"report", timers[k].data>>
    BY DEF IInv, Wired, Keys, Key
  <2>2. timers[k].data = None
    BY <2>1 DEF KeysOf
  <2> QED
    <3>1. i \in Nat
      BY EndpointHere
    <3> QED
      BY <2>2, <3>1, ReadingAssumption
<1>6. ASSUME NEW j \in DOMAIN sensor, sensor'[j].steady
      PROVE  /\ sensor'[j].romid \in bus' /\ list[findROMID(sensor'[j].romid)] = j
             /\ ini.timeout /\ ~sensor'[j].forced => sensor'[j].state = ON
             /\ AskedInTime(sensor'[j], timers', owed'[sensor'[j].romid])
  <2>1. /\ sensor[j].steady /\ sensor'[j].romid = sensor[j].romid /\ sensor'[j].since = sensor[j].since
    BY <1>1, <1>6
  <2>2. /\ sensor[j].romid \in bus /\ list[findROMID(sensor[j].romid)] = j
        /\ ini.timeout /\ ~sensor[j].forced => sensor[j].state = ON
        /\ AskedInTime(sensor[j], timers, owed[sensor[j].romid])
    BY <2>1 DEF IInv, Steady
  <2>3. AskedInTime(sensor'[j], timers', owed'[sensor'[j].romid])
    <3>1. \A k \in 1 .. Len(timers) : timers'[k].func = "report" =>
             timers[k].func = "report" /\ timers'[k].due = timers[k].due
      BY <1>5
    <3> QED
      BY <2>1, <2>2, <3>1 DEF AskedInTime
  <2> QED
    BY <1>1, <1>6, <2>1, <2>2, <2>3
<1>7. \A j \in Range(list) : sensor[j].romid \notin unassigned
  BY DEF IInv, OfferedAreFree
<1>8. /\ unassigned' \subseteq Roms /\ bus' \subseteq Roms /\ owed' \in [Roms -> 0 .. A \cup {None}]
      /\ \A r \in Roms : owed'[r] # None => r \in bus'
  BY Now
<1> QED
  BY <1>2, <1>3, <1>4, <1>6, <1>7, <1>8, StepKeeps

(* A query, and the web interface.                                          *)
LEMMA AskedSteps ==
    ASSUME IInv, NEW i \in DOMAIN sensor,
           bscIncomingQuery(i) \/ \E s \in {OFF, ON, UNKNOWN} : msg_action(i, s)
    PROVE  IInv'
<1>1. UNCHANGED <<ini, list, filters, timers, unassigned, bus, owed>>
  BY DEF bscIncomingQuery, msg_action
<1>2. sensor[i] \in EndpointType
  BY EndpointHere
<1>3. /\ timers' \in Seq(TimerType) /\ Len(timers') = Len(timers)
      /\ \A k \in 1 .. Len(timers) : /\ timers'[k].func = timers[k].func
                                     /\ timers'[k].data = timers[k].data
                                     /\ timers'[k].due \in -Late .. Interval(timers[k].func)
                                     /\ timers[k].data # i => timers'[k].due = timers[k].due
  BY <1>1, Now
<1>4. /\ sensor[i].prevValue = Kept(sensor[i].seen.text)
      /\ Offset # 0 => sensor[i].prevValue = sensor[i].seen.text
      /\ ini.timeout => QuietOf(i, sensor[i], timers)
      /\ ini.timeout /\ sensor[i].steady /\ ~sensor[i].forced => sensor[i].state = ON
  BY DEF IInv, Told, ToldOf, Quiet, Steady
<1>5. CASE bscIncomingQuery(i)
  <2> DEFINE e == Report(sensor[i], "info")
  <2>1. sensor' = [sensor EXCEPT ![i] = e]
    BY <1>5 DEF bscIncomingQuery
  <2>2. /\ e \in EndpointType /\ e.romid = sensor[i].romid /\ e.since = sensor[i].since
        /\ e.steady = sensor[i].steady /\ e.forced = sensor[i].forced /\ e.state = sensor[i].state
        /\ e.quiet \in {0, sensor[i].quiet}
    BY <1>2, ReportCases
  <2>3. ToldOf(e)
    BY <1>2, <1>4, ReportTold
  <2>4. ini.timeout => QuietOf(i, e, timers')
    BY <1>1, <1>2, <1>4, ReportQuiet, CheckedInTime
  <2> HIDE DEF e
  <2>5. DueOf(i, e.quiet, timers')
    BY <1>1, <2>2, DueInTime
  <2> QED
    BY <1>1, <1>3, <1>4, <2>1, <2>2, <2>3, <2>4, <2>5, EndpointStep
<1>6. CASE \E s \in {OFF, ON, UNKNOWN} : msg_action(i, s)
  <2>1. PICK s \in State : msg_action(i, s)
    BY <1>6 DEF State
  <2> DEFINE d == [sensor[i] EXCEPT !.state = s, !.forced = TRUE]
             e == Report(d, "event")
  <2>2. sensor' = [sensor EXCEPT ![i] = e]
    BY <2>1 DEF msg_action
  <2>3. /\ d \in EndpointType /\ d.romid = sensor[i].romid /\ d.since = sensor[i].since
        /\ d.steady = sensor[i].steady /\ d.forced /\ d.prevValue = sensor[i].prevValue
        /\ d.seen = sensor[i].seen /\ d.quiet = sensor[i].quiet
    BY <1>2 DEF EndpointType
  <2> HIDE DEF d
  <2>4. /\ e \in EndpointType /\ e.romid = sensor[i].romid /\ e.since = sensor[i].since
        /\ e.steady = sensor[i].steady /\ e.forced /\ e.quiet \in {0, sensor[i].quiet}
    BY <2>3, ReportCases
  <2>5. ToldOf(e)
    BY <1>4, <2>3, ReportTold
  <2> HIDE DEF e
  <2>6. ini.timeout => QuietOf(i, e, timers')
    BY <2>4 DEF QuietOf
  <2>7. DueOf(i, e.quiet, timers')
    BY <1>1, <2>4, DueInTime
  <2> QED
    BY <1>1, <1>3, <2>2, <2>4, <2>5, <2>6, <2>7, EndpointStep
<1> QED
  BY <1>5, <1>6

(* A timer that is served is set for its next time, counted from the start  *)
(* of the walk.                                                             *)
LEMMA FireSets ==
    ASSUME IInv, NEW k \in DOMAIN timers, NEW f \in {"check", "info", "report"}, NEW lag \in 0 .. L,
           Fire(k, f, lag)
    PROVE  /\ k \in 1 .. Len(timers) /\ timers[k].func = f
           /\ timers' \in Seq(TimerType) /\ Len(timers') = Len(timers)
           /\ \A j \in 1 .. Len(timers) : /\ timers'[j].func = timers[j].func
                                          /\ timers'[j].data = timers[j].data
                                          /\ timers'[j].due \in -Late .. Interval(timers[j].func)
                                          /\ j # k => timers'[j].due = timers[j].due
           /\ timers'[k].due \in Int /\ timers'[k].due <= Interval(f)
           /\ UNCHANGED <<ini, list, filters, unassigned, bus>>
<1> DEFINE new == Interval(f) - lag
           d == [timers[k] EXCEPT !.due = new]
<1>1. /\ timers[k].func = f /\ timers[k].due + lag <= 0 /\ UNCHANGED <<ini, list, filters, unassigned, bus>>
      /\ timers' = [timers EXCEPT ![k] = d]
  BY DEF Fire
<1>2. timers \in Seq(TimerType) /\ k \in 1 .. Len(timers) /\ Len(timers) \in Nat /\ DOMAIN timers = 1 .. Len(timers)
  BY Now
<1>3. timers[k] \in TimerType /\ timers[k].due \in -Late .. Interval(f) /\ timers[k].due \in Int
  BY <1>1, <1>2, Now
<1>4. Interval(f) \in Nat /\ Interval(f) > 0 /\ Late \in Nat /\ L \in Nat
  BY Intervals, Times
<1>5. lag \in Nat /\ lag <= Late
  BY <1>1, <1>3, <1>4
<1>6. new \in Int /\ new \in -Late .. Interval(f) /\ new <= Interval(f)
  BY <1>4, <1>5
<1> HIDE DEF new
<1>7. d \in TimerType /\ d.func = timers[k].func /\ d.data = timers[k].data /\ d.due = new
  BY <1>3, <1>6 DEF TimerType
<1> HIDE DEF d
<1>8. timers' \in Seq(TimerType) /\ Len(timers') = Len(timers)
  BY <1>1, <1>2, <1>7
<1>9. \A j \in 1 .. Len(timers) : timers'[j] = IF j = k THEN d ELSE timers[j]
  BY <1>1, <1>2
<1>10. \A j \in 1 .. Len(timers) : timers[j].due \in -Late .. Interval(timers[j].func)
  BY Now
<1> QED
  BY <1>1, <1>2, <1>6, <1>7, <1>8, <1>9, <1>10

(* The timer that reports an endpoint.                                      *)
LEMMA InfoStep ==
    ASSUME IInv, NEW k \in DOMAIN timers, NEW lag \in 0 .. L, bscInfoTimeout(k, lag)
    PROVE  IInv'
<1> DEFINE i == timers[k].data
           old == sensor[i]
           d == Report(old, "info")
           e == IF ~old.reported \/ old.quiet >= I THEN d ELSE old
<1>1. Fire(k, "info", lag) /\ owed' = owed
  BY DEF bscInfoTimeout
<1>2. /\ k \in 1 .. Len(timers) /\ timers[k].func = "info"
      /\ timers' \in Seq(TimerType) /\ Len(timers') = Len(timers)
      /\ \A j \in 1 .. Len(timers) : /\ timers'[j].func = timers[j].func
                                     /\ timers'[j].data = timers[j].data
                                     /\ timers'[j].due \in -Late .. Interval(timers[j].func)
                                     /\ j # k => timers'[j].due = timers[j].due
      /\ timers'[k].due \in Int /\ timers'[k].due <= I
      /\ UNCHANGED <<ini, list, filters, unassigned, bus>>
  BY <1>1, FireSets, Intervals
<1>3. i \in DOMAIN sensor
  BY <1>2, Now
<1>4. old \in EndpointType /\ old.quiet \in Nat /\ old.since \in Nat /\ sensor \in [DOMAIN sensor -> EndpointType]
  BY <1>3, EndpointHere, Now
<1>5. sensor' = [sensor EXCEPT ![i] = e]
  BY <1>3, <1>4 DEF bscInfoTimeout
<1>6. /\ d \in EndpointType /\ d.romid = old.romid /\ d.since = old.since /\ d.steady = old.steady
      /\ d.forced = old.forced /\ d.state = old.state /\ d.quiet = 0 /\ d.seen.state = old.state
  BY <1>4, ReportCases
<1>7. /\ ToldOf(old) /\ old.prevValue = Kept(old.seen.text)
      /\ (Offset # 0 => old.prevValue = old.seen.text) /\ (ini.timeout => QuietOf(i, old, timers))
      /\ ini.timeout /\ old.steady /\ ~old.forced => old.state = ON
  BY <1>3 DEF IInv, Told, ToldOf, Quiet, Steady
<1>8. ToldOf(d)
  BY <1>4, <1>7, ReportTold
<1>9. ini.timeout /\ ~old.forced /\ old.state = ON => old.since <= 2 * T + Late
  BY <1>3, CheckedInTime
<1>10. I \in Nat /\ I > 0 /\ T \in Nat /\ Late \in Nat
  BY Times
<1> HIDE DEF i, old, d
<1>11. /\ e \in EndpointType /\ e.romid = old.romid /\ e.since = old.since /\ e.steady = old.steady
       /\ e.forced = old.forced /\ e.state = old.state /\ ToldOf(e)
       /\ \/ e.quiet = 0 /\ e.seen.state = old.state
          \/ e.quiet = old.quiet /\ e.seen = old.seen /\ old.quiet < I
  BY <1>4, <1>6, <1>7, <1>8, <1>10
<1> HIDE DEF e
<1>12. ini.timeout => QuietOf(i, e, timers')
  <2> SUFFICES ASSUME ini.timeout, ~e.forced
               PROVE  QuietOf(i, e, timers')
    BY DEF QuietOf
  <2>1. ~old.forced /\ QuietOf(i, old, timers)
    BY <1>7, <1>11
  <2>2. e.seen.state = ON => e.since - e.quiet <= 2 * T + Late
    BY <1>4, <1>9, <1>10, <1>11, <2>1 DEF QuietOf
  <2>3. \A j \in 1 .. Len(timers) : timers'[j].func = "check" => j # k /\ timers'[j].due = timers[j].due
    BY <1>2
  <2>4. \A j \in 1 .. Len(timers) : timers'[j].data = i /\ e.state = ON /\ timers'[j].func = "check"
                                       => e.since + timers'[j].due <= 2 * T
    BY <1>2, <1>11, <2>1, <2>3 DEF QuietOf
  <2> QED
    BY <1>2, <2>2, <2>4 DEF QuietOf
<1>13. DueOf(i, e.quiet, timers')
  <2> SUFFICES ASSUME NEW j \in 1 .. Len(timers), timers'[j].data = i, timers'[j].func = "info"
               PROVE  e.quiet + timers'[j].due <= 2 * I - 1
    BY <1>2 DEF DueOf
  <2>1. j = k
    <3>1. Key(timers[j]) = Key(timers[k])
      BY <1>2 DEF Key, i
    <3> QED
      BY <1>2, <3>1 DEF IInv, Wired, Unique
  <2>2. e.quiet \in Nat /\ e.quiet <= I - 1
    BY <1>4, <1>10, <1>11
  <2> QED
    BY <1>2, <1>10, <2>1, <2>2
<1>14. \A j \in 1 .. Len(timers) : timers[j].data # i => timers'[j].due = timers[j].due
  BY <1>2 DEF i
<1>15. e.romid = sensor[i].romid /\ e.since = sensor[i].since /\ e.steady = sensor[i].steady
  BY <1>11 DEF old
<1>16. ini.timeout /\ e.steady /\ ~e.forced => e.state = ON
  BY <1>7, <1>11
<1> QED
  BY <1>1, <1>2, <1>3, <1>5, <1>11, <1>12, <1>14, <1>15, <1>16, <1>13, EndpointStep

(* The timer that checks an endpoint: a sensor that stays connected has     *)
(* been heard.                                                              *)
LEMMA CheckStep ==
    ASSUME IInv, NEW k \in DOMAIN timers, NEW lag \in 0 .. L, timeoutCheck1wire(k, lag)
    PROVE  IInv'
<1> DEFINE i == timers[k].data
           old == sensor[i]
           d == [old EXCEPT !.state = UNKNOWN, !.text = None]
           e == IF Overdue(old) THEN d ELSE old
<1>1. Fire(k, "check", lag) /\ owed' = owed
  BY DEF timeoutCheck1wire
<1>2. /\ k \in 1 .. Len(timers) /\ timers[k].func = "check"
      /\ timers' \in Seq(TimerType) /\ Len(timers') = Len(timers)
      /\ \A j \in 1 .. Len(timers) : /\ timers'[j].func = timers[j].func
                                     /\ timers'[j].data = timers[j].data
                                     /\ timers'[j].due \in -Late .. Interval(timers[j].func)
                                     /\ j # k => timers'[j].due = timers[j].due
      /\ timers'[k].due \in Int /\ timers'[k].due <= T
      /\ UNCHANGED <<ini, list, filters, unassigned, bus>>
  BY <1>1, FireSets, Intervals
<1>3. i \in DOMAIN sensor
  BY <1>2, Now
<1>4. old \in EndpointType /\ old.since \in Nat /\ sensor \in [DOMAIN sensor -> EndpointType]
  BY <1>3, EndpointHere, Now
<1>5. sensor' = [sensor EXCEPT ![i] = e]
  BY <1>3, <1>4 DEF timeoutCheck1wire
<1>6. /\ d \in EndpointType /\ d.romid = old.romid /\ d.since = old.since /\ d.steady = old.steady
      /\ d.forced = old.forced /\ d.state = UNKNOWN /\ d.quiet = old.quiet /\ d.seen = old.seen
      /\ d.prevValue = old.prevValue /\ d.text = None
  BY <1>4 DEF EndpointType, State, Text
<1>7. /\ ToldOf(old) /\ (ini.timeout => QuietOf(i, old, timers))
      /\ ini.timeout /\ old.steady /\ ~old.forced => old.state = ON
  BY <1>3 DEF IInv, Told, Quiet, Steady
<1>8. ini.timeout /\ old.steady => old.since <= T
  BY <1>3, AnsweredInTime
<1>9. T \in Nat /\ UNKNOWN # ON
  BY Times DEF UNKNOWN, ON
<1> HIDE DEF i, old, d
<1>10. ToldOf(d)
  BY <1>6, <1>7, <1>9 DEF ToldOf
<1>11. /\ e \in EndpointType /\ e.romid = old.romid /\ e.since = old.since /\ e.steady = old.steady
       /\ e.forced = old.forced /\ ToldOf(e) /\ e.quiet = old.quiet /\ e.seen = old.seen
       /\ e.state = ON => old.state = ON /\ old.since <= T
  BY <1>4, <1>6, <1>7, <1>9, <1>10 DEF Overdue
<1>12. ini.timeout /\ e.steady /\ ~e.forced => e.state = ON
  BY <1>4, <1>6, <1>7, <1>8, <1>9 DEF Overdue
<1> HIDE DEF e
<1>13. ini.timeout => QuietOf(i, e, timers')
  <2> SUFFICES ASSUME ini.timeout, ~e.forced
               PROVE  QuietOf(i, e, timers')
    BY DEF QuietOf
  <2>1. ~old.forced /\ QuietOf(i, old, timers)
    BY <1>7, <1>11
  <2>2. e.seen.state = ON => e.since - e.quiet <= 2 * T + Late
    BY <1>11, <2>1 DEF QuietOf
  <2>3. ASSUME NEW j \in 1 .. Len(timers), timers'[j].data = i, e.state = ON, timers'[j].func = "check"
        PROVE  e.since + timers'[j].due <= 2 * T
    <3>1. CASE j = k
      BY <1>2, <1>4, <1>9, <1>11, <2>3, <3>1
    <3>2. CASE j # k
      BY <1>2, <1>11, <2>1, <2>3, <3>2 DEF QuietOf
    <3> QED
      BY <3>1, <3>2
  <2> QED
    BY <1>2, <2>2, <2>3 DEF QuietOf
<1>14. DueOf(i, e.quiet, timers')
  <2>1. DueOf(i, e.quiet, timers)
    BY <1>3, <1>11 DEF IInv, Due, old
  <2>2. \A j \in 1 .. Len(timers) : timers'[j].func = "info" => j # k /\ timers'[j].due = timers[j].due
    BY <1>2
  <2> QED
    BY <1>2, <2>1, <2>2 DEF DueOf
<1>15. \A j \in 1 .. Len(timers) : timers[j].data # i => timers'[j].due = timers[j].due
  BY <1>2 DEF i
<1>16. e.romid = sensor[i].romid /\ e.since = sensor[i].since /\ e.steady = sensor[i].steady
  BY <1>11 DEF old
<1> QED
  BY <1>1, <1>2, <1>3, <1>5, <1>11, <1>12, <1>13, <1>15, <1>16, <1>14, EndpointStep

(* The timer that asks the board.                                           *)
LEMMA ReportStep ==
    ASSUME IInv, NEW k \in DOMAIN timers, NEW lag \in 0 .. L, timeoutReport1wire(k, lag)
    PROVE  IInv'
<1>1. Fire(k, "report", lag) /\ owed' = Asked /\ sensor' = sensor
  BY DEF timeoutReport1wire
<1>2. /\ k \in 1 .. Len(timers) /\ timers[k].func = "report"
      /\ timers' \in Seq(TimerType) /\ Len(timers') = Len(timers)
      /\ \A j \in 1 .. Len(timers) : /\ timers'[j].func = timers[j].func
                                     /\ timers'[j].data = timers[j].data
                                     /\ timers'[j].due \in -Late .. Interval(timers[j].func)
                                     /\ j # k => timers'[j].due = timers[j].due
      /\ UNCHANGED <<ini, list, filters, unassigned, bus>>
  BY <1>1, FireSets
<1>3. timers[k].due \in Int /\ timers[k].due >= -Late /\ A \in Nat /\ Late \in Nat /\ T \in Nat /\ MARGIN \in Nat
  <2>1. timers[k].due \in -Late .. Interval(timers[k].func) /\ timers[k].due \in Int
    BY <1>2, Now
  <2>2. Interval("report") \in Nat
    BY Intervals
  <2> QED
    BY <1>2, <2>1, <2>2, Times
<1>4. \A r \in Roms : owed'[r] = IF r \in bus /\ owed[r] = None THEN A ELSE owed[r]
  BY <1>1 DEF Asked
<1>5. owed' \in [Roms -> 0 .. A \cup {None}] /\ \A r \in Roms : owed'[r] # None => r \in bus'
  <2>1. A \in 0 .. A
    BY <1>3
  <2> QED
    BY <1>1, <1>2, <1>4, <2>1, Now DEF Asked
<1>6. ini.timeout => \A i \in DOMAIN sensor : QuietOf(i, sensor'[i], timers')
  <2> SUFFICES ASSUME ini.timeout, NEW i \in DOMAIN sensor
               PROVE  QuietOf(i, sensor[i], timers')
    BY <1>1
  <2>1. QuietOf(i, sensor[i], timers)
    BY DEF IInv, Quiet
  <2>2. \A j \in 1 .. Len(timers) : timers'[j].func # "report" =>
           timers[j].data = timers'[j].data /\ timers'[j].due = timers[j].due /\ timers'[j].func = timers[j].func
    BY <1>2
  <2> QED
    BY <1>2, <2>1, <2>2 DEF QuietOf
<1>7. ASSUME NEW i \in DOMAIN sensor, sensor'[i].steady
      PROVE  /\ sensor'[i].romid \in bus' /\ list[findROMID(sensor'[i].romid)] = i
             /\ ini.timeout /\ ~sensor'[i].forced => sensor'[i].state = ON
             /\ AskedInTime(sensor'[i], timers', owed'[sensor'[i].romid])
  <2> DEFINE e == sensor[i]
             r == e.romid
  <2>1. /\ r \in bus /\ list[findROMID(r)] = i /\ AskedInTime(e, timers, owed[r])
        /\ ini.timeout /\ ~e.forced => e.state = ON
    BY <1>1, <1>7 DEF IInv, Steady
  <2>2. e.since \in Nat /\ r \in Roms
    BY EndpointHere
  <2>3. owed[r] = None => e.since + timers[k].due <= T - MARGIN
    BY <1>2, <2>1 DEF AskedInTime
  <2>4. owed[r] # None => e.since + owed[r] <= T - MARGIN + Late + A
    BY <2>1 DEF AskedInTime
  <2>5. owed'[r] # None /\ owed'[r] = IF owed[r] = None THEN A ELSE owed[r]
    BY <1>3, <1>4, <2>1, <2>2, ReadingAssumption
  <2> HIDE DEF e, r
  <2>6. e.since + owed'[r] <= T - MARGIN + Late + A
    BY <1>3, <2>2, <2>3, <2>4, <2>5
  <2>7. AskedInTime(e, timers', owed'[r])
    BY <2>5, <2>6 DEF AskedInTime
  <2> QED
    BY <1>1, <1>2, <2>1, <2>7 DEF e, r
<1>8. ASSUME NEW i \in DOMAIN sensor
      PROVE  DueOf(i, sensor'[i].quiet, timers')
  <2>1. DueOf(i, sensor'[i].quiet, timers)
    BY <1>1 DEF IInv, Due
  <2>2. \A j \in 1 .. Len(timers) : timers'[j].func = "info" => j # k /\ timers'[j].due = timers[j].due
    BY <1>2
  <2> QED
    BY <1>2, <2>1, <2>2 DEF DueOf
<1>9. /\ \A i \in DOMAIN sensor : ToldOf(sensor'[i]) /\ sensor'[i].romid = sensor[i].romid
      /\ \A i \in Range(list) : sensor[i].romid \notin unassigned'
      /\ sensor' \in [DOMAIN sensor -> EndpointType] /\ unassigned' \subseteq Roms /\ bus' \subseteq Roms
  BY <1>1, <1>2, Now DEF IInv, Told, OfferedAreFree
<1> QED
  BY <1>2, <1>5, <1>6, <1>7, <1>9, <1>8, StepKeeps

(* A sensor is connected or disconnected.                                   *)
LEMMA PlugStep ==
    ASSUME IInv, NEW r \in Roms, Plug(r)
    PROVE  IInv'
<1>1. /\ bus' = IF r \in bus THEN bus \ {r} ELSE bus \cup {r}
      /\ owed' = [owed EXCEPT ![r] = None]
      /\ UNCHANGED <<ini, list, filters, timers, unassigned>>
  BY DEF Plug
<1>2. \A i \in DOMAIN sensor : sensor[i] \in EndpointType
  BY Now
<1>3. /\ DOMAIN sensor' = DOMAIN sensor
      /\ \A i \in DOMAIN sensor : sensor'[i] = [sensor[i] EXCEPT !.steady = sensor[i].steady /\ sensor[i].romid # r]
  BY DEF Plug
<1>4. ASSUME NEW i \in DOMAIN sensor
      PROVE  LET e == sensor'[i] IN
             /\ e \in EndpointType /\ e.romid = sensor[i].romid /\ e.since = sensor[i].since
             /\ e.forced = sensor[i].forced /\ e.state = sensor[i].state /\ e.quiet = sensor[i].quiet
             /\ e.seen = sensor[i].seen /\ e.text = sensor[i].text /\ e.prevValue = sensor[i].prevValue
             /\ e.reported = sensor[i].reported
             /\ e.steady = (sensor[i].steady /\ sensor[i].romid # r)
  <2> DEFINE old == sensor[i]
             b == old.steady /\ old.romid # r
             e == [old EXCEPT !.steady = b]
  <2>1. old \in EndpointType /\ b \in BOOLEAN /\ sensor'[i] = e
    BY <1>2, <1>3
  <2> HIDE DEF old, b
  <2>2. e \in EndpointType
    BY <2>1 DEF EndpointType
  <2>3. /\ e.romid = old.romid /\ e.since = old.since /\ e.forced = old.forced /\ e.state = old.state
        /\ e.quiet = old.quiet /\ e.seen = old.seen /\ e.text = old.text /\ e.prevValue = old.prevValue
        /\ e.reported = old.reported /\ e.steady = b
    BY <2>1 DEF EndpointType
  <2> HIDE DEF e
  <2> QED
    BY <2>1, <2>2, <2>3 DEF old, b
<1>5. sensor' \in [DOMAIN sensor -> EndpointType]
  BY <1>3, <1>4 DEF Plug
<1>6. owed' \in [Roms -> 0 .. A \cup {None}] /\ \A q \in Roms : owed'[q] = IF q = r THEN None ELSE owed[q]
  BY <1>1, Now
<1>7. \A q \in Roms : owed'[q] # None => q \in bus'
  BY <1>1, <1>6, Now
<1>8. \A i \in DOMAIN sensor : ToldOf(sensor'[i]) /\ DueOf(i, sensor'[i].quiet, timers')
  BY <1>1, <1>4 DEF IInv, Told, ToldOf, Due
<1>9. ini.timeout => \A i \in DOMAIN sensor : QuietOf(i, sensor'[i], timers')
  BY <1>1, <1>4 DEF IInv, Quiet, QuietOf
<1>10. ASSUME NEW i \in DOMAIN sensor, sensor'[i].steady
       PROVE  /\ sensor'[i].romid \in bus' /\ list[findROMID(sensor'[i].romid)] = i
              /\ ini.timeout /\ ~sensor'[i].forced => sensor'[i].state = ON
              /\ AskedInTime(sensor'[i], timers', owed'[sensor'[i].romid])
  <2>1. /\ sensor[i].steady /\ sensor[i].romid # r /\ sensor'[i].romid = sensor[i].romid
        /\ sensor'[i].since = sensor[i].since /\ sensor'[i].forced = sensor[i].forced
        /\ sensor'[i].state = sensor[i].state
    BY <1>4, <1>10
  <2>2. /\ sensor[i].romid \in bus /\ list[findROMID(sensor[i].romid)] = i
        /\ AskedInTime(sensor[i], timers, owed[sensor[i].romid])
        /\ ini.timeout /\ ~sensor[i].forced => sensor[i].state = ON
    BY <2>1 DEF IInv, Steady
  <2>3. sensor[i].romid \in Roms
    BY EndpointHere
  <2>4. sensor[i].romid \in bus' /\ owed'[sensor[i].romid] = owed[sensor[i].romid]
    BY <1>1, <1>6, <2>1, <2>2, <2>3
  <2>5. AskedInTime(sensor'[i], timers', owed'[sensor'[i].romid])
    BY <1>1, <2>1, <2>2, <2>4 DEF AskedInTime
  <2> QED
    BY <2>1, <2>2, <2>4, <2>5
<1>11. /\ timers' \in Seq(TimerType) /\ Len(timers') = Len(timers)
       /\ \A j \in 1 .. Len(timers) : /\ timers'[j].func = timers[j].func
                                      /\ timers'[j].data = timers[j].data
                                      /\ timers'[j].due \in -Late .. Interval(timers[j].func)
  BY <1>1, Now
<1>12. /\ \A i \in DOMAIN sensor : sensor'[i].romid = sensor[i].romid
       /\ \A i \in Range(list) : sensor[i].romid \notin unassigned'
       /\ unassigned' \subseteq Roms /\ bus' \subseteq Roms
  BY <1>1, <1>4, Now DEF IInv, OfferedAreFree
<1> QED
  BY <1>1, <1>5, <1>6, <1>7, <1>8, <1>9, <1>10, <1>11, <1>12, StepKeeps

(* The endpoint that a reading goes to.                                     *)
LEMMA FindROMIDProperties ==
    ASSUME IInv, NEW r
    PROVE  \/ findROMID(r) = 0 /\ \A i \in DOMAIN sensor : sensor[i].romid # r
           \/ /\ findROMID(r) \in 1 .. Len(list) /\ list[findROMID(r)] \in DOMAIN sensor
              /\ sensor[list[findROMID(r)]].romid = r
<1> DEFINE N == {k \in 1 .. Len(list) : sensor[list[k]].romid = r}
<1>1. findROMID(r) = IF N # {} THEN Min(N) ELSE 0
  BY DEF findROMID, SelectInSeq
<1>2. list \in Seq(Nat) /\ DOMAIN sensor = Range(list)
  BY Now
<1>3. \A k \in 1 .. Len(list) : list[k] \in DOMAIN sensor
  BY <1>2 DEF Range
<1>4. CASE N = {}
  <2>1. \A i \in DOMAIN sensor : \E k \in 1 .. Len(list) : i = list[k]
    BY <1>2 DEF Range
  <2> QED
    BY <1>1, <1>4, <2>1
<1>5. CASE N # {}
  <2>1. N \in SUBSET Nat
    OBVIOUS
  <2> HIDE DEF N
  <2>2. findROMID(r) \in N
    BY <1>1, <1>5, <2>1, MinProperties
  <2>3. findROMID(r) \in 1 .. Len(list) /\ sensor[list[findROMID(r)]].romid = r
    BY <2>2 DEF N
  <2> QED
    BY <1>3, <2>3
<1> QED
  BY <1>4, <1>5

(* A sensor that has just been heard.                                       *)
LEMMA HeardProperties ==
    ASSUME IInv, NEW i \in DOMAIN sensor, NEW v \in Readings
    PROVE  LET e == Heard(sensor[i], v) IN
           /\ e \in EndpointType /\ e.romid = sensor[i].romid /\ e.since = 0 /\ e.state = ON
           /\ ~e.forced /\ ToldOf(e) /\ DueOf(i, e.quiet, timers) /\ QuietOf(i, e, timers)
           /\ AskedInTime(e, timers, None)
<1> DEFINE old == sensor[i]
           c == [old EXCEPT !.state = ON, !.text = v, !.forced = FALSE, !.steady = TRUE]
           d == Report(c, "event")
           e == [d EXCEPT !.since = 0]
<1>1. /\ old \in EndpointType /\ old.prevValue = Kept(old.seen.text)
      /\ Offset # 0 => old.prevValue = old.seen.text
  BY EndpointHere DEF IInv, Told, ToldOf
<1>2. v \in Text /\ ON \in State /\ 0 \in 0 .. NEVER
  BY ReadingAssumption, Times DEF Text, State, NEVER
<1>3. Heard(old, v) = e
  BY DEF Heard
<1> HIDE DEF old
<1>4. c \in EndpointType
  BY <1>1, <1>2 DEF EndpointType
<1>5. /\ c.romid = old.romid /\ c.state = ON /\ ~c.forced /\ c.seen = old.seen
      /\ c.prevValue = old.prevValue /\ c.quiet = old.quiet
  BY <1>1 DEF EndpointType
<1> HIDE DEF c
<1>6. /\ d \in EndpointType /\ d.romid = old.romid /\ d.state = ON /\ ~d.forced
      /\ d.quiet \in {0, old.quiet}
  BY <1>4, <1>5, ReportCases
<1>7. ToldOf(d)
  BY <1>1, <1>4, <1>5, ReportTold
<1> HIDE DEF d
<1>8. e \in EndpointType
  BY <1>2, <1>6 DEF EndpointType
<1>9. /\ e.romid = old.romid /\ e.state = ON /\ ~e.forced /\ e.since = 0 /\ e.seen = d.seen
      /\ e.prevValue = d.prevValue /\ e.text = d.text /\ e.reported = d.reported
      /\ e.quiet = d.quiet
  BY <1>6 DEF EndpointType
<1> HIDE DEF e
<1>10. ToldOf(e)
  BY <1>7, <1>9 DEF ToldOf
<1>11. e.quiet \in Nat
  BY <1>8, Times DEF EndpointType
<1>12. \A k \in 1 .. Len(timers) : /\ timers[k].due \in Int /\ timers[k].due <= Interval(timers[k].func)
                                   /\ timers[k].func \in {"check", "info", "report"}
  <2> SUFFICES ASSUME NEW k \in 1 .. Len(timers)
               PROVE  /\ timers[k].due \in Int /\ timers[k].due <= Interval(timers[k].func)
                      /\ timers[k].func \in {"check", "info", "report"}
    OBVIOUS
  <2>1. /\ timers[k].due \in Int /\ timers[k].due \in -Late .. Interval(timers[k].func)
        /\ timers[k].func \in {"check", "info", "report"}
    BY Now
  <2>2. Interval(timers[k].func) \in Nat /\ Late \in Nat
    BY <2>1, Intervals, Times
  <2> QED
    BY <2>1, <2>2
<1>13. QuietOf(i, e, timers)
  <2>1. e.since - e.quiet <= 2 * T + Late
    BY <1>9, <1>11, Times
  <2>2. \A k \in 1 .. Len(timers) : timers[k].func = "check" => e.since + timers[k].due <= 2 * T
    BY <1>9, <1>12, Intervals, Times
  <2> QED
    BY <2>1, <2>2 DEF QuietOf
<1>14. AskedInTime(e, timers, None)
  BY <1>9, <1>12, Intervals, Times DEF AskedInTime
<1>15. DueOf(i, e.quiet, timers)
  BY <1>6, <1>9, DueInTime DEF old
<1> QED
  BY <1>3, <1>8, <1>9, <1>10, <1>13, <1>14, <1>15 DEF old

(* A reading, of a sensor that has an endpoint or of one that has none.     *)
LEMMA SerinStep ==
    ASSUME IInv, NEW r \in Roms, NEW v \in Readings, serin_1wire(r, v)
    PROVE  IInv'
<1> DEFINE k == findROMID(r)
           i == list[k]
<1>1. r \in bus /\ owed' = [owed EXCEPT ![r] = None] /\ UNCHANGED <<ini, list, filters, timers, bus>>
  BY DEF serin_1wire
<1>2. owed' \in [Roms -> 0 .. A \cup {None}] /\ \A q \in Roms : owed'[q] = IF q = r THEN None ELSE owed[q]
  BY <1>1, Now
<1>3. \A q \in Roms : owed'[q] # None => q \in bus'
  BY <1>1, <1>2, Now
<1>4. /\ timers' \in Seq(TimerType) /\ Len(timers') = Len(timers)
      /\ \A j \in 1 .. Len(timers) : /\ timers'[j].func = timers[j].func
                                     /\ timers'[j].data = timers[j].data
                                     /\ timers'[j].due \in -Late .. Interval(timers[j].func)
  BY <1>1, Now
<1>5. \A j \in DOMAIN sensor : /\ ToldOf(sensor[j]) /\ DueOf(j, sensor[j].quiet, timers)
                               /\ ini.timeout => QuietOf(j, sensor[j], timers)
  BY DEF IInv, Told, Due, Quiet
<1>6. timers' = timers
  BY <1>1
<1>7. ASSUME NEW j \in DOMAIN sensor, sensor[j].steady, sensor[j].romid # r
      PROVE  /\ sensor[j].romid \in bus' /\ list[findROMID(sensor[j].romid)] = j
             /\ ini.timeout /\ ~sensor[j].forced => sensor[j].state = ON
             /\ AskedInTime(sensor[j], timers', owed'[sensor[j].romid])
  <2>1. sensor[j].romid \in Roms
    BY EndpointHere
  <2>2. owed'[sensor[j].romid] = owed[sensor[j].romid]
    BY <1>2, <1>7, <2>1
  <2> QED
    BY <1>1, <1>7, <2>2 DEF IInv, Steady
<1>8. bus' \subseteq Roms /\ \A j \in Range(list) : sensor[j].romid \notin unassigned
  BY <1>1, Now DEF IInv, OfferedAreFree
<1>9. CASE k = 0
  <2>1. unassigned' = unassigned \cup {r} /\ sensor' = sensor
    BY <1>9 DEF serin_1wire
  <2>2. \A j \in DOMAIN sensor : sensor[j].romid # r
    BY <1>9, FindROMIDProperties
  <2>3. unassigned' \subseteq Roms /\ DOMAIN sensor = Range(list) /\ sensor' \in [DOMAIN sensor -> EndpointType]
    BY <2>1, Now
  <2>4. \A j \in Range(list) : sensor[j].romid \notin unassigned'
    BY <1>8, <2>1, <2>2, <2>3
  <2>5. \A j \in DOMAIN sensor : LET e == sensor'[j] IN
           /\ ToldOf(e) /\ e.romid = sensor[j].romid /\ (ini.timeout => QuietOf(j, e, timers'))
           /\ DueOf(j, e.quiet, timers')
           /\ e.steady => /\ e.romid \in bus' /\ list[findROMID(e.romid)] = j
                          /\ ini.timeout /\ ~e.forced => e.state = ON
                          /\ AskedInTime(e, timers', owed'[e.romid])
    <3> SUFFICES ASSUME NEW j \in DOMAIN sensor
                 PROVE  LET e == sensor[j] IN
           /\ ToldOf(e) /\ (ini.timeout => QuietOf(j, e, timers')) /\ DueOf(j, e.quiet, timers')
           /\ e.steady => /\ e.romid \in bus' /\ list[findROMID(e.romid)] = j
                          /\ ini.timeout /\ ~e.forced => e.state = ON
                          /\ AskedInTime(e, timers', owed'[e.romid])
      BY <2>1
    <3>1. /\ ToldOf(sensor[j]) /\ DueOf(j, sensor[j].quiet, timers')
          /\ ini.timeout => QuietOf(j, sensor[j], timers')
      BY <1>5, <1>6
    <3> QED
      BY <1>7, <2>2, <3>1
  <2> QED
    BY <1>1, <1>2, <1>3, <1>4, <1>8, <2>3, <2>4, <2>5, StepKeeps
<1>10. CASE k # 0
  <2> DEFINE e == Heard(sensor[i], v)
  <2>1. unassigned' = unassigned /\ sensor' = [sensor EXCEPT ![i] = e]
    BY <1>10 DEF serin_1wire
  <2>2. i \in DOMAIN sensor /\ sensor[i].romid = r
    BY <1>10, FindROMIDProperties
  <2>3. /\ e \in EndpointType /\ e.romid = r /\ e.since = 0 /\ e.state = ON
        /\ ~e.forced /\ ToldOf(e) /\ DueOf(i, e.quiet, timers) /\ QuietOf(i, e, timers)
        /\ AskedInTime(e, timers, None)
    BY <2>2, HeardProperties
  <2>4. list[findROMID(r)] = i
    OBVIOUS
  <2> HIDE DEF e, k, i
  <2>5. sensor \in [DOMAIN sensor -> EndpointType] /\ unassigned' \subseteq Roms
    BY <2>1, Now
  <2>6. \A j \in DOMAIN sensor : sensor'[j] = IF j = i THEN e ELSE sensor[j]
    BY <2>1, <2>5
  <2>7. sensor' \in [DOMAIN sensor -> EndpointType]
    BY <2>1, <2>3, <2>5
  <2>8. owed'[r] = None
    BY <1>2
  <2>9. ASSUME NEW j \in DOMAIN sensor
        PROVE  LET d == sensor'[j] IN
           /\ ToldOf(d) /\ d.romid = sensor[j].romid /\ (ini.timeout => QuietOf(j, d, timers'))
           /\ DueOf(j, d.quiet, timers')
           /\ d.steady => /\ d.romid \in bus' /\ list[findROMID(d.romid)] = j
                          /\ ini.timeout /\ ~d.forced => d.state = ON
                          /\ AskedInTime(d, timers', owed'[d.romid])
    <3>1. CASE j = i
      <4>1. sensor'[j] = e
        BY <2>6, <3>1
      <4> QED
        BY <1>1, <2>2, <2>3, <2>4, <2>8, <3>1, <4>1
    <3>2. CASE j # i
      <4>1. sensor'[j] = sensor[j]
        BY <2>6, <3>2
      <4>2. sensor[j].steady => sensor[j].romid # r
        BY <2>4, <3>2 DEF IInv, Steady
      <4>3. /\ ToldOf(sensor[j]) /\ DueOf(j, sensor[j].quiet, timers')
            /\ ini.timeout => QuietOf(j, sensor[j], timers')
        BY <1>5, <1>6
      <4> QED
        BY <1>7, <4>1, <4>2, <4>3
    <3> QED
      BY <3>1, <3>2
  <2> QED
    BY <1>1, <1>2, <1>3, <1>4, <1>8, <2>1, <2>5, <2>7, <2>9, StepKeeps
<1> QED
  BY <1>9, <1>10

(* A second passes.                                                         *)
LEMMA TickStep ==
    ASSUME IInv, Tick
    PROVE  IInv'
<1>1. /\ \A k \in DOMAIN timers : timers[k].due > -Late
      /\ \A r \in Roms : owed[r] # 0
      /\ timers' = [k \in DOMAIN timers |-> [timers[k] EXCEPT !.due = timers[k].due - 1]]
      /\ owed' = [r \in Roms |-> IF owed[r] = None THEN None ELSE owed[r] - 1]
      /\ UNCHANGED <<ini, list, filters, unassigned, bus>>
  BY DEF Tick
<1>2. timers \in Seq(TimerType) /\ DOMAIN timers = 1 .. Len(timers) /\ Len(timers) \in Nat
  BY Now
<1>3. ASSUME NEW k \in 1 .. Len(timers)
      PROVE  /\ timers'[k] \in TimerType /\ timers'[k].func = timers[k].func
             /\ timers'[k].data = timers[k].data /\ timers'[k].due = timers[k].due - 1
             /\ timers'[k].due \in -Late .. Interval(timers[k].func)
             /\ timers[k].due \in Int /\ timers[k].due <= Interval(timers[k].func)
  <2> DEFINE n == timers[k].due - 1
             d == [timers[k] EXCEPT !.due = n]
  <2>1. /\ timers[k] \in TimerType /\ timers[k].due \in Int /\ timers[k].due > -Late
        /\ timers[k].func \in {"check", "info", "report"}
        /\ timers[k].due \in -Late .. Interval(timers[k].func)
    BY <1>1, <1>2, Now
  <2>2. Interval(timers[k].func) \in Nat /\ Late \in Nat
    BY <2>1, Intervals, Times
  <2>3. /\ n \in Int /\ n \in -Late .. Interval(timers[k].func)
        /\ timers[k].due \in Int /\ timers[k].due <= Interval(timers[k].func)
    BY <2>1, <2>2
  <2>4. timers'[k] = d
    BY <1>1, <1>2
  <2> HIDE DEF n
  <2>5. d \in TimerType /\ d.func = timers[k].func /\ d.data = timers[k].data /\ d.due = n
    BY <2>1, <2>3 DEF TimerType
  <2> HIDE DEF d
  <2> QED
    BY <2>3, <2>4, <2>5 DEF n
<1>4. timers' \in Seq(TimerType) /\ Len(timers') = Len(timers)
  <2>1. DOMAIN timers' = 1 .. Len(timers)
    BY <1>1, <1>2
  <2>2. timers' = [k \in 1 .. Len(timers) |-> timers'[k]]
    BY <1>1, <2>1
  <2>3. timers' \in [1 .. Len(timers) -> TimerType]
    BY <1>3, <2>2
  <2> QED
    BY <1>2, <2>3
<1>5. \A r \in Roms : owed'[r] = IF owed[r] = None THEN None ELSE owed[r] - 1
  BY <1>1
<1>6. \A r \in Roms : owed[r] # None => owed[r] \in Nat /\ owed'[r] \in 0 .. A
  <2> SUFFICES ASSUME NEW r \in Roms, owed[r] # None
               PROVE  owed[r] \in Nat /\ owed'[r] \in 0 .. A
    OBVIOUS
  <2>1. owed[r] \in 0 .. A \cup {None} /\ A \in Nat
    BY Now, Times
  <2>2. owed[r] \in 0 .. A /\ owed[r] # 0 /\ owed'[r] = owed[r] - 1
    BY <1>1, <1>5, <2>1
  <2> QED
    BY <2>1, <2>2
<1>7. owed' \in [Roms -> 0 .. A \cup {None}] /\ \A r \in Roms : owed'[r] # None => r \in bus'
  BY <1>1, <1>5, <1>6, Now
<1>8. ASSUME NEW i \in DOMAIN sensor
      PROVE  LET e == sensor'[i] IN
             /\ e \in EndpointType /\ e.romid = sensor[i].romid /\ e.forced = sensor[i].forced
             /\ e.state = sensor[i].state /\ e.seen = sensor[i].seen /\ e.text = sensor[i].text
             /\ e.prevValue = sensor[i].prevValue /\ e.reported = sensor[i].reported
             /\ e.steady = sensor[i].steady
             /\ e.since \in Nat /\ e.since <= sensor[i].since + 1
             /\ sensor[i].since \in Nat /\ sensor[i].quiet \in Nat /\ e.quiet = sensor[i].quiet + 1
  <2> DEFINE old == sensor[i]
             s == IF old.since < NEVER THEN old.since + 1 ELSE old.since
             q == old.quiet + 1
             e == [old EXCEPT !.since = s, !.quiet = q]
  <2>1. old \in EndpointType /\ sensor'[i] = e
    BY Now DEF Tick, Older
  <2>2. old.since \in 0 .. NEVER /\ old.quiet \in Nat /\ NEVER \in Nat
    BY <2>1, Times DEF EndpointType
  <2> HIDE DEF old
  <2>3. s \in 0 .. NEVER /\ q \in Nat /\ s \in Nat /\ s <= old.since + 1
    BY <2>2
  <2> HIDE DEF s, q
  <2>4. e \in EndpointType
    BY <2>1, <2>3 DEF EndpointType
  <2>5. /\ e.romid = old.romid /\ e.forced = old.forced
        /\ e.state = old.state /\ e.seen = old.seen /\ e.text = old.text
        /\ e.prevValue = old.prevValue /\ e.reported = old.reported /\ e.steady = old.steady
        /\ e.since = s /\ e.quiet = q
    BY <2>1 DEF EndpointType
  <2> HIDE DEF e
  <2> QED
    BY <2>1, <2>2, <2>3, <2>4, <2>5 DEF old, q
<1>9. sensor' \in [DOMAIN sensor -> EndpointType]
  BY <1>8 DEF Tick
<1>10. ASSUME NEW i \in DOMAIN sensor
       PROVE  ToldOf(sensor'[i]) /\ DueOf(i, sensor'[i].quiet, timers')
  <2>1. ToldOf(sensor'[i])
    BY <1>8 DEF IInv, Told, ToldOf
  <2>2. ASSUME NEW j \in 1 .. Len(timers), timers'[j].data = i, timers'[j].func = "info"
        PROVE  sensor'[i].quiet + timers'[j].due <= 2 * I - 1
    <3>1. sensor[i].quiet + timers[j].due <= 2 * I - 1
      BY <1>3, <2>2 DEF IInv, Due, DueOf
    <3>2. /\ sensor'[i].quiet = sensor[i].quiet + 1 /\ sensor[i].quiet \in Nat
          /\ timers'[j].due = timers[j].due - 1 /\ timers[j].due \in Int
      BY <1>3, <1>8
    <3> QED
      BY <3>1, <3>2
  <2> QED
    BY <1>4, <2>1, <2>2 DEF DueOf
<1>11. ASSUME ini.timeout, NEW i \in DOMAIN sensor
       PROVE  QuietOf(i, sensor'[i], timers')
  <2> DEFINE e == sensor'[i]
             old == sensor[i]
  <2>1. /\ e.forced = old.forced /\ e.state = old.state /\ e.seen = old.seen
        /\ e.since \in Nat /\ e.since <= old.since + 1 /\ old.since \in Nat /\ old.quiet \in Nat
        /\ e.quiet = old.quiet + 1
    BY <1>8
  <2>2. QuietOf(i, old, timers)
    BY <1>11 DEF IInv, Quiet
  <2>3. T \in Nat /\ Late \in Nat
    BY Times
  <2> HIDE DEF e, old
  <2> SUFFICES ASSUME ~e.forced
               PROVE  QuietOf(i, e, timers')
    BY DEF QuietOf, e
  <2>4. ~old.forced
    BY <2>1
  <2>5. old.seen.state = ON => old.since - old.quiet <= 2 * T + Late
    BY <2>2, <2>4 DEF QuietOf
  <2>6. e.seen.state = ON => e.since - e.quiet <= 2 * T + Late
    BY <2>1, <2>3, <2>5
  <2>7. ASSUME NEW j \in 1 .. Len(timers), timers'[j].data = i, e.state = ON, timers'[j].func = "check"
        PROVE  e.since + timers'[j].due <= 2 * T
    <3>1. /\ timers'[j].due = timers[j].due - 1 /\ timers'[j].func = timers[j].func /\ timers[j].data = i
          /\ timers[j].due \in Int
      BY <1>3, <2>7
    <3>2. old.since + timers[j].due <= 2 * T
      BY <2>1, <2>2, <2>4, <2>7, <3>1 DEF QuietOf
    <3> QED
      BY <2>1, <2>3, <3>1, <3>2
  <2> QED
    BY <1>4, <2>6, <2>7 DEF QuietOf
<1>12. ASSUME NEW i \in DOMAIN sensor, sensor'[i].steady
       PROVE  /\ sensor'[i].romid \in bus' /\ list[findROMID(sensor'[i].romid)] = i
              /\ ini.timeout /\ ~sensor'[i].forced => sensor'[i].state = ON
              /\ AskedInTime(sensor'[i], timers', owed'[sensor'[i].romid])
  <2> DEFINE e == sensor'[i]
             old == sensor[i]
             r == old.romid
  <2>1. /\ old.steady /\ e.romid = r /\ e.forced = old.forced /\ e.state = old.state
        /\ e.since \in Nat /\ e.since <= old.since + 1 /\ old.since \in Nat
    BY <1>8, <1>12
  <2>2. /\ r \in bus /\ list[findROMID(r)] = i /\ AskedInTime(old, timers, owed[r])
        /\ ini.timeout /\ ~old.forced => old.state = ON
    BY <2>1 DEF IInv, Steady
  <2>3. r \in Roms /\ T \in Nat /\ MARGIN \in Nat /\ Late \in Nat /\ A \in Nat
    BY EndpointHere, Times
  <2> HIDE DEF e, old, r
  <2>4. CASE owed[r] = None
    <3>1. owed'[r] = None
      BY <1>5, <2>3, <2>4
    <3>2. ASSUME NEW j \in 1 .. Len(timers), timers'[j].func = "report"
          PROVE  e.since + timers'[j].due <= T - MARGIN
      <4>1. timers[j].func = "report" /\ timers[j].due \in Int /\ timers'[j].due = timers[j].due - 1
        BY <1>3, <3>2
      <4>2. old.since + timers[j].due <= T - MARGIN
        BY <2>2, <2>4, <4>1 DEF AskedInTime
      <4>3. e.since + (timers[j].due - 1) <= old.since + timers[j].due
        BY <2>1, <4>1
      <4>4. e.since + (timers[j].due - 1) <= T - MARGIN
        BY <2>1, <2>3, <4>1, <4>2, <4>3
      <4> QED
        BY <4>1, <4>4
    <3>3. AskedInTime(e, timers', owed'[r])
      BY <1>4, <3>1, <3>2 DEF AskedInTime
    <3> QED
      BY <1>1, <2>1, <2>2, <3>3 DEF e
  <2>5. CASE owed[r] # None
    <3>1. owed'[r] = owed[r] - 1 /\ owed[r] \in Nat
      BY <1>5, <1>6, <2>3, <2>5
    <3>2. old.since + owed[r] <= T - MARGIN + Late + A
      BY <2>2, <2>5 DEF AskedInTime
    <3>3. e.since + owed'[r] <= T - MARGIN + Late + A /\ owed'[r] # None
      BY <2>1, <2>3, <3>1, <3>2, ReadingAssumption
    <3>4. AskedInTime(e, timers', owed'[r])
      BY <3>3 DEF AskedInTime
    <3> QED
      BY <1>1, <2>1, <2>2, <3>4 DEF e
  <2> QED
    BY <2>4, <2>5
<1>13. /\ \A i \in DOMAIN sensor : sensor'[i].romid = sensor[i].romid
       /\ \A i \in Range(list) : sensor[i].romid \notin unassigned'
       /\ unassigned' \subseteq Roms /\ bus' \subseteq Roms
  BY <1>1, <1>8, Now DEF IInv, OfferedAreFree
<1> QED
  BY <1>1, <1>3, <1>4, <1>7, <1>9, <1>10, <1>11, <1>12, <1>13, StepKeeps

LEMMA StepIInv == IInv /\ [Next]_vars => IInv'
<1> SUFFICES ASSUME IInv, [Next]_vars
             PROVE  IInv'
  OBVIOUS
<1>1. ASSUME NEW x \in Inis, resetOneWireEndpoints(x)
      PROVE  IInv'
  BY <1>1, ResetStep
<1>2. ASSUME NEW r \in Roms, NEW v \in Readings, serin_1wire(r, v)
      PROVE  IInv'
  BY <1>2, SerinStep
<1>3. ASSUME NEW i \in DOMAIN sensor,
             bscIncomingQuery(i) \/ \E s \in {OFF, ON, UNKNOWN} : msg_action(i, s)
      PROVE  IInv'
  BY <1>3, AskedSteps
<1>4. ASSUME NEW k \in DOMAIN timers, NEW lag \in 0 .. L, bscInfoTimeout(k, lag)
      PROVE  IInv'
  BY <1>4, InfoStep
<1>5. ASSUME NEW k \in DOMAIN timers, NEW lag \in 0 .. L, timeoutCheck1wire(k, lag)
      PROVE  IInv'
  BY <1>5, CheckStep
<1>6. ASSUME NEW k \in DOMAIN timers, NEW lag \in 0 .. L, timeoutReport1wire(k, lag)
      PROVE  IInv'
  BY <1>6, ReportStep
<1>7. ASSUME NEW r \in Roms, Plug(r)
      PROVE  IInv'
  BY <1>7, PlugStep
<1>8. CASE Tick
  BY <1>8, TickStep
<1>9. CASE UNCHANGED vars
  <2>1. UNCHANGED <<ini, list, sensor, filters, timers, unassigned, bus, owed>>
    BY <1>9 DEF vars
  <2>2. \A r : findROMID(r)' = findROMID(r)
    BY <2>1 DEF findROMID, SelectInSeq
  <2>3. TypeOK' /\ Wired' /\ OfferedAreFree' /\ Told' /\ Due' /\ Quiet'
    BY <2>1 DEF IInv, TypeOK, Wired, OfferedAreFree, Told, Due, Quiet
  <2>4. Steady'
    BY <2>1, <2>2 DEF IInv, Steady
  <2> QED
    BY <2>3, <2>4 DEF IInv
<1> QED
  BY <1>1, <1>2, <1>3, <1>4, <1>5, <1>6, <1>7, <1>8, <1>9 DEF Next

LEMMA IInvHolds == Spec => []IInv
  BY InitIInv, StepIInv, PTL DEF Spec

-----------------------------------------------------------------------------
(***************************************************************************)
(* What it means.                                                          *)
(***************************************************************************)

(* The variables of the 1-wire part have their types, and its timers are    *)
(* neither late nor set for more than their interval.                       *)
THEOREM TypeCorrect == Spec => []TypeOK
<1>1. IInv => TypeOK
  BY DEF IInv
<1> QED
  BY <1>1, IInvHolds, PTL

(* The number of timers that a purpose has.                                 *)
LEMMA OneTimer ==
    ASSUME IInv, NEW f, NEW i
    PROVE  Timers(f, i) = IF <<f, i>> \in KeysOf(ini) THEN 1 ELSE 0
<1> DEFINE N == {k \in DOMAIN timers : timers[k].func = f /\ timers[k].data = i}
<1>1. DOMAIN timers = 1 .. Len(timers)
  BY Now
<1>2. \A k \in 1 .. Len(timers) : k \in N <=> Key(timers[k]) = <<f, i>>
  BY <1>1 DEF Key
<1>3. Timers(f, i) = Cardinality(N)
  BY DEF Timers
<1>4. N \subseteq 1 .. Len(timers)
  BY <1>1
<1> HIDE DEF N
<1>5. Unique(timers) /\ Keys(timers) = KeysOf(ini)
  BY DEF IInv, Wired
<1>6. CASE <<f, i>> \in KeysOf(ini)
  <2>1. PICK k \in 1 .. Len(timers) : Key(timers[k]) = <<f, i>>
    BY <1>5, <1>6 DEF Keys
  <2>2. N = {k}
    BY <1>2, <1>4, <1>5, <2>1 DEF Unique
  <2>3. Cardinality(N) = 1
    BY <2>2, FS_Singleton
  <2> QED
    BY <1>3, <1>6, <2>3
<1>7. CASE <<f, i>> \notin KeysOf(ini)
  <2>1. N = {}
    BY <1>2, <1>4, <1>5, <1>7 DEF Keys
  <2>2. Cardinality(N) = 0
    BY <2>1, FS_EmptySet
  <2> QED
    BY <1>3, <1>7, <2>2
<1> QED
  BY <1>6, <1>7

(* Whatever resets have come, an endpoint has one filter and one timer for  *)
(* each of its purposes, and nothing outlives its endpoint.  ini.c:         *)
(* resetOneWireEndpoints(), bsc.c: bscDelEndpoint().                        *)
THEOREM EndpointsAreWiredOnce == Spec => []WiredOnce
<1>1. IInv => WiredOnce
  <2> SUFFICES ASSUME IInv
               PROVE  WiredOnce
    OBVIOUS
  <2>1. /\ Len(timers) = Len(list) * (1 + Checks(ini)) + Checks(ini)
        /\ Len(filters) = Len(list) /\ Range(filters) = Range(list)
    BY DEF IInv, Wired
  <2>2. ini \in Inis /\ Range(list) = Range(Valid(ini)) /\ Range(list) \subseteq Nat /\ ini.timeout \in BOOLEAN
    BY Now, ListOf, IniAssumption DEF IInv, Wired
  <2>3. \A i \in Range(list) : <<"info", i>> \in KeysOf(ini) /\ (<<"check", i>> \in KeysOf(ini) <=> ini.timeout)
    <3> SUFFICES ASSUME NEW i \in Range(list)
                 PROVE  <<"info", i>> \in KeysOf(ini) /\ (<<"check", i>> \in KeysOf(ini) <=> ini.timeout)
      OBVIOUS
    <3>1. <<"info", i>> \in KeysOf(ini)
      BY <2>2 DEF KeysOf
    <3>2. CASE ini.timeout
      BY <2>2, <3>1, <3>2 DEF KeysOf
    <3>3. CASE ~ini.timeout
      BY <2>2, <3>1, <3>3 DEF KeysOf
    <3> QED
      BY <3>2, <3>3
  <2>4. <<"report", None>> \in KeysOf(ini) <=> ini.timeout
    BY DEF KeysOf
  <2>5. \A i \in Range(list) : Timers("info", i) = 1 /\ Timers("check", i) = Checks(ini)
    BY <2>3, OneTimer DEF Checks
  <2>6. Timers("report", None) = Checks(ini)
    BY <2>4, OneTimer DEF Checks
  <2> QED
    BY <2>1, <2>5, <2>6 DEF WiredOnce, Checks
<1> QED
  BY <1>1, IInvHolds, PTL

(* The web interface offers no ROM id that an endpoint has.  serial.c:      *)
(* serin_1wire(), ini.c: resetOneWireEndpoints().                           *)
THEOREM OffersAreFree == Spec => []OfferedAreFree
<1>1. IInv => OfferedAreFree
  BY DEF IInv
<1> QED
  BY <1>1, IInvHolds, PTL

(* What listeners were last told of a sensor is within the hysteresis of    *)
(* its value, and within 0.9 more if one of them has more than five         *)
(* characters; or it is "?", the value is near 0 and a report is due.       *)
(* ini.c: infoEvent1wire(); bsc.c: bscInfoTimeout().                        *)
THEOREM HysteresisHolds == Spec => []SeenWithinHysteresis
<1>1. IInv => SeenWithinHysteresis
  BY ToldInTime DEF IInv, Told, ToldOf, Near, SeenWithinHysteresis
<1> QED
  BY <1>1, IInvHolds, PTL

(* A sensor that has gone quiet becomes unknown, and listeners are told, in *)
(* bounded time.  ini.c: timeoutCheck1wire(); bsc.c: bscInfoTimeout().      *)
THEOREM QuietSensorsBecomeUnknown == Spec => []QuietIsUnknown
<1>1. IInv => QuietIsUnknown
  <2> SUFFICES ASSUME IInv, ini.timeout, NEW i \in DOMAIN sensor, ~sensor[i].forced
               PROVE  /\ sensor[i].state = ON => sensor[i].since <= 2 * T + Late
                      /\ sensor[i].seen.state = ON => sensor[i].since <= 2 * T + Late + Untold
    BY DEF QuietIsUnknown
  <2>1. sensor[i].state = ON => sensor[i].since <= 2 * T + Late
    BY CheckedInTime
  <2>2. sensor[i].seen.state = ON => sensor[i].since - sensor[i].quiet <= 2 * T + Late
    BY DEF IInv, Quiet, QuietOf
  <2>3. sensor[i].quiet <= Untold /\ sensor[i].since \in Nat /\ sensor[i].quiet \in Nat
    BY ToldInTime, EndpointHere
  <2>4. Untold \in Int
    BY Times DEF Untold
  <2> QED
    BY <2>1, <2>2, <2>3, <2>4, Times
<1> QED
  BY <1>1, IInvHolds, PTL

(* A sensor that stays connected is not taken for lost.  ini.c:             *)
(* addOneWireIniEndpoints(), which asks the board before the check.         *)
THEOREM ConnectedSensorsStayKnown == Spec => []ConnectedStaysKnown
<1>1. IInv => ConnectedStaysKnown
  BY AnsweredInTime DEF IInv, Steady, ConnectedStaysKnown
<1> QED
  BY <1>1, IInvHolds, PTL
=============================================================================
