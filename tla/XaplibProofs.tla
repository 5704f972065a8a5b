---------------------------- MODULE XaplibProofs ----------------------------
(***************************************************************************)
(* The packets and the timers of the library, for messages of any length,  *)
(* addresses of any number of fields, and any timers.                      *)
(***************************************************************************)
EXTENDS XapRx, XapTimeout, FiniteSetTheorems, SequenceTheorems, TLAPS

-----------------------------------------------------------------------------
(***************************************************************************)
(* What the parser has read.                                               *)
(***************************************************************************)

\* Any strings; the provers have to be told that these are.
Symbols ==
    STRING \cup {"nl", "=", "{", "}", ".", ":", "*", ">", "NULL", "a", "A", "b", "B", "c", "s", "t", "x"}

Chars == Seq(Symbols)

EntryType == [sec : Nat, section : Chars, key : Chars, value : Chars]

\* What is written as it can be read.
Readable(m) ==
    /\ m \in Seq(EntryType) /\ Len(m) > 0 /\ m[1].sec = 1
    /\ \A k \in 1 .. Len(m) :
          /\ Named(m[k].section)
          /\ m[k].key = Nil => m[k].value = Nil
          /\ m[k].key # Nil => Named(m[k].key) /\ \A i \in DOMAIN m[k].value : m[k].value[i] # "nl"
          /\ k > 1 => Follows(m[k - 1], m[k])

\* Entry k begins a section.
Opens(m, k) == k = 1 \/ m[k - 1].sec # m[k].sec

\* The bytes in front of entry k, those of its section's name and of its line, and
\* the byte that completes it.
Ahead(m, k) == Len(Joined(Lines(m))[k - 1])
NameLen(m, k) == IF Opens(m, k) THEN Len(m[k].section) + 3 ELSE 0
LineLen(m, k) == IF m[k].key # Nil THEN Len(m[k].key) + Len(m[k].value) + 2 ELSE 0
Ending(m, k) == Ahead(m, k) + NameLen(m, k) + (IF m[k].key = Nil THEN 1 ELSE LineLen(m, k))

FrameType ==
    [state : {"START_SECTION_NAME", "IN_SECTION_NAME", "START_KEYNAME", "IN_KEYNAME", "IN_KEYVALUE",
              "OVERRUN"},
     n : Nat, section : Chars, key : Chars, cur : Chars, keycount : Nat,
     parsedMsg : Seq(EntryType), stop : BOOLEAN]

\* The frame r before the section of entry k, in its name, before and in its key, in its
\* value, behind its line, and behind its section.
AtSection(m, k, r) ==
    r.state = "START_SECTION_NAME" /\ r.n + 1 = m[k].sec /\ r.parsedMsg = SubSeq(m, 1, k - 1)
InSection(m, k, i, r) ==
    /\ r.state = "IN_SECTION_NAME" /\ r.n = m[k].sec /\ r.parsedMsg = SubSeq(m, 1, k - 1)
    /\ r.cur = SubSeq(Append(m[k].section, "nl"), 1, i)
Within(m, k, r) ==
    /\ r.n = m[k].sec /\ r.section = m[k].section /\ r.parsedMsg = SubSeq(m, 1, k - 1)
    /\ r.keycount = 0 <=> Opens(m, k)
AtKey(m, k, r) == r.state = "START_KEYNAME" /\ Within(m, k, r)
InKey(m, k, i, r) == r.state = "IN_KEYNAME" /\ Within(m, k, r) /\ r.cur = SubSeq(m[k].key, 1, i)
InValue(m, k, i, r) ==
    /\ r.state = "IN_KEYVALUE" /\ Within(m, k, r)
    /\ r.key = m[k].key /\ r.cur = SubSeq(m[k].value, 1, i)
PastLine(m, k, r) ==
    r.state = "START_KEYNAME" /\ r.n = m[k].sec /\ r.parsedMsg = SubSeq(m, 1, k) /\ r.keycount > 0
PastSection(m, k, r) ==
    r.state = "START_SECTION_NAME" /\ r.n = m[k].sec /\ r.parsedMsg = SubSeq(m, 1, k)

\* The parser has room for entry k, or has not been stopped before it.
Room(m, k) == k <= MSG_ELEMENTS \/ (k = MSG_ELEMENTS + 1 /\ m[MSG_ELEMENTS].key = Nil)

\* The parser, after x bytes, is before the line of entry k or in it.
ReadingLine(m, k, x, r) ==
    /\ Room(m, k)
    /\ \/ Opens(m, k) /\ x = Ahead(m, k) /\ AtSection(m, k, r)
       \/ /\ Opens(m, k)
          /\ \E i \in 1 .. Len(m[k].section) + 1 : x = Ahead(m, k) + i /\ InSection(m, k, i, r)
       \/ Opens(m, k) /\ x = (Ahead(m, k) + NameLen(m, k)) - 1 /\ AtKey(m, k, r)
       \/ x = Ahead(m, k) + NameLen(m, k) /\ AtKey(m, k, r)
       \/ /\ m[k].key # Nil /\ k <= MSG_ELEMENTS
          /\ \E i \in 1 .. Len(m[k].key) : x = Ahead(m, k) + NameLen(m, k) + i /\ InKey(m, k, i, r)
       \/ /\ m[k].key # Nil /\ k <= MSG_ELEMENTS
          /\ \E i \in 0 .. Len(m[k].value) :
                x = Ahead(m, k) + NameLen(m, k) + Len(m[k].key) + 1 + i /\ InValue(m, k, i, r)

\* It is at the end of the section that entry k closes.
Closing(m, k, x, r) ==
    /\ Closes(m, k)
    /\ \/ m[k].key # Nil /\ k < MSG_ELEMENTS /\ x = Ending(m, k) /\ PastLine(m, k, r)
       \/ /\ k < MSG_ELEMENTS \/ (k = MSG_ELEMENTS /\ m[k].key = Nil)
          /\ x = Ahead(m, k) + NameLen(m, k) + LineLen(m, k) + 1 /\ PastSection(m, k, r)
       \/ /\ k = Len(m) /\ k <= MSG_ELEMENTS
          /\ x = Ahead(m, k) + NameLen(m, k) + LineLen(m, k) + 2 /\ PastSection(m, k, r)

Stopped(m, x, r) ==
    MSG_ELEMENTS <= Len(m) /\ x >= Ending(m, MSG_ELEMENTS) /\ r.parsedMsg = SubSeq(m, 1, MSG_ELEMENTS)

\* There is more behind an empty section in the last place.
Overruns(m) == MSG_ELEMENTS < Len(m) /\ m[MSG_ELEMENTS].key = Nil

\* After x bytes of m the frame is r.
ReadTo(m, x, r) ==
    /\ r \in FrameType
    /\ r.state = "OVERRUN" => Overruns(m)
    /\ r.stop \/ r.state = "OVERRUN" => Stopped(m, x, r)
    /\ ~r.stop /\ r.state # "OVERRUN" =>
          \E k \in 1 .. Len(m) : ReadingLine(m, k, x, r) \/ Closing(m, k, x, r)

\* What a message consists of.
Sendable(m) == \E c \in {CMD, <<"B">>}, b \in Bodies : m = Message(to, c, b)

RxInv ==
    /\ phase \in {"select", "parse", "done", "down"} /\ n \in Nat
    /\ phase = "select" => msg = <<>> /\ to = <<>> /\ n = 0 /\ frame = Start
    /\ phase # "select" => /\ to \in Patterns \cup {<<>>} /\ Sendable(msg)
                           /\ n <= Len(Packet) /\ ReadTo(msg, n, frame)
    /\ phase = "done" => called = {a \in Addresses : xapCompareFilters(Chain(a), frame.parsedMsg)}

-----------------------------------------------------------------------------
(***************************************************************************)
(* Induction over numbers, and what is written one behind the other.       *)
(***************************************************************************)

(* A set of numbers that is not empty has a least element.                  *)
LEMMA LeastElement ==
    ASSUME NEW N \in SUBSET Nat, N # {}
    PROVE  \E i \in N : \A j \in N : i <= j
<1> DEFINE R == {ss \in Nat \X Nat : ss[1] < ss[2]}
<1>1. IsWellFoundedOn(R, Nat)
  BY NatLessThanWellFounded DEF OpToRel
<1>2. \A i, j \in Nat : (<<i, j>> \in R) <=> i < j
  OBVIOUS
<1> HIDE DEF R
<1>3. PICK i \in N : \A j \in N : ~(<<j, i>> \in R)
  BY <1>1, WFMin
<1>4. \A j \in N : i <= j
  <2> SUFFICES ASSUME NEW j \in N
               PROVE  i <= j
    OBVIOUS
  <2>1. j \in Nat /\ i \in Nat
    OBVIOUS
  <2>2. ~(j < i)
    BY <1>2, <1>3, <2>1, Zenon
  <2> QED
    BY <2>1, <2>2
<1> QED
  BY <1>4

(* A set that has a, and with each number up to b the next, has all of them. *)
LEMMA Upwards ==
    ASSUME NEW a \in Int, NEW b \in Int, NEW A, a \in A, \A i \in a .. b - 1 : i \in A => i + 1 \in A
    PROVE  \A i \in a .. b : i \in A
<1> DEFINE N == {d \in Nat : a + d <= b /\ a + d \notin A}
<1>1. SUFFICES ASSUME N # {}
               PROVE  FALSE
  <2> SUFFICES ASSUME N = {}, NEW i \in a .. b
               PROVE  i \in A
    OBVIOUS
  <2>1. i - a \in Nat /\ a + (i - a) = i /\ i <= b
    OBVIOUS
  <2>2. i - a \notin N
    OBVIOUS
  <2> QED
    BY <2>1, <2>2
<1>2. PICK d \in N : \A e \in N : d <= e
  BY <1>1, LeastElement
<1>3. d \in Nat /\ a + d <= b /\ a + d \notin A
  OBVIOUS
<1>4. d # 0
  BY <1>3
<1>5. d - 1 \in Nat /\ d - 1 \notin N
  BY <1>2, <1>3, <1>4
<1>6. a + (d - 1) \in A
  BY <1>3, <1>5
<1>7. a + (d - 1) \in a .. b - 1 /\ (a + (d - 1)) + 1 = a + d
  BY <1>3, <1>5
<1> QED
  BY <1>3, <1>6, <1>7

(* And the same from b down.                                                *)
LEMMA Downwards ==
    ASSUME NEW a \in Int, NEW b \in Int, NEW A, b \in A, \A i \in a .. b - 1 : i + 1 \in A => i \in A
    PROVE  \A i \in a .. b : i \in A
<1> DEFINE N == {d \in Nat : a <= b - d /\ b - d \notin A}
<1>1. SUFFICES ASSUME N # {}
               PROVE  FALSE
  <2> SUFFICES ASSUME N = {}, NEW i \in a .. b
               PROVE  i \in A
    OBVIOUS
  <2>1. b - i \in Nat /\ b - (b - i) = i /\ a <= i
    OBVIOUS
  <2>2. b - i \notin N
    OBVIOUS
  <2> QED
    BY <2>1, <2>2
<1>2. PICK d \in N : \A e \in N : d <= e
  BY <1>1, LeastElement
<1>3. d \in Nat /\ a <= b - d /\ b - d \notin A
  OBVIOUS
<1>4. d # 0
  BY <1>3
<1>5. d - 1 \in Nat /\ d - 1 \notin N
  BY <1>2, <1>3, <1>4
<1>6. b - (d - 1) \in A
  BY <1>3, <1>5
<1>7. b - d \in a .. b - 1 /\ (b - d) + 1 = b - (d - 1)
  BY <1>3, <1>5
<1> QED
  BY <1>3, <1>6, <1>7

(* The function of Joined exists and is what its definition says.           *)
LEMMA JoinedSteps ==
    ASSUME NEW T, NEW w \in Seq(Seq(T))
    PROVE  /\ Joined(w)[0] = <<>>
           /\ \A k \in 0 .. Len(w) : Joined(w)[k] \in Seq(T)
           /\ \A k \in 1 .. Len(w) : Joined(w)[k] = Joined(w)[k - 1] \o w[k]
<1> DEFINE z == Len(w)
           Defines(f, m) == f = [i \in 0 .. m |-> IF i = 0 THEN <<>> ELSE f[i - 1] \o w[i]]
           A == {m \in 0 .. z : \E f : Defines(f, m)}
<1>1. z \in Nat
  OBVIOUS
<1> HIDE DEF z
<1>2. 0 \in A
  <2>1. Defines([i \in 0 .. 0 |-> <<>>], 0)
    OBVIOUS
  <2>2. 0 \in 0 .. z
    BY <1>1
  <2> HIDE DEF Defines
  <2> QED
    BY <2>1, <2>2
<1>3. ASSUME NEW m \in 0 .. z - 1, m \in A
      PROVE  m + 1 \in A
  <2>1. m + 1 \in 0 .. z /\ m \in Nat
    BY <1>1
  <2>2. PICK f : Defines(f, m)
    BY <1>3
  <2> DEFINE g == [i \in 0 .. m + 1 |-> IF i = m + 1 THEN f[m] \o w[m + 1] ELSE f[i]]
  <2>3. \A i \in 0 .. m + 1 : g[i] = IF i = 0 THEN <<>> ELSE g[i - 1] \o w[i]
    <3> SUFFICES ASSUME NEW i \in 0 .. m + 1
                 PROVE  g[i] = IF i = 0 THEN <<>> ELSE g[i - 1] \o w[i]
      OBVIOUS
    <3>1. CASE i = m + 1
      <4>1. i \in 0 .. m + 1 /\ i - 1 \in 0 .. m + 1 /\ i - 1 # m + 1 /\ i - 1 = m /\ i # 0
        BY <2>1, <3>1
      <4>2. g[i] = f[m] \o w[m + 1]
        BY <3>1
      <4>3. g[i - 1] = f[m]
        BY <4>1
      <4> HIDE DEF g
      <4> QED
        BY <3>1, <4>1, <4>2, <4>3
    <3>2. CASE i # m + 1
      <4>1. i \in 0 .. m /\ g[i] = f[i]
        BY <2>1, <3>2
      <4>2. f[i] = IF i = 0 THEN <<>> ELSE f[i - 1] \o w[i]
        BY <2>2, <4>1
      <4>3. i # 0 => g[i - 1] = f[i - 1]
        BY <2>1, <4>1
      <4> QED
        BY <4>1, <4>2, <4>3
    <3> QED
      BY <3>1, <3>2
  <2>4. Defines(g, m + 1)
    BY <2>3
  <2> QED
    BY <2>1, <2>4
<1>4. z \in A
  <2> HIDE DEF A
  <2>1. 0 \in Int /\ z \in Int /\ z \in 0 .. z
    BY <1>1
  <2> QED
    BY <1>2, <1>3, <2>1, Upwards
<1> DEFINE f == Joined(w)
<1>5. Defines(f, z)
  <2>1. \E c : Defines(c, z)
    BY <1>4
  <2>2. f = CHOOSE c : Defines(c, z)
    BY DEF Joined, z
  <2> HIDE DEF Defines, f, z
  <2> QED
    BY <2>1, <2>2, Zenon
<1>6. f[0] = <<>> /\ \A k \in 1 .. z : f[k] = f[k - 1] \o w[k]
  <2> HIDE DEF f
  <2>1. f[0] = <<>>
    BY <1>1, <1>5
  <2>2. ASSUME NEW k \in 1 .. z
        PROVE  f[k] = f[k - 1] \o w[k]
    <3>1. k \in 0 .. z /\ k # 0
      BY <1>1
    <3> QED
      BY <1>5, <3>1
  <2> QED
    BY <2>1, <2>2
<1> HIDE DEF f
<1>7. \A k \in 0 .. z : k \in {i \in 0 .. z : f[i] \in Seq(T)}
  <2> DEFINE B == {i \in 0 .. z : f[i] \in Seq(T)}
  <2>1. 0 \in B
    <3>1. 0 \in 0 .. z /\ <<>> \in Seq(T)
      BY <1>1
    <3> QED
      BY <1>6, <3>1
  <2>2. ASSUME NEW i \in 0 .. z - 1, i \in B
        PROVE  i + 1 \in B
    <3>1. i + 1 \in 1 .. z /\ f[i] \in Seq(T) /\ (i + 1) - 1 = i
      BY <1>1, <2>2
    <3>2. w[i + 1] \in Seq(T)
      BY <3>1 DEF z
    <3>3. f[i + 1] = f[i] \o w[i + 1]
      BY <1>6, <3>1
    <3>4. f[i] \o w[i + 1] \in Seq(T)
      BY <3>1, <3>2
    <3>5. i + 1 \in 0 .. z
      BY <1>1, <3>1
    <3> QED
      BY <3>3, <3>4, <3>5
  <2> HIDE DEF B
  <2>3. 0 \in Int /\ z \in Int
    BY <1>1
  <2>4. \A k \in 0 .. z : k \in B
    BY <2>1, <2>2, <2>3, Upwards
  <2> QED
    BY <2>4 DEF B
<1> QED
  BY <1>6, <1>7 DEF f, z

(* Where w[k] is in what has been joined.                                   *)
LEMMA JoinedPlaces ==
    ASSUME NEW T, NEW w \in Seq(Seq(T))
    PROVE  /\ \A k \in 0 .. Len(w) : Joined(w)[k] \in Seq(T)
           /\ Len(Joined(w)[0]) = 0
           /\ \A k \in 1 .. Len(w) : Len(Joined(w)[k]) = Len(Joined(w)[k - 1]) + Len(w[k])
           /\ \A k \in 1 .. Len(w) : Len(Joined(w)[k]) <= Len(Joined(w)[Len(w)])
           /\ \A k \in 1 .. Len(w) : \A i \in 1 .. Len(w[k]) :
                 Joined(w)[Len(w)][Len(Joined(w)[k - 1]) + i] = w[k][i]
<1> DEFINE z == Len(w)
           f == Joined(w)
<1>1. z \in Nat /\ w \in [1 .. z -> Seq(T)]
  OBVIOUS
<1>2. f[0] = <<>> /\ (\A k \in 0 .. z : f[k] \in Seq(T)) /\ \A k \in 1 .. z : f[k] = f[k - 1] \o w[k]
  BY JoinedSteps
<1> HIDE DEF f, z
<1>3. ASSUME NEW k \in 1 .. z
      PROVE  /\ w[k] \in Seq(T) /\ f[k - 1] \in Seq(T) /\ f[k] \in Seq(T)
             /\ Len(w[k]) \in Nat /\ Len(f[k - 1]) \in Nat /\ Len(f[k]) \in Nat
             /\ Len(f[k]) = Len(f[k - 1]) + Len(w[k])
             /\ \A i \in 1 .. Len(f[k - 1]) : f[k][i] = f[k - 1][i]
             /\ \A i \in 1 .. Len(w[k]) : f[k][Len(f[k - 1]) + i] = w[k][i]
  <2>1. k - 1 \in 0 .. z /\ k \in 0 .. z
    BY <1>1
  <2> DEFINE s == f[k - 1]
             t == w[k]
  <2>2. s \in Seq(T) /\ t \in Seq(T) /\ f[k] = s \o t /\ f[k] \in Seq(T)
    BY <1>1, <1>2, <2>1
  <2> HIDE DEF s, t
  <2>3. /\ Len(s \o t) = Len(s) + Len(t) /\ Len(s) \in Nat /\ Len(t) \in Nat /\ Len(s \o t) \in Nat
        /\ \A i \in 1 .. Len(s) : (s \o t)[i] = s[i]
        /\ \A i \in 1 .. Len(t) : (s \o t)[Len(s) + i] = t[i]
    BY <2>2
  <2> QED
    BY <2>2, <2>3 DEF s, t
<1>4. \A k \in 1 .. z : \A j \in k .. z : Len(f[k]) <= Len(f[j])
                           /\ \A i \in 1 .. Len(w[k]) : f[j][Len(f[k - 1]) + i] = w[k][i]
  <2> SUFFICES ASSUME NEW k \in 1 .. z
               PROVE  \A j \in k .. z : Len(f[k]) <= Len(f[j])
                           /\ \A i \in 1 .. Len(w[k]) : f[j][Len(f[k - 1]) + i] = w[k][i]
    OBVIOUS
  <2> DEFINE B == {j \in k .. z : Len(f[k]) <= Len(f[j])
                           /\ \A i \in 1 .. Len(w[k]) : f[j][Len(f[k - 1]) + i] = w[k][i]}
  <2>1. k \in B
    <3>1. k \in k .. z /\ Len(f[k]) \in Nat
      BY <1>1, <1>3
    <3>2. \A i \in 1 .. Len(w[k]) : f[k][Len(f[k - 1]) + i] = w[k][i]
      BY <1>3
    <3>3. Len(f[k]) <= Len(f[k])
      BY <3>1
    <3> QED
      BY <3>1, <3>2, <3>3, Zenon
  <2>2. ASSUME NEW j \in k .. z - 1, j \in B
        PROVE  j + 1 \in B
    <3>1. j + 1 \in 1 .. z /\ j + 1 \in k .. z /\ (j + 1) - 1 = j
      BY <1>1
    <3>2. /\ Len(f[j + 1]) = Len(f[j]) + Len(w[j + 1]) /\ Len(f[j]) \in Nat /\ Len(w[j + 1]) \in Nat
          /\ \A i \in 1 .. Len(f[j]) : f[j + 1][i] = f[j][i]
      <4> DEFINE e == j + 1
      <4>1. e \in 1 .. z /\ e - 1 = j
        BY <3>1
      <4> HIDE DEF e
      <4>2. /\ Len(f[e]) = Len(f[e - 1]) + Len(w[e]) /\ Len(f[e - 1]) \in Nat /\ Len(w[e]) \in Nat
            /\ \A i \in 1 .. Len(f[e - 1]) : f[e][i] = f[e - 1][i]
        BY <1>3, <4>1, Zenon
      <4> QED
        BY <4>1, <4>2, Zenon DEF e
    <3>3. Len(f[k]) = Len(f[k - 1]) + Len(w[k]) /\ Len(f[k - 1]) \in Nat /\ Len(w[k]) \in Nat
      BY <1>3, Zenon
    <3>4. Len(f[k]) <= Len(f[j]) /\ \A i \in 1 .. Len(w[k]) : f[j][Len(f[k - 1]) + i] = w[k][i]
      BY <2>2
    <3> DEFINE u == Len(f[k - 1])
               v == Len(f[j])
               lw == Len(w[k])
    <3>5. u \in Nat /\ v \in Nat /\ lw \in Nat /\ u + lw <= v
      BY <3>2, <3>3, <3>4
    <3>6. \A i \in 1 .. lw : u + i \in 1 .. v
      <4> HIDE DEF u, v, lw
      <4> QED
        BY <3>5
    <3>7. ASSUME NEW i \in 1 .. Len(w[k])
          PROVE  f[j + 1][Len(f[k - 1]) + i] = w[k][i]
      BY <3>2, <3>4, <3>6, Zenon
    <3>8. Len(f[k]) <= Len(f[j + 1])
      <4> DEFINE x == Len(f[k])
                 y == Len(f[j + 1])
                 lv == Len(w[j + 1])
      <4>1. x = u + lw /\ y = v + lv /\ lv \in Nat
        BY <3>2, <3>3
      <4> HIDE DEF u, v, lw, x, y, lv
      <4>2. x <= y
        BY <3>5, <4>1
      <4> QED
        BY <4>2 DEF x, y
    <3> QED
      BY <3>1, <3>7, <3>8, Zenon
  <2> HIDE DEF B
  <2>3. k \in Int /\ z \in Int
    BY <1>1
  <2>4. \A j \in k .. z : j \in B
    BY <2>1, <2>2, <2>3, Upwards
  <2> QED
    BY <2>4 DEF B
<1>5. Len(f[0]) = 0
  BY <1>2
<1>6. \A k \in 1 .. z : z \in k .. z
  BY <1>1
<1> QED
  BY <1>2, <1>3, <1>4, <1>5, <1>6 DEF f, z

-----------------------------------------------------------------------------
(***************************************************************************)
(* The bytes of a message.                                                 *)
(***************************************************************************)

(* A prefix with the next element.                                          *)
LEMMA PrefixGrows ==
    ASSUME NEW T, NEW s \in Seq(T), NEW i \in 0 .. Len(s) - 1
    PROVE  SubSeq(s, 1, i + 1) = Append(SubSeq(s, 1, i), s[i + 1])
<1> DEFINE t == SubSeq(s, 1, i)
<1>1. i \in Nat /\ i + 1 \in 1 .. Len(s) /\ Len(s) \in Nat
  OBVIOUS
<1>2. t \in Seq(T) /\ Len(t) = i /\ \A j \in 1 .. i : t[j] = s[j]
  <2>1. \A j \in 1 .. i : s[j] \in T
    BY <1>1
  <2> QED
    BY <1>1, <2>1, SubSeqProperties
<1>3. /\ SubSeq(s, 1, i + 1) \in Seq(T) /\ Len(SubSeq(s, 1, i + 1)) = i + 1
      /\ \A j \in 1 .. i + 1 : SubSeq(s, 1, i + 1)[j] = s[j]
  <2>1. \A j \in 1 .. i + 1 : s[j] \in T
    BY <1>1
  <2> QED
    BY <1>1, <2>1, SubSeqProperties
<1>4. s[i + 1] \in T
  BY <1>1
<1> HIDE DEF t
<1>5. /\ Append(t, s[i + 1]) \in Seq(T) /\ Len(Append(t, s[i + 1])) = i + 1
      /\ \A j \in 1 .. i + 1 : Append(t, s[i + 1])[j] = s[j]
  <2>1. \A j \in 1 .. i + 1 : j \in 1 .. i \/ j = i + 1
    BY <1>1
  <2> QED
    BY <1>1, <1>2, <1>4, <2>1
<1>6. SubSeq(s, 1, i + 1) = Append(t, s[i + 1])
  BY <1>3, <1>5, SeqEqual
<1> QED
  BY <1>6 DEF t

(* The shortest prefixes, and the longest.                                  *)
LEMMA PrefixEnds ==
    ASSUME NEW T, NEW s \in Seq(T)
    PROVE  /\ SubSeq(s, 1, 0) = <<>>
           /\ Len(s) > 0 => SubSeq(s, 1, 1) = <<s[1]>>
           /\ SubSeq(s, 1, Len(s)) = s
<1>1. SubSeq(s, 1, 0) = <<>>
  BY SubSeqEmpty
<1>2. ASSUME Len(s) > 0
      PROVE  SubSeq(s, 1, 1) = <<s[1]>>
  <2>1. 0 \in 0 .. Len(s) - 1 /\ 0 + 1 = 1
    BY <1>2
  <2>2. SubSeq(s, 1, 1) = Append(SubSeq(s, 1, 0), s[1])
    BY <2>1, PrefixGrows
  <2> DEFINE x == s[1]
  <2>3. x \in T
    BY <1>2
  <2> HIDE DEF x
  <2>4. Append(<<>>, x) = <<x>>
    BY <2>3
  <2> QED
    BY <1>1, <2>2, <2>4 DEF x
<1> QED
  BY <1>1, <1>2, SubSeqFull

(* What has no line end is not trimmed, and a line end behind it is.        *)
LEMMA RtrimKeeps ==
    ASSUME NEW s \in Chars, \A i \in DOMAIN s : s[i] # "nl"
    PROVE  rtrim(s) = s /\ rtrim(Append(s, "nl")) = s
<1> USE DEF Chars
<1> DEFINE z == Len(s)
           e == Append(s, "nl")
<1>1. z \in Nat /\ DOMAIN s = 1 .. z
  OBVIOUS
<1>2. /\ e \in Chars /\ DOMAIN e = 1 .. z + 1 /\ e[z + 1] = "nl"
      /\ \A i \in 1 .. z : e[i] = s[i]
  <2>1. "nl" \in Symbols
    BY DEF Symbols
  <2>2. e \in Seq(Symbols) /\ Len(e) = z + 1 /\ e[z + 1] = "nl" /\ \A i \in 1 .. z : e[i] = s[i]
    BY <2>1, AppendProperties
  <2> QED
    BY <2>2
<1>3. ASSUME NEW t, t \in {s, e}
      PROVE  rtrim(t) = s
  <2> DEFINE kept == {k \in DOMAIN t : t[k] # "nl"}
  <2>1. kept = 1 .. z
    <3>1. CASE t = s
      BY <1>1, <3>1
    <3>2. CASE t = e
      <4>1. \A k \in 1 .. z + 1 : k = z + 1 \/ k \in 1 .. z
        BY <1>1
      <4>2. \A k \in 1 .. z : k \in 1 .. z + 1
        BY <1>1
      <4> HIDE DEF e, z
      <4> QED
        BY <1>1, <1>2, <3>2, <4>1, <4>2
    <3> QED
      BY <1>3, <3>1, <3>2
  <2>2. t \in Seq(Symbols) /\ \A i \in 1 .. z : t[i] = s[i]
    BY <1>1, <1>2, <1>3
  <2> HIDE DEF e, z
  <2>3. CASE z = 0
    <3>1. kept = {} /\ s = <<>>
      BY <2>1, <2>3 DEF z
    <3> QED
      BY <3>1 DEF rtrim
  <2>4. CASE z > 0
    <3> DEFINE c == CHOOSE k \in kept : \A m \in kept : m <= k
    <3>1. z \in kept /\ \A m \in kept : m <= z
      BY <1>1, <2>1, <2>4
    <3> HIDE DEF kept
    <3>2. c \in kept /\ \A m \in kept : m <= c
      BY <3>1
    <3>3. c = z
      BY <1>1, <2>1, <3>1, <3>2
    <3>4. rtrim(t) = SubSeq(t, 1, z)
      <4>1. kept # {}
        BY <3>1
      <4>2. rtrim(t) = IF kept = {} THEN <<>> ELSE SubSeq(t, 1, c)
        BY Zenon DEF rtrim, kept
      <4> QED
        BY <3>3, <4>1, <4>2
    <3>5. SubSeq(t, 1, z) \in Seq(Symbols) /\ Len(SubSeq(t, 1, z)) = z /\ \A i \in 1 .. z : SubSeq(t, 1, z)[i] = s[i]
      <4>1. \A i \in 1 .. z : t[i] \in Symbols
        BY <1>1, <2>2
      <4>2. 1 \in Int /\ z \in Int
        BY <1>1
      <4>3. /\ SubSeq(t, 1, z) \in Seq(Symbols) /\ Len(SubSeq(t, 1, z)) = z
            /\ \A i \in 1 .. z : SubSeq(t, 1, z)[i] = t[i]
        BY <1>1, <2>4, <4>1, <4>2, SubSeqProperties
      <4> QED
        BY <2>2, <4>3
    <3>6. SubSeq(t, 1, z) = s
      <4>1. s \in Seq(Symbols) /\ Len(s) = z
        BY DEF z
      <4> QED
        BY <3>5, <4>1, SeqEqual
    <3> QED
      BY <3>4, <3>6
  <2> QED
    BY <1>1, <2>3, <2>4
<1> QED
  BY <1>3

(* Three pieces one behind the other.                                       *)
LEMMA ThreePieces ==
    ASSUME NEW s \in Chars, NEW t \in Chars, NEW u \in Chars
    PROVE  /\ s \o t \o u \in Chars
           /\ Len(s \o t \o u) = Len(s) + Len(t) + Len(u)
           /\ \A i \in 1 .. Len(s) : (s \o t \o u)[i] = s[i]
           /\ \A i \in 1 .. Len(t) : (s \o t \o u)[Len(s) + i] = t[i]
           /\ \A i \in 1 .. Len(u) : (s \o t \o u)[Len(s) + Len(t) + i] = u[i]
<1> USE DEF Chars
<1> DEFINE v == s \o t
<1>1. /\ v \in Seq(Symbols) /\ Len(v) = Len(s) + Len(t)
      /\ \A i \in 1 .. Len(s) : v[i] = s[i]
      /\ \A i \in 1 .. Len(t) : v[Len(s) + i] = t[i]
  OBVIOUS
<1> HIDE DEF v
<1>2. /\ v \o u \in Seq(Symbols) /\ Len(v \o u) = Len(v) + Len(u)
      /\ \A i \in 1 .. Len(v) : (v \o u)[i] = v[i]
      /\ \A i \in 1 .. Len(u) : (v \o u)[Len(v) + i] = u[i]
  <2>1. v \in Seq(Symbols)
    BY <1>1
  <2> QED
    BY ONLY <2>1, u \in Seq(Symbols)
<1>3. Len(s) \in Nat /\ Len(t) \in Nat /\ Len(u) \in Nat
  OBVIOUS
<1>4. \A i \in 1 .. Len(s) : (v \o u)[i] = s[i]
  <2>1. \A i \in 1 .. Len(s) : i \in 1 .. Len(v)
    BY <1>1, <1>3
  <2> QED
    BY <1>1, <1>2, <2>1
<1>5. \A i \in 1 .. Len(t) : (v \o u)[Len(s) + i] = t[i]
  <2>1. \A i \in 1 .. Len(t) : Len(s) + i \in 1 .. Len(v)
    BY <1>1, <1>3
  <2> QED
    BY <1>1, <1>2, <2>1
<1> QED
  BY <1>1, <1>2, <1>4, <1>5 DEF v

(* The lines of a section's name.                                           *)
LEMMA NameBytes ==
    ASSUME NEW s \in Chars
    PROVE  LET w == s \o <<"nl", "{", "nl">> IN
           /\ w \in Chars /\ Len(w) = Len(s) + 3
           /\ \A i \in 1 .. Len(s) : w[i] = s[i]
           /\ w[Len(s) + 1] = "nl" /\ w[Len(s) + 2] = "{" /\ w[Len(s) + 3] = "nl"
<1> DEFINE t == <<"nl", "{", "nl">>
           w == s \o t
<1>1. t \in Seq(Symbols) /\ Len(t) = 3 /\ t[1] = "nl" /\ t[2] = "{" /\ t[3] = "nl"
  BY DEF Symbols
<1>2. s \in Seq(Symbols) /\ Len(s) \in Nat
  BY DEF Chars
<1> HIDE DEF t
<1>3. /\ w \in Seq(Symbols) /\ Len(w) = Len(s) + 3
      /\ \A i \in 1 .. Len(s) + 3 : w[i] = IF i <= Len(s) THEN s[i] ELSE t[i - Len(s)]
  <2>1. /\ s \o t \in Seq(Symbols) /\ Len(s \o t) = Len(s) + Len(t)
        /\ \A i \in 1 .. Len(s) + Len(t) : (s \o t)[i] = IF i <= Len(s) THEN s[i] ELSE t[i - Len(s)]
    BY <1>1, <1>2, ConcatProperties, Zenon
  <2> QED
    BY <1>1, <2>1
<1> HIDE DEF w
<1>4. \A i \in 1 .. Len(s) : w[i] = s[i]
  BY <1>2, <1>3
<1>5. w[Len(s) + 1] = t[1] /\ w[Len(s) + 2] = t[2] /\ w[Len(s) + 3] = t[3]
  BY <1>2, <1>3
<1> QED
  BY <1>1, <1>3, <1>4, <1>5 DEF Chars, t, w

(* The line of a key and its value.                                         *)
LEMMA KeyBytes ==
    ASSUME NEW s \in Chars, NEW v \in Chars
    PROVE  LET w == s \o <<"=">> \o v \o <<"nl">> IN
           /\ w \in Chars /\ Len(w) = Len(s) + Len(v) + 2
           /\ \A i \in 1 .. Len(s) : w[i] = s[i]
           /\ w[Len(s) + 1] = "="
           /\ \A i \in 1 .. Len(v) : w[Len(s) + 1 + i] = v[i]
           /\ w[Len(s) + Len(v) + 2] = "nl"
<1> DEFINE x == s \o <<"=">> \o v
           w == x \o <<"nl">>
           p == Len(s)
           q == Len(v)
<1>1. /\ <<"=">> \in Chars /\ Len(<<"=">>) = 1 /\ <<"=">>[1] = "="
      /\ <<"nl">> \in Chars /\ Len(<<"nl">>) = 1 /\ <<"nl">>[1] = "nl"
  <2>1. "=" \in Symbols /\ "nl" \in Symbols
    BY DEF Symbols
  <2>2. <<"=">> \in Seq(Symbols) /\ Len(<<"=">>) = 1 /\ <<"=">>[1] = "="
    BY <2>1
  <2>3. <<"nl">> \in Seq(Symbols) /\ Len(<<"nl">>) = 1 /\ <<"nl">>[1] = "nl"
    BY <2>1
  <2> QED
    BY <2>2, <2>3 DEF Chars
<1>2. p \in Nat /\ q \in Nat
  BY DEF Chars
<1>3. /\ x \in Chars /\ Len(x) = p + 1 + q
      /\ \A i \in 1 .. p : x[i] = s[i]
      /\ \A i \in 1 .. 1 : x[p + i] = <<"=">>[i]
      /\ \A i \in 1 .. q : x[p + 1 + i] = v[i]
  <2> DEFINE e == <<"=">>
  <2>1. e \in Chars /\ Len(e) = 1
    BY <1>1
  <2> HIDE DEF e
  <2>2. /\ s \o e \o v \in Chars /\ Len(s \o e \o v) = p + Len(e) + q
        /\ \A i \in 1 .. p : (s \o e \o v)[i] = s[i]
        /\ \A i \in 1 .. Len(e) : (s \o e \o v)[p + i] = e[i]
        /\ \A i \in 1 .. q : (s \o e \o v)[p + Len(e) + i] = v[i]
    BY <2>1, ThreePieces, ZenonT(60)
  <2>3. x = s \o e \o v
    BY DEF e
  <2> HIDE DEF x
  <2> QED
    BY <2>1, <2>2, <2>3 DEF e
<1> HIDE DEF x
<1>4. /\ w \in Chars /\ Len(w) = p + q + 2
      /\ \A i \in 1 .. p + 1 + q : w[i] = x[i]
      /\ w[p + q + 2] = "nl"
  <2> DEFINE e == <<"nl">>
  <2>1. /\ w \in Seq(Symbols) /\ Len(w) = Len(x) + Len(e)
        /\ \A i \in 1 .. Len(x) + Len(e) : w[i] = IF i <= Len(x) THEN x[i] ELSE e[i - Len(x)]
    <3>1. x \in Seq(Symbols) /\ e \in Seq(Symbols)
      BY <1>1, <1>3 DEF Chars
    <3> QED
      BY <3>1, ConcatProperties, Zenon
  <2> HIDE DEF w, p, q, e
  <2>2. Len(x) + Len(e) = p + q + 2
    BY <1>1, <1>2, <1>3 DEF e
  <2>3. ASSUME NEW i \in 1 .. p + 1 + q
        PROVE  w[i] = x[i]
    BY <1>2, <1>3, <2>1, <2>2
  <2>4. w[p + q + 2] = e[1]
    BY <1>2, <1>3, <2>1, <2>2
  <2> QED
    BY <1>1, <2>1, <2>2, <2>3, <2>4 DEF e, Chars
<1>5. \A i \in 1 .. p : w[i] = s[i]
  <2>1. \A i \in 1 .. p : i \in 1 .. p + 1 + q
    BY <1>2
  <2> HIDE DEF w, p, q
  <2> QED
    BY <1>3, <1>4, <2>1
<1>6. w[p + 1] = "="
  <2>1. p + 1 \in 1 .. p + 1 + q /\ 1 \in 1 .. 1
    BY <1>2
  <2> HIDE DEF w, p, q
  <2> QED
    BY <1>1, <1>3, <1>4, <2>1
<1>7. \A i \in 1 .. q : w[p + 1 + i] = v[i]
  <2>1. \A i \in 1 .. q : p + 1 + i \in 1 .. p + 1 + q
    BY <1>2
  <2> HIDE DEF w, p, q
  <2> QED
    BY <1>3, <1>4, <2>1
<1> QED
  BY <1>4, <1>5, <1>6, <1>7 DEF x

(* What an entry of a readable message is.                                  *)
LEMMA EntryFacts ==
    ASSUME NEW m, Readable(m), NEW k \in 1 .. Len(m)
    PROVE  /\ m \in Seq(EntryType) /\ Len(m) \in Nat /\ m[k] \in EntryType
           /\ m[k].section \in Chars /\ Len(m[k].section) \in Nat /\ Len(m[k].section) > 0
           /\ m[k].key \in Chars /\ Len(m[k].key) \in Nat /\ m[k].value \in Chars /\ Len(m[k].value) \in Nat
           /\ m[k].sec \in Nat /\ Named(m[k].section)
           /\ m[k].key = Nil => m[k].value = Nil
           /\ m[k].key # Nil => /\ Named(m[k].key) /\ Len(m[k].key) > 0
                                /\ \A i \in DOMAIN m[k].value : m[k].value[i] # "nl"
           /\ k > 1 => Follows(m[k - 1], m[k])
<1>1. m \in Seq(EntryType) /\ Len(m) \in Nat /\ m[k] \in EntryType
  BY DEF Readable
<1>2. m[k].section \in Chars /\ m[k].key \in Chars /\ m[k].value \in Chars /\ m[k].sec \in Nat
  BY <1>1 DEF EntryType
<1>3. /\ Named(m[k].section)
      /\ m[k].key = Nil => m[k].value = Nil
      /\ m[k].key # Nil => Named(m[k].key) /\ \A i \in DOMAIN m[k].value : m[k].value[i] # "nl"
      /\ k > 1 => Follows(m[k - 1], m[k])
  BY DEF Readable
<1>4. ASSUME NEW s \in Chars
      PROVE  Len(s) \in Nat /\ (Named(s) => Len(s) > 0)
  <2>1. Len(s) \in Nat /\ (s # <<>> => Len(s) > 0)
    BY DEF Chars
  <2> QED
    BY <2>1 DEF Named
<1>5. Len(m[k].section) \in Nat /\ Len(m[k].key) \in Nat /\ Len(m[k].value) \in Nat
  BY <1>2, <1>4, Zenon
<1>6. Len(m[k].section) > 0 /\ (m[k].key # Nil => Len(m[k].key) > 0)
  BY <1>2, <1>3, <1>4, Zenon
<1> QED
  BY <1>1, <1>2, <1>3, <1>5, <1>6

(* The bytes of an entry.                                                   *)
LEMMA WrittenBytes ==
    ASSUME NEW m, Readable(m), NEW k \in 1 .. Len(m)
    PROVE  LET w == Written(m, k) IN
           /\ w \in Chars /\ NameLen(m, k) \in Nat /\ LineLen(m, k) \in Nat
           /\ Len(w) = NameLen(m, k) + LineLen(m, k) + (IF Closes(m, k) THEN 2 ELSE 0)
           /\ Opens(m, k) => /\ \A i \in 1 .. Len(m[k].section) : w[i] = m[k].section[i]
                             /\ w[Len(m[k].section) + 1] = "nl" /\ w[Len(m[k].section) + 2] = "{"
                             /\ w[Len(m[k].section) + 3] = "nl"
           /\ m[k].key # Nil =>
                 /\ \A i \in 1 .. Len(m[k].key) : w[NameLen(m, k) + i] = m[k].key[i]
                 /\ w[NameLen(m, k) + Len(m[k].key) + 1] = "="
                 /\ \A i \in 1 .. Len(m[k].value) :
                       w[NameLen(m, k) + Len(m[k].key) + 1 + i] = m[k].value[i]
                 /\ w[NameLen(m, k) + LineLen(m, k)] = "nl"
           /\ Closes(m, k) => /\ w[NameLen(m, k) + LineLen(m, k) + 1] = "}"
                              /\ w[NameLen(m, k) + LineLen(m, k) + 2] = "nl"
<1> DEFINE s == IF Opens(m, k) THEN m[k].section \o <<"nl", "{", "nl">> ELSE <<>>
           t == IF m[k].key # Nil THEN m[k].key \o <<"=">> \o m[k].value \o <<"nl">> ELSE <<>>
           u == IF Closes(m, k) THEN <<"}", "nl">> ELSE <<>>
           w == s \o t \o u
           ls == Len(m[k].section)
           lk == Len(m[k].key)
           lv == Len(m[k].value)
<1>1. Written(m, k) = w
  BY Zenon DEF Written, Opens
<1>2. ls \in Nat /\ lk \in Nat /\ lv \in Nat /\ m[k].section \in Chars /\ m[k].key \in Chars /\ m[k].value \in Chars
  BY EntryFacts
<1>3. <<>> \in Chars /\ Len(<<>>) = 0
  BY DEF Chars
<1> DEFINE sec == m[k].section
           key == m[k].key
           val == m[k].value
<1>4. /\ s \in Chars /\ Len(s) = NameLen(m, k) /\ NameLen(m, k) \in Nat
      /\ Opens(m, k) => /\ \A i \in 1 .. ls : s[i] = m[k].section[i]
                        /\ s[ls + 1] = "nl" /\ s[ls + 2] = "{" /\ s[ls + 3] = "nl" /\ Len(s) = ls + 3
  <2>1. CASE Opens(m, k)
    <3>1. s = m[k].section \o <<"nl", "{", "nl">>
      BY <2>1
    <3>2. NameLen(m, k) = ls + 3
      BY <2>1 DEF NameLen
    <3> HIDE DEF s
    <3>3. /\ s \in Chars /\ Len(s) = ls + 3
          /\ \A i \in 1 .. ls : s[i] = m[k].section[i]
          /\ s[ls + 1] = "nl" /\ s[ls + 2] = "{" /\ s[ls + 3] = "nl"
      BY <1>2, <3>1, NameBytes, Zenon
    <3>4. ls + 3 \in Nat
      <4> HIDE DEF ls
      <4> QED
        BY <1>2
    <3> HIDE DEF ls
    <3> QED
      BY <3>2, <3>3, <3>4, Zenon
  <2>2. CASE ~Opens(m, k)
    <3>1. s = <<>> /\ NameLen(m, k) = 0
      BY <2>2 DEF NameLen
    <3>2. 0 \in Nat
      OBVIOUS
    <3> HIDE DEF s
    <3>3. s \in Chars /\ Len(s) = NameLen(m, k) /\ NameLen(m, k) \in Nat
      BY <1>3, <3>1, <3>2, Zenon
    <3> QED
      BY <2>2, <3>3, Zenon
  <2> QED
    BY <2>1, <2>2
<1>5. /\ t \in Chars /\ Len(t) = LineLen(m, k) /\ LineLen(m, k) \in Nat
      /\ m[k].key # Nil => /\ \A i \in 1 .. lk : t[i] = m[k].key[i]
                           /\ t[lk + 1] = "="
                           /\ \A i \in 1 .. lv : t[lk + 1 + i] = m[k].value[i]
                           /\ t[lk + lv + 2] = "nl" /\ Len(t) = lk + lv + 2
  <2>1. CASE m[k].key # Nil
    <3>1. t = m[k].key \o <<"=">> \o m[k].value \o <<"nl">>
      BY <2>1
    <3>2. LineLen(m, k) = lk + lv + 2
      BY <2>1 DEF LineLen
    <3> HIDE DEF t
    <3>3. /\ t \in Chars /\ Len(t) = lk + lv + 2
          /\ \A i \in 1 .. lk : t[i] = m[k].key[i]
          /\ t[lk + 1] = "="
          /\ \A i \in 1 .. lv : t[lk + 1 + i] = m[k].value[i]
          /\ t[lk + lv + 2] = "nl"
      <4> HIDE DEF key, val
      <4>1. key \in Chars /\ val \in Chars
        BY <1>2 DEF key, val
      <4>2. LET x == key \o <<"=">> \o val \o <<"nl">> IN
            /\ x \in Chars /\ Len(x) = Len(key) + Len(val) + 2
            /\ \A i \in 1 .. Len(key) : x[i] = key[i]
            /\ x[Len(key) + 1] = "="
            /\ \A i \in 1 .. Len(val) : x[Len(key) + 1 + i] = val[i]
            /\ x[Len(key) + Len(val) + 2] = "nl"
        BY <4>1, KeyBytes, Zenon
      <4> QED
        BY <3>1, <4>2, Zenon DEF key, val
    <3>4. lk + lv + 2 \in Nat
      <4> HIDE DEF lk, lv
      <4> QED
        BY <1>2
    <3> HIDE DEF lk, lv
    <3> QED
      BY <3>2, <3>3, <3>4, Zenon
  <2>2. CASE m[k].key = Nil
    <3>1. t = <<>> /\ LineLen(m, k) = 0
      BY <2>2 DEF LineLen
    <3> HIDE DEF t
    <3> QED
      BY <1>3, <2>2, <3>1
  <2> QED
    BY <2>1, <2>2
<1>6. /\ u \in Chars /\ Len(u) = IF Closes(m, k) THEN 2 ELSE 0
      /\ Closes(m, k) => u[1] = "}" /\ u[2] = "nl"
  <2>1. CASE Closes(m, k)
    <3>1. u = <<"}", "nl">>
      BY <2>1
    <3>3. <<"}", "nl">> \in Seq(Symbols) /\ Len(<<"}", "nl">>) = 2
      BY ONLY TRUE DEF Symbols
    <3> HIDE DEF u
    <3>4. u \in Chars /\ Len(u) = 2 /\ u[1] = "}" /\ u[2] = "nl"
      BY <3>1, <3>3 DEF Chars
    <3> QED
      BY <2>1, <3>4
  <2>2. CASE ~Closes(m, k)
    <3>1. u = <<>>
      BY <2>2
    <3> HIDE DEF u
    <3>2. u \in Chars /\ Len(u) = 0
      BY <1>3, <3>1, Zenon
    <3> QED
      BY <2>2, <3>2
  <2> QED
    BY <2>1, <2>2
<1> DEFINE a == NameLen(m, k)
           b == LineLen(m, k)
<1> HIDE DEF s, t, u, ls, lk, lv, a, b, w
<1>7. /\ w \in Chars /\ Len(w) = a + b + Len(u)
      /\ \A i \in 1 .. a : w[i] = s[i]
      /\ \A i \in 1 .. b : w[a + i] = t[i]
      /\ \A i \in 1 .. Len(u) : w[a + b + i] = u[i]
  <2>1. Len(s) = a /\ Len(t) = b /\ s \in Chars /\ t \in Chars /\ u \in Chars
    BY <1>4, <1>5, <1>6 DEF a, b
  <2>2. /\ w \in Chars
        /\ Len(w) = Len(s) + Len(t) + Len(u)
        /\ \A i \in 1 .. Len(s) : w[i] = s[i]
        /\ \A i \in 1 .. Len(t) : w[Len(s) + i] = t[i]
        /\ \A i \in 1 .. Len(u) : w[Len(s) + Len(t) + i] = u[i]
    BY <2>1, ThreePieces, Zenon DEF w
  <2> QED
    BY <2>1, <2>2
<1>8. a \in Nat /\ b \in Nat /\ Len(s) = a /\ Len(t) = b
  BY <1>4, <1>5 DEF a, b
<1>9. ASSUME Opens(m, k)
      PROVE  /\ \A i \in 1 .. ls : w[i] = m[k].section[i]
             /\ w[ls + 1] = "nl" /\ w[ls + 2] = "{" /\ w[ls + 3] = "nl"
  <2>1. /\ \A i \in 1 .. ls : s[i] = m[k].section[i]
        /\ s[ls + 1] = "nl" /\ s[ls + 2] = "{" /\ s[ls + 3] = "nl" /\ a = ls + 3
    BY <1>4, <1>8, <1>9
  <2>2. ls + 1 \in 1 .. a /\ ls + 2 \in 1 .. a /\ ls + 3 \in 1 .. a /\ \A i \in 1 .. ls : i \in 1 .. a
    <3>1. ls \in Nat /\ a = ls + 3
      BY <1>2, <2>1
    <3> QED
      BY ONLY <3>1
  <2> QED
    BY <1>7, <2>1, <2>2
<1>10. ASSUME m[k].key # Nil
       PROVE  /\ \A i \in 1 .. lk : w[a + i] = m[k].key[i]
              /\ w[a + lk + 1] = "="
              /\ \A i \in 1 .. lv : w[a + lk + 1 + i] = m[k].value[i]
              /\ w[a + b] = "nl"
  <2>1. /\ \A i \in 1 .. lk : t[i] = m[k].key[i]
        /\ t[lk + 1] = "="
        /\ \A i \in 1 .. lv : t[lk + 1 + i] = m[k].value[i]
        /\ t[lk + lv + 2] = "nl" /\ b = lk + lv + 2
    BY <1>5, <1>8, <1>10
  <2>2. /\ \A i \in 1 .. lk : i \in 1 .. b
        /\ lk + 1 \in 1 .. b /\ a + (lk + 1) = a + lk + 1
        /\ \A i \in 1 .. lv : lk + 1 + i \in 1 .. b /\ a + (lk + 1 + i) = a + lk + 1 + i
        /\ lk + lv + 2 \in 1 .. b /\ a + (lk + lv + 2) = a + b
    BY <1>2, <1>8, <2>1
  <2>3. \A i \in 1 .. lk : w[a + i] = m[k].key[i]
    BY <1>7, <2>1, <2>2
  <2>4. w[a + lk + 1] = "="
    BY <1>7, <2>1, <2>2
  <2>5. ASSUME NEW i \in 1 .. lv
        PROVE  w[a + lk + 1 + i] = m[k].value[i]
    <3>1. w[a + (lk + 1 + i)] = t[lk + 1 + i]
      BY <1>7, <2>2
    <3> QED
      BY <2>1, <2>2, <3>1
  <2>6. w[a + b] = "nl"
    <3>1. w[a + (lk + lv + 2)] = t[lk + lv + 2]
      BY <1>7, <2>2
    <3> QED
      BY <2>1, <2>2, <3>1
  <2> QED
    BY <2>3, <2>4, <2>5, <2>6
<1>11. ASSUME Closes(m, k)
       PROVE  w[a + b + 1] = "}" /\ w[a + b + 2] = "nl"
  <2>1. Len(u) = 2 /\ u[1] = "}" /\ u[2] = "nl"
    BY <1>6, <1>11
  <2>2. 1 \in 1 .. 2 /\ 2 \in 1 .. 2
    OBVIOUS
  <2> QED
    BY <1>7, <2>1, <2>2
<1> QED
  BY <1>1, <1>6, <1>7, <1>8, <1>9, <1>10, <1>11, ZenonT(60) DEF ls, lk, lv, a, b, w

(* Where the bytes of the entries are in the packet.                        *)
LEMMA PacketPlaces ==
    ASSUME NEW m, Readable(m)
    PROVE  /\ parsedMsgToRawF(m) \in Chars
           /\ Ahead(m, 1) = 0 /\ Ahead(m, Len(m) + 1) = Len(parsedMsgToRawF(m))
           /\ \A k \in 1 .. Len(m) :
                 /\ Ahead(m, k) \in Nat /\ Ahead(m, k + 1) = Ahead(m, k) + Len(Written(m, k))
                 /\ \A i \in 1 .. Len(Written(m, k)) :
                       parsedMsgToRawF(m)[Ahead(m, k) + i] = Written(m, k)[i]
<1> DEFINE z == Len(m)
           w == Lines(m)
           P == parsedMsgToRawF(m)
<1>1. z \in Nat /\ m \in Seq(EntryType) /\ DOMAIN m = 1 .. z
  BY DEF Readable
<1>2. \A k \in 1 .. z : w[k] = Written(m, k) /\ Written(m, k) \in Seq(Symbols)
  <2>1. \A k \in 1 .. z : Written(m, k) \in Seq(Symbols)
    BY WrittenBytes DEF Chars
  <2> QED
    BY <1>1, <2>1 DEF Lines
<1>3. w \in Seq(Seq(Symbols)) /\ Len(w) = z
  <2>1. w = [k \in 1 .. z |-> Written(m, k)]
    BY <1>1 DEF Lines
  <2> HIDE DEF w, z
  <2>2. w \in [1 .. z -> Seq(Symbols)]
    BY <1>2, <2>1
  <2> QED
    BY <1>1, <2>2
<1> DEFINE f == Joined(w)
<1>4. P = f[z]
  BY DEF parsedMsgToRawF
<1>5. \A k \in Int : Ahead(m, k) = Len(f[k - 1])
  BY DEF Ahead
<1> HIDE DEF z, w, P, f
<1>6. /\ \A k \in 0 .. z : f[k] \in Seq(Symbols)
      /\ Len(f[0]) = 0
      /\ \A k \in 1 .. z : Len(f[k]) = Len(f[k - 1]) + Len(w[k])
      /\ \A k \in 1 .. z : \A i \in 1 .. Len(w[k]) : f[z][Len(f[k - 1]) + i] = w[k][i]
  <2> SUFFICES /\ \A k \in 0 .. Len(w) : Joined(w)[k] \in Seq(Symbols)
               /\ Len(Joined(w)[0]) = 0
               /\ \A k \in 1 .. Len(w) : Len(Joined(w)[k]) = Len(Joined(w)[k - 1]) + Len(w[k])
               /\ \A k \in 1 .. Len(w) : \A i \in 1 .. Len(w[k]) :
                     Joined(w)[Len(w)][Len(Joined(w)[k - 1]) + i] = w[k][i]
    BY <1>3, Zenon DEF f
  <2> QED
    BY <1>3, JoinedPlaces, Zenon
<1>7. P \in Chars
  <2>1. z \in 0 .. z
    BY <1>1
  <2> QED
    BY <1>4, <1>6, <2>1 DEF Chars
<1>8. Ahead(m, 1) = 0 /\ Ahead(m, z + 1) = Len(P)
  <2>1. 1 \in Int /\ 1 - 1 = 0 /\ z + 1 \in Int /\ (z + 1) - 1 = z
    BY <1>1
  <2> QED
    BY <1>4, <1>5, <1>6, <2>1
<1>9. ASSUME NEW k \in 1 .. z
      PROVE  /\ Ahead(m, k) \in Nat /\ Ahead(m, k + 1) = Ahead(m, k) + Len(Written(m, k))
             /\ \A i \in 1 .. Len(Written(m, k)) : P[Ahead(m, k) + i] = Written(m, k)[i]
  <2>1. k \in Int /\ k + 1 \in Int /\ (k + 1) - 1 = k /\ k - 1 \in 0 .. z
    BY <1>1
  <2>2. Ahead(m, k) = Len(f[k - 1]) /\ Ahead(m, k + 1) = Len(f[k])
    BY <1>5, <2>1
  <2>3. Len(f[k - 1]) \in Nat
    BY <1>6, <2>1
  <2>4. Ahead(m, k + 1) = Ahead(m, k) + Len(Written(m, k))
    BY <1>2, <1>6, <2>2
  <2>5. \A i \in 1 .. Len(w[k]) : f[z][Ahead(m, k) + i] = w[k][i]
    BY <1>6, <2>2
  <2>6. w[k] = Written(m, k)
    BY <1>2
  <2> QED
    BY <1>4, <2>2, <2>3, <2>4, <2>5, <2>6
<1> QED
  BY <1>7, <1>8, <1>9 DEF z, P

(* The bytes of an entry, by their places in the packet.                    *)
LEMMA EntryBytes ==
    ASSUME NEW m, Readable(m), NEW k \in 1 .. Len(m)
    PROVE  LET P == parsedMsgToRawF(m)
               a == Ahead(m, k)
               q == a + NameLen(m, k)
               e == q + LineLen(m, k)
               ls == Len(m[k].section)
               lk == Len(m[k].key)
               lv == Len(m[k].value)
           IN
           /\ a \in Nat /\ q \in Nat /\ e \in Nat /\ a <= q /\ q <= e
           /\ ls \in Nat /\ ls > 0 /\ lk \in Nat /\ lv \in Nat
           /\ Opens(m, k) => /\ \A i \in 1 .. ls : P[a + i] = m[k].section[i]
                             /\ P[a + ls + 1] = "nl" /\ P[a + ls + 2] = "{" /\ P[q] = "nl" /\ q = a + ls + 3
           /\ ~Opens(m, k) => q = a
           /\ m[k].key = Nil => e = q
           /\ m[k].key # Nil => /\ \A i \in 1 .. lk : P[q + i] = m[k].key[i]
                                /\ P[q + lk + 1] = "=" /\ lk > 0
                                /\ \A i \in 1 .. lv : P[q + lk + 1 + i] = m[k].value[i]
                                /\ P[e] = "nl" /\ e = q + lk + lv + 2
           /\ Closes(m, k) => P[e + 1] = "}" /\ P[e + 2] = "nl" /\ Ahead(m, k + 1) = e + 2
           /\ ~Closes(m, k) => Ahead(m, k + 1) = e
<1> DEFINE P == parsedMsgToRawF(m)
           a == Ahead(m, k)
           na == NameLen(m, k)
           nb == LineLen(m, k)
           q == a + na
           e == q + nb
           sec == m[k].section
           key == m[k].key
           val == m[k].value
           ls == Len(sec)
           lk == Len(key)
           lv == Len(val)
           w == Written(m, k)
           lw == Len(w)
<1>1. /\ a \in Nat /\ Ahead(m, k + 1) = a + lw
      /\ \A i \in 1 .. lw : P[a + i] = w[i]
  BY PacketPlaces, Zenon
<1>2. ls \in Nat /\ ls > 0 /\ lk \in Nat /\ lv \in Nat /\ (key # Nil => lk > 0)
  BY EntryFacts, Zenon
<1>3. na \in Nat /\ nb \in Nat /\ lw = na + nb + (IF Closes(m, k) THEN 2 ELSE 0)
  BY WrittenBytes, ZenonT(60)
<1>4. Opens(m, k) => /\ \A i \in 1 .. ls : w[i] = sec[i]
                     /\ w[ls + 1] = "nl" /\ w[ls + 2] = "{" /\ w[ls + 3] = "nl"
  BY WrittenBytes, Zenon
<1>5. key # Nil => /\ \A i \in 1 .. lk : w[na + i] = key[i]
                   /\ w[na + lk + 1] = "="
                   /\ \A i \in 1 .. lv : w[na + lk + 1 + i] = val[i]
                   /\ w[na + nb] = "nl"
  BY WrittenBytes, Zenon
<1>6. Closes(m, k) => w[na + nb + 1] = "}" /\ w[na + nb + 2] = "nl"
  BY WrittenBytes, Zenon
<1>7. na = IF Opens(m, k) THEN ls + 3 ELSE 0
  BY DEF NameLen
<1>8. nb = IF key # Nil THEN lk + lv + 2 ELSE 0
  BY DEF LineLen
<1> HIDE DEF P, a, na, nb, sec, key, val, ls, lk, lv, w, lw
<1>9. /\ q \in Nat /\ e \in Nat /\ a <= q /\ q <= e /\ (~Opens(m, k) => q = a) /\ (key = Nil => e = q)
      /\ Closes(m, k) => Ahead(m, k + 1) = e + 2
      /\ ~Closes(m, k) => Ahead(m, k + 1) = e
  <2>1. q \in Nat /\ e \in Nat /\ a <= q /\ q <= e
    BY <1>1, <1>3
  <2>2. (~Opens(m, k) => q = a) /\ (key = Nil => e = q)
    BY <1>1, <1>3, <1>7, <1>8
  <2>3. Ahead(m, k + 1) = e + (IF Closes(m, k) THEN 2 ELSE 0)
    BY <1>1, <1>3
  <2>4. e + 0 = e
    BY <2>1
  <2> HIDE DEF q, e
  <2> QED
    BY <2>1, <2>2, <2>3, <2>4
<1>10. ASSUME Opens(m, k)
       PROVE  /\ \A i \in 1 .. ls : P[a + i] = sec[i]
              /\ P[a + ls + 1] = "nl" /\ P[a + ls + 2] = "{" /\ P[q] = "nl" /\ q = a + ls + 3
  <2>1. /\ \A i \in 1 .. ls : i \in 1 .. lw
        /\ ls + 1 \in 1 .. lw /\ ls + 2 \in 1 .. lw /\ ls + 3 \in 1 .. lw
        /\ a + (ls + 1) = a + ls + 1 /\ a + (ls + 2) = a + ls + 2 /\ a + (ls + 3) = q /\ q = a + ls + 3
    BY <1>1, <1>2, <1>3, <1>7, <1>10
  <2>2. P[a + (ls + 1)] = w[ls + 1] /\ P[a + (ls + 2)] = w[ls + 2] /\ P[a + (ls + 3)] = w[ls + 3]
    BY <1>1, <2>1, Zenon
  <2>3. \A i \in 1 .. ls : P[a + i] = sec[i]
    BY <1>1, <1>4, <1>10, <2>1, Zenon
  <2> QED
    BY <1>4, <1>10, <2>1, <2>2, <2>3
<1>11. ASSUME key # Nil
       PROVE  /\ \A i \in 1 .. lk : P[q + i] = key[i]
              /\ P[q + lk + 1] = "="
              /\ \A i \in 1 .. lv : P[q + lk + 1 + i] = val[i]
              /\ P[e] = "nl" /\ e = q + lk + lv + 2
  <2>1. /\ \A i \in 1 .. lk : na + i \in 1 .. lw /\ a + (na + i) = q + i
        /\ na + lk + 1 \in 1 .. lw /\ a + (na + lk + 1) = q + lk + 1
        /\ \A i \in 1 .. lv : na + lk + 1 + i \in 1 .. lw /\ a + (na + lk + 1 + i) = q + lk + 1 + i
        /\ na + nb \in 1 .. lw /\ a + (na + nb) = e /\ e = q + lk + lv + 2
    BY <1>1, <1>2, <1>3, <1>8, <1>11
  <2> HIDE DEF q, e
  <2>2. ASSUME NEW i \in 1 .. lk
        PROVE  P[q + i] = key[i]
    <3>1. P[a + (na + i)] = w[na + i]
      BY <1>1, <2>1, Zenon
    <3> QED
      BY <1>5, <1>11, <2>1, <3>1, Zenon
  <2>3. P[q + lk + 1] = "="
    <3>1. P[a + (na + lk + 1)] = w[na + lk + 1]
      BY <1>1, <2>1, Zenon
    <3> QED
      BY <1>5, <1>11, <2>1, <3>1, Zenon
  <2>4. ASSUME NEW i \in 1 .. lv
        PROVE  P[q + lk + 1 + i] = val[i]
    <3>1. P[a + (na + lk + 1 + i)] = w[na + lk + 1 + i]
      BY <1>1, <2>1, Zenon
    <3> QED
      BY <1>5, <1>11, <2>1, <3>1, Zenon
  <2>5. P[e] = "nl"
    <3>1. P[a + (na + nb)] = w[na + nb]
      BY <1>1, <2>1, Zenon
    <3> QED
      BY <1>5, <1>11, <2>1, <3>1, Zenon
  <2> QED
    BY <2>1, <2>2, <2>3, <2>4, <2>5
<1>12. ASSUME Closes(m, k)
       PROVE  P[e + 1] = "}" /\ P[e + 2] = "nl"
  <2>1. /\ na + nb + 1 \in 1 .. lw /\ a + (na + nb + 1) = e + 1
        /\ na + nb + 2 \in 1 .. lw /\ a + (na + nb + 2) = e + 2
    BY <1>1, <1>3, <1>12
  <2>2. P[a + (na + nb + 1)] = w[na + nb + 1] /\ P[a + (na + nb + 2)] = w[na + nb + 2]
    BY <1>1, <2>1, Zenon
  <2> HIDE DEF q, e
  <2> QED
    BY <1>6, <1>12, <2>1, <2>2, Zenon
<1> QED
  BY <1>1, <1>2, <1>9, <1>10, <1>11, <1>12 DEF P, a, na, nb, sec, key, val, ls, lk, lv

(* In parts: where the entry, its line and its end are,                     *)
LEMMA EntryPlaces ==
    ASSUME NEW m, Readable(m), NEW k \in 1 .. Len(m)
    PROVE  LET a == Ahead(m, k)
               q == Ahead(m, k) + NameLen(m, k)
               e == Ahead(m, k) + NameLen(m, k) + LineLen(m, k)
               ls == Len(m[k].section)
               lk == Len(m[k].key)
               lv == Len(m[k].value) IN
           /\ a \in Nat /\ q \in Nat /\ e \in Nat /\ a <= q /\ q <= e
           /\ ls \in Nat /\ ls > 0 /\ lk \in Nat /\ lv \in Nat
           /\ Opens(m, k) => q = a + ls + 3
           /\ m[k].key = Nil => e = q
           /\ m[k].key # Nil => e = q + lk + lv + 2
BY EntryBytes, ZenonT(60)

(* the name of its section,                                                 *)
LEMMA EntryOpens ==
    ASSUME NEW m, Readable(m), NEW k \in 1 .. Len(m)
    PROVE  LET P == parsedMsgToRawF(m)
               a == Ahead(m, k)
               q == Ahead(m, k) + NameLen(m, k)
               ls == Len(m[k].section) IN
           Opens(m, k) => /\ \A i \in 1 .. ls : P[a + i] = m[k].section[i]
                          /\ P[a + ls + 1] = "nl" /\ P[a + ls + 2] = "{" /\ P[q] = "nl" /\ q = a + ls + 3
BY EntryBytes, ZenonT(60)

(* its line,                                                                *)
LEMMA EntryLine ==
    ASSUME NEW m, Readable(m), NEW k \in 1 .. Len(m)
    PROVE  LET P == parsedMsgToRawF(m)
               q == Ahead(m, k) + NameLen(m, k)
               e == Ahead(m, k) + NameLen(m, k) + LineLen(m, k)
               lk == Len(m[k].key)
               lv == Len(m[k].value) IN
           m[k].key # Nil => /\ \A i \in 1 .. lk : P[q + i] = m[k].key[i]
                             /\ P[q + lk + 1] = "=" /\ lk > 0
                             /\ \A i \in 1 .. lv : P[q + lk + 1 + i] = m[k].value[i]
                             /\ P[e] = "nl" /\ e = q + lk + lv + 2
BY EntryBytes, ZenonT(60)

(* and the end of its section.                                              *)
LEMMA EntryCloses ==
    ASSUME NEW m, Readable(m), NEW k \in 1 .. Len(m)
    PROVE  LET P == parsedMsgToRawF(m)
               e == Ahead(m, k) + NameLen(m, k) + LineLen(m, k) IN
           /\ Closes(m, k) => P[e + 1] = "}" /\ P[e + 2] = "nl" /\ Ahead(m, k + 1) = e + 2
           /\ ~Closes(m, k) => Ahead(m, k + 1) = e
<1> DEFINE P == parsedMsgToRawF(m)
           e == Ahead(m, k) + NameLen(m, k) + LineLen(m, k)
<1>1. Closes(m, k) => P[e + 1] = "}"
  BY EntryBytes, ZenonT(60)
<1>2. Closes(m, k) => P[e + 2] = "nl"
  BY EntryBytes, ZenonT(60)
<1>3. Closes(m, k) => Ahead(m, k + 1) = e + 2
  BY EntryBytes, ZenonT(60)
<1>4. ~Closes(m, k) => Ahead(m, k + 1) = e
  BY EntryBytes, ZenonT(60)
<1> QED
  BY <1>1, <1>2, <1>3, <1>4, Zenon

-----------------------------------------------------------------------------
(***************************************************************************)
(* The steps of the parser.                                                *)
(***************************************************************************)

LEMMA RtrimType ==
    ASSUME NEW s \in Chars
    PROVE  rtrim(s) \in Chars
<1> DEFINE kept == {k \in DOMAIN s : s[k] # "nl"}
           c == CHOOSE k \in kept : \A m \in kept : m <= k
<1>1. rtrim(s) = IF kept = {} THEN <<>> ELSE SubSeq(s, 1, c)
  BY Zenon DEF rtrim
<1>2. CASE kept = {}
  BY <1>1, <1>2 DEF Chars
<1>3. CASE kept # {}
  <2> DEFINE N == {Len(s) - k : k \in kept}
  <2>1. Len(s) \in Nat /\ \A k \in kept : k \in 1 .. Len(s)
    BY DEF Chars
  <2> HIDE DEF kept
  <2>2. N \in SUBSET Nat /\ N # {}
    BY <1>3, <2>1
  <2>3. PICK j \in N : \A d \in N : j <= d
    BY <2>2, LeastElement
  <2>4. PICK g \in kept : j = Len(s) - g
    OBVIOUS
  <2>5. \A k \in kept : k <= g
    <3> SUFFICES ASSUME NEW k \in kept
                 PROVE  k <= g
      OBVIOUS
    <3>1. Len(s) - k \in N
      OBVIOUS
    <3> DEFINE z == Len(s)
    <3>2. k \in 1 .. z /\ g \in 1 .. z /\ z \in Nat /\ z - g <= z - k
      BY <2>1, <2>3, <2>4, <3>1
    <3> HIDE DEF z
    <3> QED
      BY <3>2
  <2>6. c \in kept
    BY <2>5
  <2> HIDE DEF c
  <2>7. c \in 1 .. Len(s)
    BY <2>1, <2>6
  <2>8. \A i \in 1 .. c : s[i] \in Symbols
    BY <2>1, <2>7 DEF Chars
  <2>9. SubSeq(s, 1, c) \in Seq(Symbols)
    BY <2>7, <2>8, SubSeqProperties
  <2> QED
    BY <1>1, <1>3, <2>9 DEF Chars
<1> QED
  BY <1>2, <1>3

(* What the parser does with a byte.                                        *)
LEMMA ParseByteIs ==
    ASSUME NEW r, NEW b
    PROVE  /\ r.stop \/ r.state = "OVERRUN" => parseByte(r, b) = r
           /\ ~r.stop /\ r.state = "START_SECTION_NAME" => parseByte(r, b) = inSectionStart(r, b)
           /\ ~r.stop /\ r.state = "IN_SECTION_NAME" => parseByte(r, b) = inSectionName(r, b)
           /\ ~r.stop /\ r.state = "START_KEYNAME" => parseByte(r, b) = inKeyStart(r, b)
           /\ ~r.stop /\ r.state = "IN_KEYNAME" => parseByte(r, b) = inKeyName(r, b)
           /\ ~r.stop /\ r.state = "IN_KEYVALUE" => parseByte(r, b) = inKeyValue(r, b)
<1>1. r.stop \/ r.state = "OVERRUN" => parseByte(r, b) = r
  BY DEF parseByte
<1>2. ~r.stop /\ r.state = "START_SECTION_NAME" => parseByte(r, b) = inSectionStart(r, b)
  BY DEF parseByte
<1>3. ~r.stop /\ r.state = "IN_SECTION_NAME" => parseByte(r, b) = inSectionName(r, b)
  BY DEF parseByte
<1>4. ~r.stop /\ r.state = "START_KEYNAME" => parseByte(r, b) = inKeyStart(r, b)
  BY DEF parseByte
<1>5. ~r.stop /\ r.state = "IN_KEYNAME" => parseByte(r, b) = inKeyName(r, b)
  BY DEF parseByte
<1>6. ~r.stop /\ r.state = "IN_KEYVALUE" => parseByte(r, b) = inKeyValue(r, b)
  BY DEF parseByte
<1> QED
  BY <1>1, <1>2, <1>3, <1>4, <1>5, <1>6

(* A frame stays one.                                                       *)
LEMMA ParseByteType ==
    ASSUME NEW r \in FrameType, NEW b \in Symbols
    PROVE  parseByte(r, b) \in FrameType
<1>1. /\ r.n \in Nat /\ r.section \in Chars /\ r.key \in Chars /\ r.cur \in Chars /\ r.keycount \in Nat
      /\ r.parsedMsg \in Seq(EntryType) /\ r.stop \in BOOLEAN
  BY DEF FrameType
<1>2. <<>> \in Chars /\ <<b>> \in Chars /\ Append(r.cur, b) \in Chars /\ rtrim(r.cur) \in Chars
  <2>1. rtrim(r.cur) \in Chars
    BY <1>1, RtrimType
  <2> QED
    BY <1>1, <2>1 DEF Chars
<1>3. Nil \in Chars
  <2>1. "NULL" \in Symbols
    BY DEF Symbols
  <2>2. <<"NULL">> \in Seq(Symbols)
    BY <2>1
  <2> QED
    BY <2>2 DEF Nil, Chars
<1>4. \A s, t, u \in Chars : \A j \in Nat : Append(r.parsedMsg, Entry(j, s, t, u)) \in Seq(EntryType)
  BY <1>1 DEF Entry, EntryType
<1>5. CASE r.stop \/ r.state = "OVERRUN"
  BY <1>5, ParseByteIs
<1>6. CASE ~r.stop /\ r.state = "START_SECTION_NAME"
  <2>1. inSectionStart(r, b) \in FrameType
    <3>1. r.n + 1 \in Nat
      BY <1>1
    <3>2. CASE b = "nl"
      BY <3>2 DEF inSectionStart
    <3>3. CASE b # "nl"
      BY <1>1, <1>2, <3>1, <3>3 DEF inSectionStart, FrameType
    <3> QED
      BY <3>2, <3>3
  <2> QED
    BY <1>6, <2>1, ParseByteIs
<1>7. CASE ~r.stop /\ r.state = "IN_SECTION_NAME"
  <2>1. inSectionName(r, b) \in FrameType
    BY <1>1, <1>2 DEF inSectionName, FrameType
  <2> QED
    BY <1>7, <2>1, ParseByteIs
<1>8. CASE ~r.stop /\ r.state = "START_KEYNAME"
  <2>1. inKeyStart(r, b) \in FrameType
    <3>1. Append(r.parsedMsg, Entry(r.n, r.section, Nil, Nil)) \in Seq(EntryType)
      BY <1>1, <1>3, <1>4
    <3> QED
      BY <1>1, <1>2, <3>1 DEF inKeyStart, FrameType
  <2> QED
    BY <1>8, <2>1, ParseByteIs
<1>9. CASE ~r.stop /\ r.state = "IN_KEYNAME"
  <2>1. inKeyName(r, b) \in FrameType
    BY <1>1, <1>2 DEF inKeyName, FrameType
  <2> QED
    BY <1>9, <2>1, ParseByteIs
<1>10. CASE ~r.stop /\ r.state = "IN_KEYVALUE"
  <2>1. inKeyValue(r, b) \in FrameType
    <3>1. Append(r.parsedMsg, Entry(r.n, r.section, r.key, rtrim(r.cur))) \in Seq(EntryType)
      BY <1>1, <1>2, <1>4
    <3>2. (Len(r.parsedMsg) + 1 >= MSG_ELEMENTS) \in BOOLEAN /\ r.keycount + 1 \in Nat
      BY <1>1
    <3> QED
      BY <1>1, <1>2, <3>1, <3>2 DEF inKeyValue, FrameType
  <2> QED
    BY <1>10, <2>1, ParseByteIs
<1>11. r.state \in {"START_SECTION_NAME", "IN_SECTION_NAME", "START_KEYNAME", "IN_KEYNAME", "IN_KEYVALUE",
                    "OVERRUN"}
  BY DEF FrameType
<1> QED
  BY <1>5, <1>6, <1>7, <1>8, <1>9, <1>10, <1>11

(* The bytes of a name.                                                     *)
LEMMA NamedAt ==
    ASSUME NEW s \in Chars, Named(s), NEW i \in 1 .. Len(s)
    PROVE  s[i] \notin {"nl", "=", "{", "}"} /\ s[i] \in Symbols
<1>1. s \in Seq(Symbols)
  BY DEF Chars
<1>2. i \in DOMAIN s /\ s[i] \in Symbols
  BY <1>1
<1> QED
  BY <1>2 DEF Named

(* A name and the end of its line.                                          *)
LEMMA EndOfLine ==
    ASSUME NEW s \in Chars
    PROVE  /\ Append(s, "nl") \in Seq(Symbols) /\ Len(Append(s, "nl")) = Len(s) + 1
           /\ Append(s, "nl")[Len(s) + 1] = "nl" /\ \A j \in 1 .. Len(s) : Append(s, "nl")[j] = s[j]
<1>1. "nl" \in Symbols /\ s \in Seq(Symbols)
  BY DEF Symbols, Chars
<1> QED
  BY <1>1, AppendProperties

(* The first byte of a section's name.                                      *)
LEMMA SectionBegins ==
    ASSUME NEW m, Readable(m), NEW k \in 1 .. Len(m), NEW r \in FrameType, ~r.stop,
           AtSection(m, k, r)
    PROVE  LET f == parseByte(r, m[k].section[1]) IN ~f.stop /\ InSection(m, k, 1, f)
<1> DEFINE s == m[k].section
           b == s[1]
           f == parseByte(r, b)
<1>1. s \in Chars /\ Len(s) \in Nat /\ Len(s) > 0 /\ Named(s)
  BY EntryFacts
<1>2. b # "nl" /\ b \in Symbols /\ 1 \in 1 .. Len(s)
  <2>1. 1 \in 1 .. Len(s)
    BY <1>1
  <2> QED
    BY <1>1, <2>1, NamedAt
<1>3. f = [r EXCEPT !.state = "IN_SECTION_NAME", !.cur = <<b>>, !.n = @ + 1]
  <2>1. f = inSectionStart(r, b)
    BY ParseByteIs DEF AtSection
  <2> HIDE DEF b, f
  <2> QED
    BY <1>2, <2>1 DEF inSectionStart
<1>4. SubSeq(Append(s, "nl"), 1, 1) = <<b>>
  <2> DEFINE t == Append(s, "nl")
  <2>1. t \in Seq(Symbols) /\ Len(t) > 0 /\ t[1] = b
    BY <1>1, <1>2, EndOfLine
  <2> HIDE DEF t, b
  <2> QED
    BY <2>1, PrefixEnds DEF t
<1> HIDE DEF b, f
<1>5. f.state = "IN_SECTION_NAME" /\ f.cur = <<b>> /\ f.n = r.n + 1 /\ f.parsedMsg = r.parsedMsg /\ f.stop = r.stop
  BY <1>3 DEF FrameType
<1> QED
  BY <1>4, <1>5 DEF AtSection, InSection, f, b

(* The next one, or the end of its line.                                    *)
LEMMA SectionGoesOn ==
    ASSUME NEW m, Readable(m), NEW k \in 1 .. Len(m), NEW r \in FrameType, ~r.stop,
           NEW i \in 1 .. Len(m[k].section), InSection(m, k, i, r)
    PROVE  LET f == parseByte(r, IF i = Len(m[k].section) THEN "nl" ELSE m[k].section[i + 1])
           IN  ~f.stop /\ InSection(m, k, i + 1, f)
<1> DEFINE s == m[k].section
           b == IF i = Len(s) THEN "nl" ELSE s[i + 1]
           f == parseByte(r, b)
           t == Append(s, "nl")
<1>1. s \in Chars /\ Len(s) \in Nat /\ Len(s) > 0 /\ Named(s)
  BY EntryFacts
<1>2. t \in Seq(Symbols) /\ Len(t) = Len(s) + 1 /\ t[i + 1] = b /\ b # "{"
  <2>2. t \in Seq(Symbols) /\ Len(t) = Len(s) + 1 /\ t[Len(s) + 1] = "nl" /\ \A j \in 1 .. Len(s) : t[j] = s[j]
    BY <1>1, EndOfLine
  <2>3. CASE i = Len(s)
    BY <2>2, <2>3
  <2>4. CASE i # Len(s)
    <3>1. i + 1 \in 1 .. Len(s)
      BY <1>1, <2>4
    <3>2. s[i + 1] # "{"
      BY <1>1, <3>1, NamedAt
    <3> QED
      BY <2>2, <2>4, <3>1, <3>2
  <2> QED
    BY <2>3, <2>4
<1>3. f = [r EXCEPT !.cur = Append(@, b)]
  <2>1. f = inSectionName(r, b)
    BY ParseByteIs DEF InSection
  <2> HIDE DEF b, f
  <2> QED
    BY <1>2, <2>1 DEF inSectionName
<1>4. SubSeq(t, 1, i + 1) = Append(SubSeq(t, 1, i), b)
  <2>1. i \in 0 .. Len(t) - 1
    <3> DEFINE z == Len(s)
    <3>1. i \in 1 .. z /\ z \in Nat /\ Len(t) = z + 1
      BY <1>1, <1>2
    <3> HIDE DEF z, t
    <3> QED
      BY <3>1
  <2> HIDE DEF t, b
  <2> QED
    BY <1>2, <2>1, PrefixGrows
<1> HIDE DEF b, f
<1>5. f.state = r.state /\ f.cur = Append(r.cur, b) /\ f.n = r.n /\ f.parsedMsg = r.parsedMsg /\ f.stop = r.stop
  BY <1>3 DEF FrameType
<1> QED
  BY <1>4, <1>5 DEF InSection, f, b

(* The brace behind it.                                                     *)
LEMMA SectionOpens ==
    ASSUME NEW m, Readable(m), NEW k \in 1 .. Len(m), NEW r \in FrameType, ~r.stop, Opens(m, k),
           InSection(m, k, Len(m[k].section) + 1, r)
    PROVE  LET f == parseByte(r, "{") IN ~f.stop /\ AtKey(m, k, f)
<1> DEFINE s == m[k].section
           f == parseByte(r, "{")
           t == Append(s, "nl")
<1>1. s \in Chars /\ Named(s)
  BY EntryFacts
<1>2. rtrim(t) = s
  BY <1>1, RtrimKeeps DEF Named
<1>3. r.cur = t
  <2>1. r.cur = SubSeq(t, 1, Len(s) + 1)
    BY DEF InSection
  <2>2. t \in Seq(Symbols) /\ Len(t) = Len(s) + 1
    BY <1>1, EndOfLine
  <2> HIDE DEF t
  <2> QED
    BY <2>1, <2>2, PrefixEnds
<1>4. f = [r EXCEPT !.state = "START_KEYNAME", !.section = rtrim(r.cur), !.keycount = 0]
  <2>1. f = inSectionName(r, "{")
    BY ParseByteIs DEF InSection
  <2> HIDE DEF f
  <2> QED
    BY <2>1 DEF inSectionName
<1> HIDE DEF f
<1>5. /\ f.state = "START_KEYNAME" /\ f.section = rtrim(r.cur) /\ f.keycount = 0 /\ f.n = r.n
      /\ f.parsedMsg = r.parsedMsg /\ f.stop = r.stop
  BY <1>4 DEF FrameType
<1> QED
  BY <1>2, <1>3, <1>5 DEF InSection, AtKey, Within, f

(* An end of line before a key.                                             *)
LEMMA KeySkips ==
    ASSUME NEW m, NEW k, NEW r \in FrameType, ~r.stop, AtKey(m, k, r)
    PROVE  parseByte(r, "nl") = r
<1>1. parseByte(r, "nl") = inKeyStart(r, "nl")
  BY ParseByteIs DEF AtKey
<1> QED
  BY <1>1 DEF inKeyStart

(* An entry is added as it was written.                                     *)
LEMMA EntryKept ==
    ASSUME NEW m, Readable(m), NEW k \in 1 .. Len(m)
    PROVE  /\ SubSeq(m, 1, k) = Append(SubSeq(m, 1, k - 1), m[k])
           /\ Len(SubSeq(m, 1, k - 1)) = k - 1
           /\ m[k] = Entry(m[k].sec, m[k].section, m[k].key, m[k].value)
<1>1. m \in Seq(EntryType) /\ Len(m) \in Nat /\ m[k] \in EntryType
  BY EntryFacts
<1>2. k - 1 \in 0 .. Len(m) - 1 /\ (k - 1) + 1 = k
  BY <1>1
<1>3. SubSeq(m, 1, k) = Append(SubSeq(m, 1, k - 1), m[k])
  BY <1>1, <1>2, PrefixGrows
<1>4. Len(SubSeq(m, 1, k - 1)) = k - 1
  <2>1. \A i \in 1 .. k - 1 : m[i] \in EntryType
    BY <1>1
  <2>2. Len(SubSeq(m, 1, k - 1)) = IF 1 <= k - 1 THEN (k - 1) - 1 + 1 ELSE 0
    BY <2>1, SubSeqProperties
  <2> QED
    BY <2>2
<1>5. m[k] = Entry(m[k].sec, m[k].section, m[k].key, m[k].value)
  BY <1>1 DEF EntryType, Entry
<1> QED
  BY <1>3, <1>4, <1>5

(* The first byte of a key.                                                 *)
LEMMA KeyBegins ==
    ASSUME NEW m, Readable(m), NEW k \in 1 .. Len(m), NEW r \in FrameType, ~r.stop,
           k <= MSG_ELEMENTS, m[k].key # Nil, AtKey(m, k, r)
    PROVE  LET f == parseByte(r, m[k].key[1]) IN ~f.stop /\ InKey(m, k, 1, f)
<1> DEFINE s == m[k].key
           b == s[1]
           f == parseByte(r, b)
<1>1. s \in Chars /\ Len(s) \in Nat /\ Len(s) > 0 /\ Named(s)
  BY EntryFacts
<1>2. b \notin {"nl", "}"} /\ b \in Symbols
  <2>1. 1 \in 1 .. Len(s)
    BY <1>1
  <2> QED
    BY <1>1, <2>1, NamedAt
<1>3. f = [r EXCEPT !.state = "IN_KEYNAME", !.cur = <<b>>]
  <2>1. f = inKeyStart(r, b)
    BY ParseByteIs DEF AtKey
  <2>2. ~(Len(r.parsedMsg) >= MSG_ELEMENTS)
    <3>1. Len(r.parsedMsg) = k - 1
      BY EntryKept DEF AtKey, Within
    <3> QED
      BY <3>1, ElementAssumption
  <2> HIDE DEF b, f
  <2> QED
    BY <1>2, <2>1, <2>2 DEF inKeyStart
<1>4. SubSeq(s, 1, 1) = <<b>>
  BY <1>1, PrefixEnds DEF Chars
<1> HIDE DEF b, f
<1>5. /\ f.state = "IN_KEYNAME" /\ f.cur = <<b>> /\ f.n = r.n /\ f.section = r.section
      /\ f.keycount = r.keycount /\ f.parsedMsg = r.parsedMsg /\ f.stop = r.stop
  BY <1>3 DEF FrameType
<1> QED
  BY <1>4, <1>5 DEF AtKey, Within, InKey, f, b

(* The next one.                                                            *)
LEMMA KeyGoesOn ==
    ASSUME NEW m, Readable(m), NEW k \in 1 .. Len(m), NEW r \in FrameType, ~r.stop,
           m[k].key # Nil, NEW i \in 1 .. Len(m[k].key) - 1, InKey(m, k, i, r)
    PROVE  LET f == parseByte(r, m[k].key[i + 1]) IN ~f.stop /\ InKey(m, k, i + 1, f)
<1> DEFINE s == m[k].key
           b == s[i + 1]
           f == parseByte(r, b)
<1>1. s \in Chars /\ Len(s) \in Nat /\ Len(s) > 0 /\ Named(s)
  BY EntryFacts
<1>2. b \notin {"nl", "="} /\ i \in 0 .. Len(s) - 1
  <2>1. i + 1 \in 1 .. Len(s) /\ i \in 0 .. Len(s) - 1
    BY <1>1
  <2> QED
    BY <1>1, <2>1, NamedAt
<1>3. f = [r EXCEPT !.cur = Append(@, b)]
  <2>1. f = inKeyName(r, b)
    BY ParseByteIs DEF InKey
  <2> HIDE DEF b, f
  <2> QED
    BY <1>2, <2>1 DEF inKeyName
<1>4. SubSeq(s, 1, i + 1) = Append(SubSeq(s, 1, i), b)
  BY <1>1, <1>2, PrefixGrows DEF Chars
<1> HIDE DEF b, f
<1>5. /\ f.state = r.state /\ f.cur = Append(r.cur, b) /\ f.n = r.n /\ f.section = r.section
      /\ f.keycount = r.keycount /\ f.parsedMsg = r.parsedMsg /\ f.stop = r.stop
  BY <1>3 DEF FrameType
<1> QED
  BY <1>4, <1>5 DEF Within, InKey, f, b

(* The sign behind it.                                                      *)
LEMMA KeyEnds ==
    ASSUME NEW m, Readable(m), NEW k \in 1 .. Len(m), NEW r \in FrameType, ~r.stop,
           m[k].key # Nil, InKey(m, k, Len(m[k].key), r)
    PROVE  LET f == parseByte(r, "=") IN ~f.stop /\ InValue(m, k, 0, f)
<1> DEFINE s == m[k].key
           f == parseByte(r, "=")
<1>1. s \in Chars /\ Named(s) /\ m[k].value \in Chars
  BY EntryFacts
<1>2. rtrim(s) = s
  BY <1>1, RtrimKeeps DEF Named
<1>3. r.cur = s
  BY <1>1, PrefixEnds DEF InKey, Chars
<1>4. f = [r EXCEPT !.state = "IN_KEYVALUE", !.key = rtrim(r.cur), !.cur = <<>>]
  <2>1. f = inKeyName(r, "=")
    BY ParseByteIs DEF InKey
  <2> HIDE DEF f
  <2> QED
    BY <2>1 DEF inKeyName
<1>5. SubSeq(m[k].value, 1, 0) = <<>>
  BY <1>1, PrefixEnds DEF Chars
<1> HIDE DEF f
<1>6. /\ f.state = "IN_KEYVALUE" /\ f.key = rtrim(r.cur) /\ f.cur = <<>> /\ f.n = r.n
      /\ f.section = r.section /\ f.keycount = r.keycount /\ f.parsedMsg = r.parsedMsg /\ f.stop = r.stop
  BY <1>4 DEF FrameType
<1> QED
  BY <1>2, <1>3, <1>5, <1>6 DEF Within, InKey, InValue, f

(* A byte of a value.                                                       *)
LEMMA ValueGoesOn ==
    ASSUME NEW m, Readable(m), NEW k \in 1 .. Len(m), NEW r \in FrameType, ~r.stop,
           m[k].key # Nil, NEW i \in 0 .. Len(m[k].value) - 1, InValue(m, k, i, r)
    PROVE  LET f == parseByte(r, m[k].value[i + 1]) IN ~f.stop /\ InValue(m, k, i + 1, f)
<1> DEFINE s == m[k].value
           b == s[i + 1]
           f == parseByte(r, b)
<1>1. s \in Chars /\ Len(s) \in Nat /\ \A j \in DOMAIN s : s[j] # "nl"
  BY EntryFacts
<1>2. b # "nl"
  <2>1. i + 1 \in DOMAIN s
    BY <1>1 DEF Chars
  <2> QED
    BY <1>1, <2>1
<1>3. f = [r EXCEPT !.cur = Append(@, b)]
  <2>1. f = inKeyValue(r, b)
    BY ParseByteIs DEF InValue
  <2> HIDE DEF b, f
  <2> QED
    BY <1>2, <2>1 DEF inKeyValue
<1>4. SubSeq(s, 1, i + 1) = Append(SubSeq(s, 1, i), b)
  BY <1>1, PrefixGrows DEF Chars
<1> HIDE DEF b, f
<1>5. /\ f.state = r.state /\ f.key = r.key /\ f.cur = Append(r.cur, b) /\ f.n = r.n /\ f.section = r.section
      /\ f.keycount = r.keycount /\ f.parsedMsg = r.parsedMsg /\ f.stop = r.stop
  BY <1>3 DEF FrameType
<1> QED
  BY <1>4, <1>5 DEF Within, InValue, f, b

(* An entry and the one behind it.                                          *)
LEMMA Neighbours ==
    ASSUME NEW m, Readable(m), NEW k \in 1 .. Len(m)
    PROVE  /\ Closes(m, k) /\ k < Len(m) => Opens(m, k + 1) /\ m[k + 1].sec = m[k].sec + 1
           /\ ~Closes(m, k) => /\ k < Len(m) /\ ~Opens(m, k + 1) /\ m[k + 1].sec = m[k].sec
                               /\ m[k + 1].section = m[k].section
           /\ m[k].key = Nil => Opens(m, k) /\ Closes(m, k)
<1>1. Len(m) \in Nat /\ m[k].sec \in Nat
  BY EntryFacts
<1>2. ASSUME k < Len(m)
      PROVE  k + 1 \in 1 .. Len(m) /\ Follows(m[k], m[k + 1]) /\ m[k + 1].sec \in Nat
  <2>1. k + 1 \in 1 .. Len(m) /\ k + 1 > 1 /\ (k + 1) - 1 = k
    BY <1>1, <1>2
  <2> QED
    BY <2>1, EntryFacts
<1>3. ~Closes(m, k) => k < Len(m) /\ m[k + 1].sec = m[k].sec
  BY <1>1 DEF Closes
<1>4. k < Len(m) => (Opens(m, k + 1) <=> m[k].sec # m[k + 1].sec)
  <2>1. k + 1 # 1 /\ (k + 1) - 1 = k
    OBVIOUS
  <2> QED
    BY <2>1 DEF Opens
<1>5. ASSUME Closes(m, k), k < Len(m)
      PROVE  Opens(m, k + 1) /\ m[k + 1].sec = m[k].sec + 1
  <2>1. m[k + 1].sec # m[k].sec
    BY <1>1, <1>5 DEF Closes
  <2> QED
    BY <1>2, <1>4, <1>5, <2>1 DEF Follows
<1>6. ASSUME ~Closes(m, k)
      PROVE  m[k + 1].section = m[k].section
  <2>1. m[k + 1].sec # m[k].sec + 1
    BY <1>1, <1>3, <1>6
  <2> QED
    BY <1>2, <1>3, <1>6, <2>1 DEF Follows
<1>7. ASSUME m[k].key = Nil
      PROVE  Opens(m, k) /\ Closes(m, k)
  <2>1. Closes(m, k)
    <3> SUFFICES ASSUME ~Closes(m, k)
                 PROVE  FALSE
      OBVIOUS
    <3>1. m[k + 1].sec # m[k].sec + 1
      BY <1>1, <1>3
    <3> QED
      BY <1>2, <1>3, <1>7, <3>1 DEF Follows
  <2>2. Opens(m, k)
    <3> SUFFICES ASSUME k > 1
                 PROVE  m[k - 1].sec # m[k].sec
      BY DEF Opens
    <3>1. k - 1 \in 1 .. Len(m)
      BY <1>1
    <3>2. Follows(m[k - 1], m[k]) /\ m[k - 1].sec \in Nat
      BY <3>1, EntryFacts
    <3>3. m[k].sec = m[k - 1].sec + 1
      BY <1>7, <3>2 DEF Follows
    <3> QED
      BY <3>2, <3>3
  <2> QED
    BY <2>1, <2>2
<1> QED
  BY <1>3, <1>4, <1>5, <1>6, <1>7

(* The end of a line.                                                       *)
LEMMA ValueEnds ==
    ASSUME NEW m, Readable(m), NEW k \in 1 .. Len(m), NEW r \in FrameType, ~r.stop,
           m[k].key # Nil, InValue(m, k, Len(m[k].value), r)
    PROVE  LET f == parseByte(r, "nl") IN
           /\ k >= MSG_ELEMENTS => f.stop
           /\ k < MSG_ELEMENTS => ~f.stop
           /\ PastLine(m, k, f) /\ f.section = m[k].section
<1> DEFINE s == m[k].value
           f == parseByte(r, "nl")
<1>1. s \in Chars /\ \A j \in DOMAIN s : s[j] # "nl"
  BY EntryFacts
<1>2. rtrim(s) = s
  BY <1>1, RtrimKeeps
<1>3. r.cur = s
  BY <1>1, PrefixEnds DEF InValue, Chars
<1> DEFINE e == Entry(r.n, r.section, r.key, rtrim(r.cur))
<1>4. e = m[k] /\ r.parsedMsg = SubSeq(m, 1, k - 1)
  BY <1>2, <1>3, EntryKept DEF InValue, Within
<1>5. f = [r EXCEPT !.state = "START_KEYNAME", !.keycount = @ + 1, !.parsedMsg = Append(@, e),
                    !.stop = Len(r.parsedMsg) + 1 >= MSG_ELEMENTS]
  <2>1. f = inKeyValue(r, "nl")
    BY ParseByteIs DEF InValue
  <2> HIDE DEF f
  <2> QED
    BY <2>1 DEF inKeyValue
<1> HIDE DEF f, e
<1>6. /\ f.state = "START_KEYNAME" /\ f.keycount = r.keycount + 1 /\ f.parsedMsg = Append(r.parsedMsg, e)
      /\ f.n = r.n /\ f.section = r.section
  BY <1>5 DEF FrameType
<1>7. f.stop = (Len(r.parsedMsg) + 1 >= MSG_ELEMENTS)
  BY <1>5 DEF FrameType
<1>8. f.parsedMsg = SubSeq(m, 1, k) /\ Len(r.parsedMsg) = k - 1
  BY <1>4, <1>6, EntryKept
<1>9. (k >= MSG_ELEMENTS => f.stop) /\ (k < MSG_ELEMENTS => ~f.stop)
  <2>1. (k - 1) + 1 = k /\ MSG_ELEMENTS \in Nat
    BY ElementAssumption
  <2>2. f.stop = (k >= MSG_ELEMENTS)
    BY <1>7, <1>8, <2>1
  <2>3. k < MSG_ELEMENTS => ~(k >= MSG_ELEMENTS)
    BY <2>1
  <2> QED
    BY <2>2, <2>3, Zenon
<1>10. r.keycount \in Nat
  BY DEF FrameType
<1>11. f.keycount > 0
  BY <1>6, <1>10
<1> QED
  BY <1>6, <1>8, <1>9, <1>11 DEF PastLine, InValue, Within, f

(* The brace that closes an empty section.                                  *)
LEMMA EmptyCloses ==
    ASSUME NEW m, Readable(m), NEW k \in 1 .. Len(m), NEW r \in FrameType, ~r.stop,
           k <= MSG_ELEMENTS, m[k].key = Nil, AtKey(m, k, r)
    PROVE  LET f == parseByte(r, "}") IN ~f.stop /\ PastSection(m, k, f)
<1> DEFINE f == parseByte(r, "}")
           e == Entry(r.n, r.section, Nil, Nil)
<1>1. Opens(m, k) /\ r.keycount = 0
  BY Neighbours DEF AtKey, Within
<1>2. m[k].value = Nil
  BY EntryFacts
<1>3. e = m[k] /\ r.parsedMsg = SubSeq(m, 1, k - 1)
  BY <1>2, EntryKept DEF AtKey, Within
<1>4. f = [r EXCEPT !.state = "START_SECTION_NAME", !.parsedMsg = Append(@, e)]
  <2>1. f = inKeyStart(r, "}")
    BY ParseByteIs DEF AtKey
  <2>2. ~(Len(r.parsedMsg) >= MSG_ELEMENTS)
    <3>1. Len(r.parsedMsg) = k - 1
      BY <1>3, EntryKept
    <3> QED
      BY <3>1, ElementAssumption
  <2> HIDE DEF f, e
  <2> QED
    BY <1>1, <2>1, <2>2 DEF inKeyStart, e
<1> HIDE DEF f, e
<1>5. f.state = "START_SECTION_NAME" /\ f.parsedMsg = Append(r.parsedMsg, e) /\ f.n = r.n /\ f.stop = r.stop
  BY <1>4 DEF FrameType
<1>6. f.parsedMsg = SubSeq(m, 1, k)
  BY <1>3, <1>5, EntryKept
<1> QED
  BY <1>5, <1>6 DEF PastSection, AtKey, Within, f

(* A key or the end of a section, when all places are taken.                *)
LEMMA NoRoom ==
    ASSUME NEW m, Readable(m), NEW k \in 1 .. Len(m), NEW r \in FrameType, ~r.stop,
           k = MSG_ELEMENTS + 1, Opens(m, k), AtKey(m, k, r), NEW b, b # "nl"
    PROVE  LET f == parseByte(r, b) IN
           f.state = "OVERRUN" /\ ~f.stop /\ f.parsedMsg = SubSeq(m, 1, MSG_ELEMENTS)
<1> DEFINE f == parseByte(r, b)
<1>1. r.keycount = 0 /\ r.parsedMsg = SubSeq(m, 1, k - 1)
  BY DEF AtKey, Within
<1>2. k - 1 = MSG_ELEMENTS
  BY ElementAssumption
<1>3. Len(r.parsedMsg) >= MSG_ELEMENTS
  <2>1. Len(r.parsedMsg) = k - 1
    BY <1>1, EntryKept
  <2> QED
    BY <1>2, <2>1, ElementAssumption
<1>4. f = [r EXCEPT !.state = "OVERRUN"]
  <2>1. f = inKeyStart(r, b)
    BY ParseByteIs DEF AtKey
  <2> HIDE DEF f
  <2> QED
    BY <1>1, <1>3, <2>1 DEF inKeyStart
<1> HIDE DEF f
<1>5. f.state = "OVERRUN" /\ f.parsedMsg = r.parsedMsg /\ f.stop = r.stop
  BY <1>4 DEF FrameType
<1> QED
  BY <1>1, <1>2, <1>5 DEF f

(* The brace that closes a section with keys.                               *)
LEMMA SectionCloses ==
    ASSUME NEW m, NEW k, NEW r \in FrameType, ~r.stop, PastLine(m, k, r)
    PROVE  LET f == parseByte(r, "}") IN ~f.stop /\ PastSection(m, k, f)
<1> DEFINE f == parseByte(r, "}")
<1>1. r.keycount # 0
  <2>1. r.keycount \in Nat /\ r.keycount > 0
    BY DEF FrameType, PastLine
  <2> QED
    BY <2>1
<1>2. f = [r EXCEPT !.state = "START_SECTION_NAME"]
  <2>1. f = inKeyStart(r, "}")
    BY ParseByteIs DEF PastLine
  <2> HIDE DEF f
  <2> QED
    BY <1>1, <2>1 DEF inKeyStart, FrameType
<1> HIDE DEF f
<1>3. f.state = "START_SECTION_NAME" /\ f.parsedMsg = r.parsedMsg /\ f.n = r.n /\ f.stop = r.stop
  BY <1>2 DEF FrameType
<1> QED
  BY <1>3 DEF PastSection, PastLine, f

(* The end of line behind it.                                               *)
LEMMA SectionSkips ==
    ASSUME NEW m, NEW k, NEW r \in FrameType, ~r.stop, PastSection(m, k, r)
    PROVE  parseByte(r, "nl") = r
<1>1. parseByte(r, "nl") = inSectionStart(r, "nl")
  BY ParseByteIs DEF PastSection
<1> QED
  BY <1>1 DEF inSectionStart

(* The entries are completed in their order.                                *)
LEMMA EndsInOrder ==
    ASSUME NEW m, Readable(m)
    PROVE  /\ Len(m) \in Nat
           /\ \A k \in 1 .. Len(m) :
                 /\ Ahead(m, k) \in Nat /\ Ending(m, k) \in Nat /\ Ahead(m, k + 1) \in Nat
                 /\ Ahead(m, k) < Ending(m, k) /\ Ending(m, k) <= Ahead(m, k + 1)
           /\ \A k \in 1 .. Len(m) : \A j \in 1 .. k : Ending(m, j) <= Ending(m, k)
<1>1. Len(m) \in Nat
  BY DEF Readable
<1>2. ASSUME NEW k \in 1 .. Len(m)
      PROVE  /\ Ahead(m, k) \in Nat /\ Ending(m, k) \in Nat /\ Ahead(m, k + 1) \in Nat
             /\ Ahead(m, k) < Ending(m, k) /\ Ending(m, k) <= Ahead(m, k + 1)
  <2> DEFINE a == Ahead(m, k)
             an == Ahead(m, k + 1)
             q == a + NameLen(m, k)
             e == q + LineLen(m, k)
             d == Ending(m, k)
  <2>1. a \in Nat /\ q \in Nat /\ e \in Nat /\ a <= q /\ q <= e
    BY EntryPlaces, Zenon
  <2>2. m[k].key = Nil => e = q /\ Closes(m, k)
    BY EntryPlaces, Neighbours, Zenon
  <2>3. m[k].key # Nil => q < e
    <3> SUFFICES ASSUME m[k].key # Nil
                 PROVE  q < e
      OBVIOUS
    <3> DEFINE lk == Len(m[k].key)
               lv == Len(m[k].value)
    <3>1. e = q + lk + lv + 2 /\ lk \in Nat /\ lv \in Nat
      BY EntryPlaces, Zenon
    <3> HIDE DEF e, q, lk, lv
    <3> QED
      BY <2>1, <3>1
  <2>4. (Closes(m, k) => an = e + 2) /\ (~Closes(m, k) => an = e)
    <3>1. Closes(m, k) => an = e + 2
      BY EntryCloses, Zenon
    <3>2. ~Closes(m, k) => an = e
      BY EntryCloses, Zenon
    <3> QED
      BY <3>1, <3>2
  <2>5. d = IF m[k].key = Nil THEN q + 1 ELSE e
    BY DEF Ending
  <2> HIDE DEF a, an, q, e, d
  <2>6. CASE m[k].key = Nil
    <3>1. d = q + 1 /\ an = q + 2
      BY <2>2, <2>4, <2>5, <2>6
    <3>2. d \in Nat /\ an \in Nat /\ a < d /\ d <= an
      BY <2>1, <3>1
    <3> QED
      BY <2>1, <3>2 DEF a, an, d
  <2>7. CASE m[k].key # Nil
    <3>1. d = e /\ an \in Nat /\ e <= an
      BY <2>1, <2>4, <2>5, <2>7
    <3>2. d \in Nat /\ an \in Nat /\ a < d /\ d <= an
      BY <2>1, <2>3, <2>7, <3>1
    <3> QED
      BY <2>1, <3>2 DEF a, an, d
  <2> QED
    BY <2>6, <2>7
<1>3. ASSUME NEW j \in 1 .. Len(m)
      PROVE  \A k \in j .. Len(m) : Ending(m, j) <= Ending(m, k)
  <2> DEFINE B == {k \in j .. Len(m) : Ending(m, j) <= Ending(m, k)}
  <2>1. j \in B
    <3>1. j \in j .. Len(m) /\ Ending(m, j) <= Ending(m, j)
      BY <1>1, <1>2
    <3> QED
      BY <3>1
  <2>2. ASSUME NEW k \in j .. Len(m) - 1, k \in B
        PROVE  k + 1 \in B
    <3>1. k \in 1 .. Len(m) /\ k + 1 \in 1 .. Len(m) /\ k + 1 \in j .. Len(m)
      BY <1>1
    <3>2. Ending(m, k) <= Ahead(m, k + 1) /\ Ending(m, k) \in Nat /\ Ahead(m, k + 1) \in Nat
      BY <1>2, <3>1
    <3>3. Ahead(m, k + 1) < Ending(m, k + 1) /\ Ending(m, k + 1) \in Nat
      BY <1>2, <3>1
    <3>4. Ending(m, j) <= Ending(m, k) /\ Ending(m, j) \in Nat
      BY <1>2, <2>2
    <3>5. Ending(m, j) <= Ending(m, k + 1)
      BY <3>2, <3>3, <3>4
    <3> QED
      BY <3>1, <3>5
  <2>3. j \in Int /\ Len(m) \in Int
    BY <1>1
  <2> HIDE DEF B
  <2>4. \A k \in j .. Len(m) : k \in B
    BY <2>1, <2>2, <2>3, Upwards
  <2> QED
    BY <2>4 DEF B
<1>4. \A k \in 1 .. Len(m) : \A j \in 1 .. k : j \in 1 .. Len(m) /\ k \in j .. Len(m)
  BY <1>1
<1> QED
  BY <1>1, <1>2, <1>3, <1>4

(* What has not been stopped has not overrun.                               *)
LEMMA StillReading ==
    ASSUME NEW m, NEW k, NEW x, NEW r, ReadingLine(m, k, x, r) \/ Closing(m, k, x, r)
    PROVE  r.state # "OVERRUN"
<1>1. CASE ReadingLine(m, k, x, r)
  BY <1>1 DEF ReadingLine, AtSection, InSection, AtKey, InKey, InValue
<1>2. CASE Closing(m, k, x, r)
  BY <1>2 DEF Closing, PastLine, PastSection
<1> QED
  BY <1>1, <1>2

(* The next byte of an entry's line.                                        *)
LEMMA LineStep ==
    ASSUME NEW m, Readable(m), NEW k \in 1 .. Len(m), NEW x \in Nat, NEW r \in FrameType, ~r.stop,
           ReadingLine(m, k, x, r)
    PROVE  LET f == parseByte(r, parsedMsgToRawF(m)[x + 1]) IN f \in FrameType => ReadTo(m, x + 1, f)
<1> DEFINE P == parsedMsgToRawF(m)
           f == parseByte(r, P[x + 1])
           a == Ahead(m, k)
           na == NameLen(m, k)
           q == a + na
           e == q + LineLen(m, k)
           sec == m[k].section
           key == m[k].key
           val == m[k].value
           ls == Len(sec)
           lk == Len(key)
           lv == Len(val)
<1> SUFFICES ASSUME f \in FrameType
             PROVE  ReadTo(m, x + 1, f)
  OBVIOUS
<1>1. a \in Nat /\ q \in Nat /\ e \in Nat /\ ls \in Nat /\ ls > 0 /\ lk \in Nat /\ lv \in Nat
  BY EntryPlaces, Zenon
<1>2. Opens(m, k) => /\ \A i \in 1 .. ls : P[a + i] = sec[i]
                     /\ P[a + ls + 1] = "nl" /\ P[a + ls + 2] = "{" /\ P[q] = "nl" /\ q = a + ls + 3
  BY EntryOpens, Zenon
<1>3. key # Nil => /\ \A i \in 1 .. lk : P[q + i] = key[i]
                   /\ P[q + lk + 1] = "=" /\ lk > 0
                   /\ \A i \in 1 .. lv : P[q + lk + 1 + i] = val[i]
                   /\ P[e] = "nl" /\ e = q + lk + lv + 2
  BY EntryLine, Zenon
<1>4. key = Nil => e = q
  BY EntryPlaces, Zenon
<1>5. Closes(m, k) => P[e + 1] = "}"
  BY EntryCloses, Zenon
<1>6. ~Closes(m, k) => Ahead(m, k + 1) = e
  BY EntryCloses, Zenon
<1>7. Room(m, k) /\ MSG_ELEMENTS \in Nat \ {0} /\ Len(m) \in Nat
  BY ElementAssumption, EntryFacts DEF ReadingLine
<1>8. \A j \in 1 .. Len(m) : ~f.stop /\ (ReadingLine(m, j, x + 1, f) \/ Closing(m, j, x + 1, f)) =>
      ReadTo(m, x + 1, f)
  <2> HIDE DEF f
  <2> QED
    BY StillReading DEF ReadTo
<1> HIDE DEF P, f, a, na, q, e, sec, key, val, ls, lk, lv
<1>9. CASE Opens(m, k) /\ x = a /\ AtSection(m, k, r)
  <2>1. 1 \in 1 .. ls
    BY <1>1
  <2>2. P[x + 1] = sec[1]
    BY <1>2, <1>9, <2>1
  <2>3. ~f.stop /\ InSection(m, k, 1, f)
    BY <1>9, <2>2, SectionBegins DEF f, sec
  <2>4. 1 \in 1 .. ls + 1 /\ x + 1 = a + 1
    BY <1>1, <1>9
  <2>5. ReadingLine(m, k, x + 1, f)
    BY <1>7, <1>9, <2>3, <2>4 DEF ReadingLine, a, ls, sec
  <2> QED
    BY <1>8, <2>3, <2>5
<1>10. ASSUME Opens(m, k), NEW i \in 1 .. ls + 1, x = a + i, InSection(m, k, i, r)
       PROVE  ReadTo(m, x + 1, f)
  <2>1. CASE i <= ls
    <3>1. i \in 1 .. ls /\ i + 1 \in 1 .. ls + 1 /\ x + 1 = a + (i + 1)
      BY <1>1, <1>10, <2>1
    <3>2. P[x + 1] = IF i = ls THEN "nl" ELSE sec[i + 1]
      <4>1. CASE i = ls
        <5>1. x + 1 = a + ls + 1
          BY <1>1, <1>10, <4>1
        <5> QED
          BY <1>2, <1>10, <4>1, <5>1
      <4>2. CASE i # ls
        <5>1. i + 1 \in 1 .. ls
          BY <1>1, <3>1, <4>2
        <5> QED
          BY <1>2, <1>10, <3>1, <4>2, <5>1
      <4> QED
        BY <4>1, <4>2
    <3>3. ~f.stop /\ InSection(m, k, i + 1, f)
      BY <1>10, <3>1, <3>2, SectionGoesOn DEF f, sec, ls
    <3>4. ReadingLine(m, k, x + 1, f)
      BY <1>7, <1>10, <3>1, <3>3 DEF ReadingLine, a, ls, sec
    <3> QED
      BY <1>8, <3>3, <3>4
  <2>2. CASE i = ls + 1
    <3>1. x + 1 = a + ls + 2
      BY <1>1, <1>10, <2>2
    <3>2. x + 1 = q - 1
      <4>1. q = a + ls + 3
        BY <1>2, <1>10
      <4> QED
        BY <1>1, <3>1, <4>1
    <3>3. P[x + 1] = "{"
      BY <1>2, <1>10, <3>1
    <3>4. ~f.stop /\ AtKey(m, k, f)
      BY <1>10, <2>2, <3>3, SectionOpens DEF f, sec, ls
    <3>5. ReadingLine(m, k, x + 1, f)
      <4>1. x + 1 = (Ahead(m, k) + NameLen(m, k)) - 1
        BY <3>2 DEF a, na, q
      <4> QED
        BY <1>7, <1>10, <3>4, <4>1, Zenon DEF ReadingLine
    <3> QED
      BY <1>8, <3>4, <3>5
  <2> QED
    BY <1>1, <2>1, <2>2
<1>11. CASE Opens(m, k) /\ x = q - 1 /\ AtKey(m, k, r)
  <2>1. x + 1 = q
    BY <1>1, <1>11
  <2>2. P[x + 1] = "nl"
    BY <1>2, <1>11, <2>1
  <2>3. f = r
    BY <1>11, <2>2, KeySkips DEF f
  <2>4. ReadingLine(m, k, x + 1, f)
    BY <1>7, <1>11, <2>1, <2>3 DEF ReadingLine, a, na, q
  <2> QED
    BY <1>8, <2>3, <2>4
<1>12. CASE x = q /\ AtKey(m, k, r)
  <2>1. CASE key # Nil /\ k <= MSG_ELEMENTS
    <3>1. 1 \in 1 .. lk /\ x + 1 = q + 1
      BY <1>1, <1>3, <1>12, <2>1
    <3>2. P[x + 1] = key[1]
      BY <1>3, <2>1, <3>1
    <3>3. ~f.stop /\ InKey(m, k, 1, f)
      BY <1>12, <2>1, <3>2, KeyBegins DEF f, key
    <3>4. ReadingLine(m, k, x + 1, f)
      BY <1>7, <2>1, <3>1, <3>3 DEF ReadingLine, a, na, q, key, lk
    <3> QED
      BY <1>8, <3>3, <3>4
  <2>2. CASE key = Nil /\ k <= MSG_ELEMENTS
    <3>1. Closes(m, k)
      BY <2>2, Neighbours DEF key
    <3>2. P[x + 1] = "}" /\ x + 1 = e + 1
      BY <1>4, <1>5, <1>12, <2>2, <3>1
    <3>3. ~f.stop /\ PastSection(m, k, f)
      BY <1>12, <2>2, <3>2, EmptyCloses DEF f, key
    <3>4. k < MSG_ELEMENTS \/ (k = MSG_ELEMENTS /\ m[k].key = Nil)
      BY <1>7, <2>2 DEF key
    <3>5. Closing(m, k, x + 1, f)
      BY <3>1, <3>2, <3>3, <3>4 DEF Closing, e, q, a, na
    <3> QED
      BY <1>8, <3>3, <3>5
  <2>3. CASE ~(k <= MSG_ELEMENTS)
    <3> DEFINE M == MSG_ELEMENTS
    <3>1. k = M + 1 /\ m[M].key = Nil /\ M \in 1 .. Len(m) /\ M < Len(m)
      BY <1>7, <2>3 DEF Room
    <3>2. Opens(m, k)
      BY <3>1, Neighbours
    <3>3. P[x + 1] # "nl"
      <4>1. CASE key # Nil
        <5>1. 1 \in 1 .. lk /\ P[x + 1] = key[1]
          BY <1>1, <1>3, <1>12, <4>1
        <5>2. key \in Chars /\ Named(key) /\ lk = Len(key)
          BY <4>1, EntryFacts DEF key, lk
        <5> QED
          BY <5>1, <5>2, NamedAt
      <4>2. CASE key = Nil
        <5>1. Closes(m, k)
          BY <4>2, Neighbours DEF key
        <5> QED
          BY <1>4, <1>5, <1>12, <4>2, <5>1
      <4> QED
        BY <4>1, <4>2
    <3>4. f.state = "OVERRUN" /\ ~f.stop /\ f.parsedMsg = SubSeq(m, 1, M)
      BY <1>12, <3>1, <3>2, <3>3, NoRoom DEF f
    <3>5. x + 1 >= Ending(m, M)
      <4>1. Ending(m, M) \in Nat /\ Ending(m, M) <= a
        BY <3>1, EndsInOrder DEF a
      <4>2. a <= q
        BY EntryPlaces, Zenon DEF a, q, na
      <4> QED
        BY <1>1, <1>12, <4>1, <4>2
    <3>6. Stopped(m, x + 1, f)
      BY <3>1, <3>4, <3>5 DEF Stopped
    <3>7. Overruns(m)
      BY <3>1 DEF Overruns
    <3> QED
      BY <3>4, <3>6, <3>7 DEF ReadTo
  <2> QED
    BY <2>1, <2>2, <2>3
<1>13. ASSUME key # Nil, k <= MSG_ELEMENTS, NEW i \in 1 .. lk, x = q + i, InKey(m, k, i, r)
       PROVE  ReadTo(m, x + 1, f)
  <2>1. CASE i < lk
    <3>1. i + 1 \in 1 .. lk /\ i \in 1 .. lk - 1 /\ x + 1 = q + (i + 1)
      BY <1>1, <1>13, <2>1
    <3>2. P[x + 1] = key[i + 1]
      BY <1>3, <1>13, <3>1
    <3>3. ~f.stop /\ InKey(m, k, i + 1, f)
      BY <1>13, <3>1, <3>2, KeyGoesOn DEF f, key, lk
    <3>4. ReadingLine(m, k, x + 1, f)
      BY <1>7, <1>13, <3>1, <3>3 DEF ReadingLine, a, na, q, key, lk
    <3> QED
      BY <1>8, <3>3, <3>4
  <2>2. CASE i = lk
    <3>1. x + 1 = q + lk + 1 /\ x + 1 = q + lk + 1 + 0 /\ 0 \in 0 .. lv
      BY <1>1, <1>13, <2>2
    <3>2. P[x + 1] = "="
      BY <1>3, <1>13, <3>1
    <3>3. ~f.stop /\ InValue(m, k, 0, f)
      BY <1>13, <2>2, <3>2, KeyEnds DEF f, key, lk
    <3>4. ReadingLine(m, k, x + 1, f)
      BY <1>7, <1>13, <3>1, <3>3 DEF ReadingLine, a, na, q, key, lk, val, lv
    <3> QED
      BY <1>8, <3>3, <3>4
  <2> QED
    BY <1>1, <2>1, <2>2
<1>14. ASSUME key # Nil, k <= MSG_ELEMENTS, NEW i \in 0 .. lv, x = q + lk + 1 + i, InValue(m, k, i, r)
       PROVE  ReadTo(m, x + 1, f)
  <2>1. CASE i < lv
    <3>1. i + 1 \in 1 .. lv /\ i + 1 \in 0 .. lv /\ i \in 0 .. lv - 1 /\ x + 1 = q + lk + 1 + (i + 1)
      BY <1>1, <1>14, <2>1
    <3>2. P[x + 1] = val[i + 1]
      BY <1>3, <1>14, <3>1
    <3>3. ~f.stop /\ InValue(m, k, i + 1, f)
      BY <1>14, <3>1, <3>2, ValueGoesOn DEF f, key, val, lv
    <3>4. ReadingLine(m, k, x + 1, f)
      BY <1>7, <1>14, <3>1, <3>3 DEF ReadingLine, a, na, q, key, lk, val, lv
    <3> QED
      BY <1>8, <3>3, <3>4
  <2>2. CASE i = lv
    <3>1. x + 1 = e
      BY <1>1, <1>3, <1>14, <2>2
    <3>2. P[x + 1] = "nl"
      BY <1>3, <1>14, <3>1
    <3>3. /\ k >= MSG_ELEMENTS => f.stop
          /\ k < MSG_ELEMENTS => ~f.stop
          /\ PastLine(m, k, f) /\ f.section = sec
      BY <1>14, <2>2, <3>2, ValueEnds DEF f, key, val, lv, sec
    <3>4. Ending(m, k) = e
      BY <1>14 DEF Ending, e, q, a, na, key
    <3>5. CASE k >= MSG_ELEMENTS
      <4>1. f.stop /\ k = MSG_ELEMENTS
        BY <1>7, <1>14, <3>3, <3>5
      <4>2. Stopped(m, x + 1, f)
        <5>1. MSG_ELEMENTS <= Len(m) /\ x + 1 >= Ending(m, MSG_ELEMENTS)
          BY <1>1, <1>7, <3>1, <3>4, <4>1
        <5> QED
          BY <3>3, <4>1, <5>1 DEF Stopped, PastLine
      <4>3. f.state # "OVERRUN"
        BY <3>3 DEF PastLine
      <4> QED
        BY <4>1, <4>2, <4>3 DEF ReadTo
    <3>6. CASE k < MSG_ELEMENTS /\ Closes(m, k)
      <4>1. ~f.stop
        BY <1>7, <3>3, <3>6
      <4>2. Closing(m, k, x + 1, f)
        BY <1>14, <3>1, <3>3, <3>4, <3>6 DEF Closing, key
      <4> QED
        BY <1>8, <4>1, <4>2
    <3>7. CASE k < MSG_ELEMENTS /\ ~Closes(m, k)
      <4>1. ~f.stop
        BY <1>7, <3>3, <3>7
      <4>2. k < Len(m) /\ ~Opens(m, k + 1) /\ m[k + 1].sec = m[k].sec /\ m[k + 1].section = sec
        BY <3>7, Neighbours DEF sec
      <4>3. k + 1 \in 1 .. Len(m) /\ k + 1 <= MSG_ELEMENTS /\ (k + 1) - 1 = k
        BY <1>7, <3>7, <4>2
      <4>4. f.keycount # 0
        <5>1. f.keycount \in Nat /\ f.keycount > 0
          BY <3>3 DEF FrameType, PastLine
        <5> QED
          BY <5>1
      <4>5. AtKey(m, k + 1, f)
        BY <3>3, <4>2, <4>3, <4>4 DEF AtKey, Within, PastLine
      <4>6. x + 1 = Ahead(m, k + 1) + NameLen(m, k + 1)
        <5>1. NameLen(m, k + 1) = 0
          BY <4>2 DEF NameLen
        <5> QED
          BY <1>1, <1>6, <3>1, <3>7, <5>1
      <4>7. ReadingLine(m, k + 1, x + 1, f)
        BY <4>3, <4>5, <4>6 DEF ReadingLine, Room
      <4> QED
        BY <1>8, <4>1, <4>3, <4>7
    <3> QED
      BY <1>7, <3>5, <3>6, <3>7
  <2> QED
    BY <1>1, <2>1, <2>2
<1>15. \/ Opens(m, k) /\ x = a /\ AtSection(m, k, r)
       \/ Opens(m, k) /\ \E i \in 1 .. ls + 1 : x = a + i /\ InSection(m, k, i, r)
       \/ Opens(m, k) /\ x = q - 1 /\ AtKey(m, k, r)
       \/ x = q /\ AtKey(m, k, r)
       \/ key # Nil /\ k <= MSG_ELEMENTS /\ \E i \in 1 .. lk : x = q + i /\ InKey(m, k, i, r)
       \/ key # Nil /\ k <= MSG_ELEMENTS /\ \E i \in 0 .. lv : x = q + lk + 1 + i /\ InValue(m, k, i, r)
  BY Zenon DEF ReadingLine, a, na, q, sec, key, val, ls, lk, lv
<1> QED
  BY <1>9, <1>10, <1>11, <1>12, <1>13, <1>14, <1>15, Zenon

(* The next byte at the end of a section.                                   *)
LEMMA ClosingStep ==
    ASSUME NEW m, Readable(m), NEW k \in 1 .. Len(m), NEW x \in Nat, NEW r \in FrameType, ~r.stop,
           x < Len(parsedMsgToRawF(m)), Closing(m, k, x, r)
    PROVE  LET f == parseByte(r, parsedMsgToRawF(m)[x + 1]) IN f \in FrameType => ReadTo(m, x + 1, f)
<1> DEFINE P == parsedMsgToRawF(m)
           f == parseByte(r, P[x + 1])
           q == Ahead(m, k) + NameLen(m, k)
           e == q + LineLen(m, k)
           an == Ahead(m, k + 1)
<1> SUFFICES ASSUME f \in FrameType
             PROVE  ReadTo(m, x + 1, f)
  OBVIOUS
<1>1. q \in Nat /\ e \in Nat
  BY EntryPlaces, Zenon
<1>2. Closes(m, k)
  BY DEF Closing
<1>3. P[e + 1] = "}" /\ P[e + 2] = "nl" /\ an = e + 2
  BY <1>2, EntryCloses, Zenon
<1>4. MSG_ELEMENTS \in Nat \ {0} /\ Len(m) \in Nat
  BY ElementAssumption, EntryFacts
<1>5. k = Len(m) => an = Len(P)
  BY PacketPlaces
<1>6. \A j \in 1 .. Len(m) : ~f.stop /\ (ReadingLine(m, j, x + 1, f) \/ Closing(m, j, x + 1, f)) =>
      ReadTo(m, x + 1, f)
  <2> HIDE DEF f
  <2> QED
    BY StillReading DEF ReadTo
<1> HIDE DEF P, f, q, e, an
<1>7. CASE m[k].key # Nil /\ k < MSG_ELEMENTS /\ x = Ending(m, k) /\ PastLine(m, k, r)
  <2>1. x = e
    BY <1>7 DEF Ending, e, q
  <2>2. P[x + 1] = "}"
    BY <1>3, <2>1
  <2>3. ~f.stop /\ PastSection(m, k, f)
    BY <1>7, <2>2, SectionCloses DEF f
  <2>4. Closing(m, k, x + 1, f)
    BY <1>2, <1>7, <2>1, <2>3 DEF Closing, e, q
  <2> QED
    BY <1>6, <2>3, <2>4
<1>8. CASE /\ k < MSG_ELEMENTS \/ (k = MSG_ELEMENTS /\ m[k].key = Nil)
           /\ x = e + 1 /\ PastSection(m, k, r)
  <2>1. x + 1 = e + 2
    BY <1>1, <1>8
  <2>2. P[x + 1] = "nl"
    BY <1>3, <2>1
  <2>3. f = r
    BY <1>8, <2>2, SectionSkips DEF f
  <2>4. CASE k = Len(m)
    <3>1. k <= MSG_ELEMENTS
      BY <1>4, <1>8
    <3>2. Closing(m, k, x + 1, f)
      BY <1>2, <1>8, <2>1, <2>3, <2>4, <3>1 DEF Closing, e, q
    <3> QED
      BY <1>6, <2>3, <3>2
  <2>5. CASE k # Len(m)
    <3>1. k < Len(m) /\ k + 1 \in 1 .. Len(m) /\ Room(m, k + 1) /\ (k + 1) - 1 = k
      BY <1>4, <1>8, <2>5 DEF Room
    <3>2. Opens(m, k + 1) /\ m[k + 1].sec = m[k].sec + 1
      BY <1>2, <3>1, Neighbours
    <3>3. AtSection(m, k + 1, f)
      BY <1>8, <2>3, <3>1, <3>2 DEF AtSection, PastSection
    <3>4. x + 1 = Ahead(m, k + 1)
      BY <1>3, <2>1 DEF an
    <3>5. ReadingLine(m, k + 1, x + 1, f)
      BY <3>1, <3>2, <3>3, <3>4 DEF ReadingLine
    <3> QED
      BY <1>6, <2>3, <3>1, <3>5
  <2> QED
    BY <2>4, <2>5
<1>9. CASE k = Len(m) /\ x = e + 2
  <2>1. x = Len(P)
    BY <1>3, <1>5, <1>9
  <2> QED
    BY <2>1 DEF P
<1> QED
  BY <1>7, <1>8, <1>9 DEF Closing, e, q

(* The next byte, wherever the parser is.                                   *)
LEMMA ReadStep ==
    ASSUME NEW m, Readable(m), NEW x \in Nat, NEW r, x < Len(parsedMsgToRawF(m)), ReadTo(m, x, r)
    PROVE  ReadTo(m, x + 1, parseByte(r, parsedMsgToRawF(m)[x + 1]))
<1> DEFINE P == parsedMsgToRawF(m)
           b == P[x + 1]
           f == parseByte(r, b)
<1>1. P \in Chars
  BY PacketPlaces
<1>2. b \in Symbols
  <2> HIDE DEF P
  <2>1. P \in Seq(Symbols) /\ x + 1 \in 1 .. Len(P)
    BY <1>1 DEF Chars, P
  <2> QED
    BY <2>1
<1>3. r \in FrameType
  BY DEF ReadTo
<1> HIDE DEF b
<1>4. f \in FrameType
  BY <1>2, <1>3, ParseByteType
<1>5. CASE r.stop \/ r.state = "OVERRUN"
  <2>1. f = r
    BY <1>5, ParseByteIs
  <2>2. Stopped(m, x, r)
    BY <1>5 DEF ReadTo
  <2>3. Stopped(m, x + 1, r)
    <3>1. MSG_ELEMENTS \in 1 .. Len(m)
      <4>1. Len(m) \in Nat
        BY DEF Readable
      <4> QED
        BY <2>2, <4>1, ElementAssumption DEF Stopped
    <3> DEFINE e == Ending(m, MSG_ELEMENTS)
    <3>2. x >= e
      BY <2>2 DEF Stopped
    <3>3. e \in Nat
      <4>1. Ahead(m, MSG_ELEMENTS) \in Nat
        BY <3>1, PacketPlaces
      <4>2. NameLen(m, MSG_ELEMENTS) \in Nat /\ LineLen(m, MSG_ELEMENTS) \in Nat
        BY <3>1, WrittenBytes, Zenon
      <4> QED
        BY <4>1, <4>2 DEF Ending
    <3> HIDE DEF e
    <3>4. x + 1 >= e
      BY <3>2, <3>3
    <3> QED
      BY <2>2, <3>4 DEF Stopped, e
  <2> HIDE DEF f
  <2> QED
    BY <1>4, <1>5, <2>1, <2>3 DEF ReadTo, b, f, P
<1>6. CASE ~r.stop /\ r.state # "OVERRUN"
  <2>1. PICK k \in 1 .. Len(m) : ReadingLine(m, k, x, r) \/ Closing(m, k, x, r)
    BY <1>6 DEF ReadTo
  <2>2. CASE ReadingLine(m, k, x, r)
    BY <1>3, <1>4, <1>6, <2>2, LineStep DEF b
  <2>3. CASE Closing(m, k, x, r)
    BY <1>3, <1>4, <1>6, <2>3, ClosingStep DEF b
  <2> QED
    BY <2>1, <2>2, <2>3
<1> QED
  BY <1>5, <1>6

-----------------------------------------------------------------------------
(***************************************************************************)
(* What has been read is what is complete.                                 *)
(***************************************************************************)

\* Entries 1 to c are complete after x bytes, and no others.
FirstAre(m, x, c) == {k \in 1 .. Len(m) : Ending(m, k) <= x} = 1 .. c

(* Which they are.                                                          *)
LEMMA FirstOnes ==
    ASSUME NEW m, Readable(m), NEW x \in Nat, NEW c \in 0 .. Len(m),
           c > 0 => Ending(m, c) <= x, c < Len(m) => x < Ending(m, c + 1)
    PROVE  FirstAre(m, x, c)
<1>1. /\ Len(m) \in Nat /\ \A k \in 1 .. Len(m) : Ending(m, k) \in Nat
      /\ \A k \in 1 .. Len(m) : \A j \in 1 .. k : Ending(m, j) <= Ending(m, k)
  BY EndsInOrder
<1>2. ASSUME NEW k \in 1 .. c
      PROVE  k \in 1 .. Len(m) /\ Ending(m, k) <= x
  <2>1. k \in 1 .. Len(m) /\ c \in 1 .. Len(m) /\ c > 0
    BY <1>1
  <2>2. Ending(m, k) <= Ending(m, c) /\ Ending(m, c) <= x /\ Ending(m, k) \in Nat /\ Ending(m, c) \in Nat
    BY <1>1, <2>1
  <2> QED
    BY <2>1, <2>2
<1>3. ASSUME NEW k \in 1 .. Len(m), Ending(m, k) <= x
      PROVE  k \in 1 .. c
  <2> SUFFICES ASSUME c < k
               PROVE  FALSE
    BY <1>1
  <2>1. c + 1 \in 1 .. k /\ c + 1 \in 1 .. Len(m) /\ c < Len(m)
    BY <1>1
  <2>2. Ending(m, c + 1) <= Ending(m, k) /\ x < Ending(m, c + 1) /\ Ending(m, c + 1) \in Nat /\ Ending(m, k) \in Nat
    BY <1>1, <2>1
  <2> QED
    BY <1>3, <2>2
<1> QED
  BY <1>2, <1>3 DEF FirstAre

(* There always are.                                                        *)
LEMMA SomeAreFirst ==
    ASSUME NEW m, Readable(m), NEW x \in Nat
    PROVE  \E c \in 0 .. Len(m) : FirstAre(m, x, c)
<1> DEFINE N == {k \in 1 .. Len(m) : x < Ending(m, k)}
<1>1. Len(m) \in Nat /\ \A k \in 1 .. Len(m) : Ending(m, k) \in Nat
  BY EndsInOrder
<1>2. CASE N = {}
  <2>1. Len(m) > 0 => Ending(m, Len(m)) <= x
    <3> SUFFICES ASSUME Len(m) > 0
                 PROVE  Ending(m, Len(m)) <= x
      OBVIOUS
    <3>1. Len(m) \in 1 .. Len(m) /\ Len(m) \notin N
      BY <1>1, <1>2
    <3>2. ~(x < Ending(m, Len(m))) /\ Ending(m, Len(m)) \in Nat
      BY <1>1, <3>1
    <3> QED
      BY <3>2
  <2>2. Len(m) \in 0 .. Len(m) /\ ~(Len(m) < Len(m))
    BY <1>1
  <2>3. FirstAre(m, x, Len(m))
    BY <2>1, <2>2, FirstOnes
  <2> QED
    BY <2>2, <2>3
<1>3. CASE N # {}
  <2>1. N \in SUBSET Nat
    BY <1>1
  <2>2. PICK k \in N : \A j \in N : k <= j
    BY <1>3, <2>1, LeastElement
  <2>3. k \in 1 .. Len(m) /\ x < Ending(m, k)
    BY <2>2
  <2>4. k - 1 \in 0 .. Len(m) /\ (k - 1) + 1 = k
    BY <1>1, <2>3
  <2>5. k - 1 > 0 => Ending(m, k - 1) <= x
    <3> SUFFICES ASSUME k - 1 > 0
                 PROVE  Ending(m, k - 1) <= x
      OBVIOUS
    <3>1. k - 1 \in 1 .. Len(m) /\ ~(k <= k - 1)
      BY <1>1, <2>3
    <3>2. k - 1 \notin N
      BY <2>2, <3>1
    <3>3. ~(x < Ending(m, k - 1)) /\ Ending(m, k - 1) \in Nat
      BY <1>1, <3>1, <3>2
    <3> QED
      BY <3>3
  <2>6. FirstAre(m, x, k - 1)
    BY <2>3, <2>4, <2>5, FirstOnes
  <2> QED
    BY <2>4, <2>6
<1> QED
  BY <1>2, <1>3

(* The parser has kept the complete entries, as far as there is room.       *)
LEMMA ReadComplete ==
    ASSUME NEW m, Readable(m), NEW x \in Nat, NEW r, ReadTo(m, x, r)
    PROVE  \E c \in 0 .. Len(m) :
              FirstAre(m, x, c) /\ r.parsedMsg = SubSeq(m, 1, Fewer(c, MSG_ELEMENTS))
<1>1. MSG_ELEMENTS \in Nat \ {0} /\ Len(m) \in Nat
  BY ElementAssumption, EndsInOrder
<1>2. CASE r.stop \/ r.state = "OVERRUN"
  <2>1. MSG_ELEMENTS <= Len(m) /\ x >= Ending(m, MSG_ELEMENTS) /\ r.parsedMsg = SubSeq(m, 1, MSG_ELEMENTS)
    BY <1>2 DEF ReadTo, Stopped
  <2>2. PICK c \in 0 .. Len(m) : FirstAre(m, x, c)
    BY SomeAreFirst
  <2>3. MSG_ELEMENTS \in 1 .. Len(m)
    BY <1>1, <2>1
  <2>4. Ending(m, MSG_ELEMENTS) <= x
    <3>1. Ending(m, MSG_ELEMENTS) \in Nat
      BY <2>3, EndsInOrder
    <3> QED
      BY <2>1, <3>1
  <2>5. MSG_ELEMENTS \in 1 .. c
    BY <2>2, <2>3, <2>4 DEF FirstAre
  <2>6. Fewer(c, MSG_ELEMENTS) = MSG_ELEMENTS
    BY <1>1, <2>5 DEF Fewer
  <2> QED
    BY <2>1, <2>2, <2>6
<1>3. ASSUME NEW k \in 1 .. Len(m), ReadingLine(m, k, x, r)
      PROVE  FirstAre(m, x, k - 1) /\ r.parsedMsg = SubSeq(m, 1, k - 1) /\ k - 1 <= MSG_ELEMENTS
  <2> DEFINE a == Ahead(m, k)
             na == NameLen(m, k)
             q == a + na
             ls == Len(m[k].section)
             lk == Len(m[k].key)
             lv == Len(m[k].value)
             d == Ending(m, k)
  <2>1. a \in Nat /\ q \in Nat /\ ls \in Nat /\ lk \in Nat /\ lv \in Nat /\ a <= q
    BY EntryPlaces, Zenon
  <2>2. Opens(m, k) => q = a + ls + 3
    BY EntryPlaces, Zenon
  <2>3. m[k].key # Nil => d = q + (lk + lv + 2)
    BY DEF Ending, LineLen
  <2>4. m[k].key = Nil => d = q + 1
    BY DEF Ending
  <2>5. \/ Opens(m, k) /\ x = a /\ AtSection(m, k, r)
        \/ Opens(m, k) /\ \E i \in 1 .. ls + 1 : x = a + i /\ InSection(m, k, i, r)
        \/ Opens(m, k) /\ x = q - 1 /\ AtKey(m, k, r)
        \/ x = q /\ AtKey(m, k, r)
        \/ m[k].key # Nil /\ \E i \in 1 .. lk : x = q + i /\ InKey(m, k, i, r)
        \/ m[k].key # Nil /\ \E i \in 0 .. lv : x = q + lk + 1 + i /\ InValue(m, k, i, r)
    BY <1>3, Zenon DEF ReadingLine
  <2>6. k - 1 <= MSG_ELEMENTS
    BY <1>1, <1>3 DEF ReadingLine, Room
  <2> HIDE DEF a, na, q, ls, lk, lv, d
  <2>7. r.parsedMsg = SubSeq(m, 1, k - 1)
    BY <2>5 DEF AtSection, InSection, AtKey, InKey, InValue, Within
  <2>8. q < d /\ d \in Nat
    BY <2>1, <2>3, <2>4
  <2>9. a <= x /\ x < d
    <3>1. CASE Opens(m, k) /\ x <= q /\ a <= x
      BY <2>1, <2>8, <3>1
    <3>2. ASSUME Opens(m, k), NEW i \in 1 .. ls + 1, x = a + i
          PROVE  x <= q /\ a <= x
      BY <2>1, <2>2, <3>2
    <3>3. Opens(m, k) => a <= q - 1 /\ q - 1 <= q
      BY <2>1, <2>2
    <3>4. CASE x = q
      BY <2>1, <2>8, <3>4
    <3>5. ASSUME m[k].key # Nil, NEW i \in 1 .. lk, x = q + i
          PROVE  a <= x /\ x < d
      BY <2>1, <2>3, <3>5
    <3>6. ASSUME m[k].key # Nil, NEW i \in 0 .. lv, x = q + lk + 1 + i
          PROVE  a <= x /\ x < d
      BY <2>1, <2>3, <3>6
    <3>7. CASE Opens(m, k) /\ x = a
      BY <2>1, <2>8, <3>7
    <3> QED
      BY <2>5, <3>1, <3>2, <3>3, <3>4, <3>5, <3>6, <3>7
  <2>10. k - 1 \in 0 .. Len(m) /\ (k - 1) + 1 = k
    BY <1>1
  <2>11. k - 1 > 0 => Ending(m, k - 1) <= x
    <3> SUFFICES ASSUME k - 1 > 0
                 PROVE  Ending(m, k - 1) <= x
      OBVIOUS
    <3>1. k - 1 \in 1 .. Len(m)
      BY <1>1
    <3>2. Ending(m, k - 1) <= a /\ Ending(m, k - 1) \in Nat
      BY <2>10, <3>1, EndsInOrder DEF a
    <3> QED
      BY <2>1, <2>9, <3>2
  <2>12. FirstAre(m, x, k - 1)
    BY <2>9, <2>10, <2>11, FirstOnes DEF d
  <2> QED
    BY <2>6, <2>7, <2>12
<1>4. ASSUME NEW k \in 1 .. Len(m), Closing(m, k, x, r)
      PROVE  FirstAre(m, x, k) /\ r.parsedMsg = SubSeq(m, 1, k) /\ k <= MSG_ELEMENTS
  <2> DEFINE q == Ahead(m, k) + NameLen(m, k)
             e == q + LineLen(m, k)
             d == Ending(m, k)
             an == Ahead(m, k + 1)
  <2>1. q \in Nat /\ e \in Nat /\ q <= e /\ (m[k].key = Nil => e = q)
    BY EntryPlaces, Zenon
  <2>2. Closes(m, k) /\ an = e + 2
    BY <1>4, EntryCloses, Zenon DEF Closing
  <2>3. d = IF m[k].key = Nil THEN q + 1 ELSE e
    BY DEF Ending
  <2>4. \/ m[k].key # Nil /\ k < MSG_ELEMENTS /\ x = d /\ PastLine(m, k, r)
        \/ /\ k < MSG_ELEMENTS \/ (k = MSG_ELEMENTS /\ m[k].key = Nil)
           /\ x = e + 1 /\ PastSection(m, k, r)
        \/ k = Len(m) /\ k <= MSG_ELEMENTS /\ x = e + 2 /\ PastSection(m, k, r)
    BY <1>4, Zenon DEF Closing
  <2> HIDE DEF q, e, d, an
  <2>5. r.parsedMsg = SubSeq(m, 1, k)
    BY <2>4 DEF PastLine, PastSection
  <2>6. k <= MSG_ELEMENTS
    BY <1>1, <2>4
  <2>7. d \in Nat /\ d <= e + 1 /\ (m[k].key # Nil => d = e)
    BY <2>1, <2>3
  <2>8. d <= x /\ x <= an
    BY <2>1, <2>2, <2>4, <2>7
  <2>9. k < Len(m) => x < Ending(m, k + 1)
    <3> SUFFICES ASSUME k < Len(m)
                 PROVE  x < Ending(m, k + 1)
      OBVIOUS
    <3>1. k + 1 \in 1 .. Len(m)
      BY <1>1
    <3>2. an < Ending(m, k + 1) /\ an \in Nat /\ Ending(m, k + 1) \in Nat
      BY <3>1, EndsInOrder DEF an
    <3> QED
      BY <2>8, <3>2
  <2>10. k \in 0 .. Len(m)
    BY <1>1
  <2>11. FirstAre(m, x, k)
    BY <2>8, <2>9, <2>10, FirstOnes DEF d
  <2> QED
    BY <2>5, <2>6, <2>11
<1>5. CASE ~r.stop /\ r.state # "OVERRUN"
  <2>1. PICK k \in 1 .. Len(m) : ReadingLine(m, k, x, r) \/ Closing(m, k, x, r)
    BY <1>5 DEF ReadTo
  <2>2. CASE ReadingLine(m, k, x, r)
    <3>1. k - 1 \in 0 .. Len(m) /\ k - 1 <= MSG_ELEMENTS
      BY <1>1, <1>3, <2>2
    <3>2. Fewer(k - 1, MSG_ELEMENTS) = k - 1
      BY <1>1, <3>1 DEF Fewer
    <3> QED
      BY <1>3, <2>2, <3>1, <3>2
  <2>3. CASE Closing(m, k, x, r)
    <3>1. k \in 0 .. Len(m) /\ k <= MSG_ELEMENTS
      BY <1>1, <1>4, <2>3
    <3>2. Fewer(k, MSG_ELEMENTS) = k
      BY <1>1, <3>1 DEF Fewer
    <3> QED
      BY <1>4, <2>3, <3>1, <3>2
  <2> QED
    BY <2>1, <2>2, <2>3
<1> QED
  BY <1>2, <1>5

(* Nothing has been read before the first byte.                             *)
LEMMA ReadNothing ==
    ASSUME NEW m, Readable(m)
    PROVE  ReadTo(m, 0, Start)
<1>1. Start \in FrameType
  <2>1. <<>> \in Chars /\ <<>> \in Seq(EntryType)
    BY DEF Chars
  <2> QED
    BY <2>1 DEF Start, FrameType
<1>2. Len(m) \in Nat /\ Len(m) > 0 /\ m[1].sec = 1 /\ m \in Seq(EntryType)
  BY DEF Readable
<1>3. 1 \in 1 .. Len(m) /\ 1 <= MSG_ELEMENTS
  BY <1>2, ElementAssumption
<1>4. SubSeq(m, 1, 1 - 1) = <<>>
  BY <1>2, SubSeqEmpty
<1>5. Opens(m, 1) /\ 0 = Ahead(m, 1)
  BY PacketPlaces DEF Opens
<1>6. AtSection(m, 1, Start)
  BY <1>2, <1>4 DEF AtSection, Start
<1>7. ReadingLine(m, 1, 0, Start)
  BY <1>3, <1>5, <1>6 DEF ReadingLine, Room
<1>8. ~Start.stop /\ Start.state # "OVERRUN"
  BY DEF Start
<1> QED
  BY <1>1, <1>3, <1>7, <1>8 DEF ReadTo

-----------------------------------------------------------------------------
(***************************************************************************)
(* The messages that are sent.                                             *)
(***************************************************************************)

\* What the text of an address or pattern is made of.
Plain == {"a", "A", "b", "*", ">", ".", ":"}

(* Addresses and patterns are sequences of fields.                          *)
LEMMA FieldFacts ==
    ASSUME NEW names, NEW a \in FieldsOf(names)
    PROVE  /\ a \in Seq([sep : {".", ":"}, name : names]) /\ Len(a) \in Nat /\ Len(a) >= 1
           /\ a[1].sep = "." /\ OneSub(a)
           /\ \A k \in 1 .. Len(a) : a[k].sep \in {".", ":"} /\ a[k].name \in names
           /\ \A k \in 1 .. Len(a) : a[k].name = <<">">> => k = Len(a) \/ a[k + 1].sep = ":"
<1> DEFINE R == [sep : {".", ":"}, name : names]
<1>1. PICK z \in 1 .. FIELDS : a \in [1 .. z -> R]
  BY DEF FieldsOf
<1>2. z \in Nat /\ z >= 1
  BY FieldAssumption
<1> HIDE DEF R
<1>3. a \in Seq(R) /\ Len(a) = z /\ DOMAIN a = 1 .. z
  BY <1>1, <1>2
<1>4. \A k \in 1 .. z : a[k] \in R
  BY <1>1
<1>5. \A k \in 1 .. z : a[k].sep \in {".", ":"} /\ a[k].name \in names
  BY <1>4 DEF R
<1>6. a[1].sep = "." /\ OneSub(a) /\ \A k \in DOMAIN a : a[k].name = <<">">> => k = Len(a) \/ a[k + 1].sep = ":"
  BY DEF FieldsOf
<1> QED
  BY <1>2, <1>3, <1>5, <1>6 DEF R

(* The names are not empty, and plain.                                      *)
LEMMA NameFacts ==
    ASSUME NEW w \in Words \cup {<<"*">>, <<">">>}
    PROVE  w \in Seq(Plain) /\ w # <<>>
<1>1. CASE w \in Words
  <2>1. w \in Seq({"a", "A", "b"}) /\ w # <<>>
    BY <1>1, WordAssumption
  <2>2. {"a", "A", "b"} \subseteq Plain
    BY DEF Plain
  <2> QED
    BY <2>1, <2>2, SeqMonotonic
<1>2. CASE w = <<"*">>
  <2>1. "*" \in Plain
    BY DEF Plain
  <2> QED
    BY <1>2, <2>1
<1>3. CASE w = <<">">>
  <2>1. ">" \in Plain
    BY DEF Plain
  <2> QED
    BY <1>3, <2>1
<1> QED
  BY <1>1, <1>2, <1>3

(* So is each piece of the text.                                            *)
LEMMA PieceFacts ==
    ASSUME NEW a \in Patterns
    PROVE  /\ Pieces(a) \in Seq(Seq(Plain)) /\ Len(Pieces(a)) = Len(a)
           /\ \A k \in 1 .. Len(a) : a[k].name \in Seq(Plain) /\ a[k].name # <<>>
           /\ Pieces(a)[1] = a[1].name
           /\ \A k \in 2 .. Len(a) : Pieces(a)[k] = <<a[k].sep>> \o a[k].name
<1> DEFINE z == Len(a)
           names == Words \cup {<<"*">>, <<">">>}
<1>1. a \in FieldsOf(names)
  BY DEF Patterns
<1>2. z \in Nat /\ z >= 1 /\ \A k \in 1 .. z : a[k].sep \in {".", ":"} /\ a[k].name \in names
  BY <1>1, FieldFacts
<1>3. DOMAIN a = 1 .. z
  <2>1. a \in Seq([sep : {".", ":"}, name : names])
    BY <1>1, FieldFacts
  <2> HIDE DEF names
  <2> QED
    BY <2>1
<1>4. \A k \in 1 .. z : a[k].name \in Seq(Plain) /\ a[k].name # <<>>
  BY <1>2, NameFacts
<1> DEFINE p == Pieces(a)
<1>5. p = [k \in 1 .. z |-> IF k = 1 THEN a[1].name ELSE <<a[k].sep>> \o a[k].name]
  BY <1>3 DEF Pieces
<1> HIDE DEF p, z, names
<1>6. ASSUME NEW k \in 1 .. z
      PROVE  <<a[k].sep>> \o a[k].name \in Seq(Plain)
  <2> DEFINE c == a[k].sep
             w == a[k].name
  <2>1. c \in Plain /\ w \in Seq(Plain)
    BY <1>2, <1>4 DEF Plain
  <2> HIDE DEF c, w
  <2>2. <<c>> \o w \in Seq(Plain)
    BY <2>1
  <2> QED
    BY <2>2 DEF c, w
<1>7. p \in [1 .. z -> Seq(Plain)]
  <2>1. 1 \in 1 .. z
    BY <1>2
  <2>2. ASSUME NEW k \in 1 .. z
        PROVE  (IF k = 1 THEN a[1].name ELSE <<a[k].sep>> \o a[k].name) \in Seq(Plain)
    BY <1>4, <1>6, <2>1
  <2> QED
    BY <1>5, <2>2
<1>8. p \in Seq(Seq(Plain)) /\ Len(p) = z
  BY <1>2, <1>7
<1>9. p[1] = a[1].name /\ \A k \in 2 .. z : p[k] = <<a[k].sep>> \o a[k].name
  <2>1. 1 \in 1 .. z /\ \A k \in 2 .. z : k \in 1 .. z /\ k # 1
    BY <1>2
  <2> QED
    BY <1>5, <2>1
<1> QED
  BY <1>4, <1>8, <1>9 DEF p, z

(* The text of a pattern is plain.                                          *)
LEMMA TextType ==
    ASSUME NEW a \in Patterns
    PROVE  Text(a) \in Seq(Plain)
<1>1. Pieces(a) \in Seq(Seq(Plain)) /\ Len(Pieces(a)) = Len(a)
  BY PieceFacts
<1>2. Len(a) \in 0 .. Len(Pieces(a))
  <2>1. Len(Pieces(a)) \in Nat
    BY <1>1
  <2> QED
    BY <1>1, <2>1
<1> QED
  BY <1>1, <1>2, JoinedSteps DEF Text

(* Plain text can be read.                                                  *)
LEMMA PlainReadable ==
    ASSUME NEW s \in Seq(Plain)
    PROVE  s \in Chars /\ \A i \in DOMAIN s : s[i] # "nl"
<1>1. Plain \subseteq Symbols
  BY DEF Plain, Symbols
<1>2. s \in Chars
  BY <1>1, SeqMonotonic DEF Chars
<1>3. \A i \in DOMAIN s : s[i] \in Plain
  OBVIOUS
<1> QED
  BY <1>2, <1>3 DEF Plain

(* The entries of a body.                                                   *)
LEMMA BodyType ==
    ASSUME NEW b \in Bodies
    PROVE  b \in Seq(EntryType)
<1> DEFINE R == [sec : Nat, section : Seq(STRING), key : Seq(STRING), value : Seq(STRING)]
<1>1. b \in Seq(R)
  BY BodyAssumption
<1>2. \A s \in Seq(STRING) : s \in Chars
  <2>1. STRING \subseteq Symbols
    BY DEF Symbols
  <2> QED
    BY <2>1, SeqMonotonic DEF Chars
<1>3. R \subseteq EntryType
  BY <1>2 DEF EntryType
<1> HIDE DEF R
<1> QED
  BY <1>1, <1>3, SeqMonotonic

\* The number of entries in front of the class.
Before(t) == IF t = <<>> THEN 0 ELSE 1

(* The header, its parts.                                                   *)
LEMMA HeaderFacts ==
    /\ HEADER \in Chars /\ TARGET \in Chars /\ CLASS \in Chars /\ CMD \in Chars /\ <<"B">> \in Chars
    /\ Named(HEADER) /\ Named(TARGET) /\ Named(CLASS) /\ TARGET # Nil /\ CLASS # Nil /\ TARGET # CLASS
    /\ \A c \in {CMD, <<"B">>} : \A i \in DOMAIN c : c[i] # "nl"
<1>1. "x" \in Symbols /\ "t" \in Symbols /\ "c" \in Symbols /\ "b" \in Symbols /\ "B" \in Symbols
  BY DEF Symbols
<1>2. HEADER \in Chars /\ TARGET \in Chars /\ CLASS \in Chars
  BY <1>1 DEF HEADER, TARGET, CLASS, Chars
<1>3. CMD \in Chars /\ <<"B">> \in Chars
  BY <1>1 DEF CMD, Chars
<1>4. ASSUME NEW c, c \notin {"nl", "=", "{", "}", "NULL"}
      PROVE  Named(<<c>>) /\ <<c>> # Nil /\ \A i \in DOMAIN <<c>> : <<c>>[i] # "nl"
  <2>1. <<c>>[1] = c /\ <<c>> # <<>> /\ \A i \in DOMAIN <<c>> : i = 1
    OBVIOUS
  <2>2. <<c>> # Nil
    BY <1>4 DEF Nil
  <2>3. \A i \in DOMAIN <<c>> : <<c>>[i] \notin {"nl", "=", "{", "}"}
    BY <1>4, <2>1
  <2> QED
    BY <2>1, <2>2, <2>3 DEF Named
<1>5. Named(HEADER) /\ Named(TARGET) /\ Named(CLASS) /\ TARGET # Nil /\ CLASS # Nil
  BY <1>4 DEF HEADER, TARGET, CLASS
<1>6. TARGET # CLASS
  BY DEF TARGET, CLASS
<1>7. \A i \in DOMAIN CMD : CMD[i] # "nl"
  BY DEF CMD
<1>8. \A i \in DOMAIN <<"B">> : <<"B">>[i] # "nl"
  BY <1>4
<1> QED
  BY <1>2, <1>3, <1>5, <1>6, <1>7, <1>8

(* The entries of a message.                                                *)
LEMMA MessageShape ==
    ASSUME NEW t \in Patterns \cup {<<>>}, NEW c \in {CMD, <<"B">>}, NEW b \in Bodies
    PROVE  LET m == Message(t, c, b) IN
           /\ m \in Seq(EntryType) /\ Len(b) \in Nat /\ Len(m) = Before(t) + 1 + Len(b)
           /\ t # <<>> => m[1] = Entry(1, HEADER, TARGET, Text(t))
           /\ m[Before(t) + 1] = Entry(1, HEADER, CLASS, c)
           /\ \A k \in 1 .. Len(b) : m[Before(t) + 1 + k] = b[k]
<1> DEFINE d == Entry(1, HEADER, TARGET, Text(t))
           g == IF t = <<>> THEN <<>> ELSE <<d>>
           e == Entry(1, HEADER, CLASS, c)
           m == Message(t, c, b)
           h == Before(t)
<1>1. m = g \o <<e>> \o b
  BY DEF Message
<1>2. b \in Seq(EntryType)
  BY BodyType
<1>3. e \in EntryType
  BY HeaderFacts DEF Entry, EntryType
<1>4. t # <<>> => d \in EntryType
  <2> SUFFICES ASSUME t # <<>>
               PROVE  d \in EntryType
    OBVIOUS
  <2>1. Text(t) \in Chars
    BY TextType, PlainReadable
  <2> QED
    BY <2>1, HeaderFacts DEF Entry, EntryType
<1> HIDE DEF d, e, m
<1>5. g \in Seq(EntryType) /\ Len(g) = h /\ h \in Nat /\ (t # <<>> => g[1] = d /\ h = 1)
  <2>1. CASE t = <<>>
    <3>1. g = <<>> /\ h = 0
      BY <2>1 DEF Before
    <3> HIDE DEF g, h
    <3> QED
      BY <2>1, <3>1
  <2>2. CASE t # <<>>
    <3>1. g = <<d>> /\ h = 1
      BY <2>2 DEF Before
    <3>2. d \in EntryType
      BY <1>4, <2>2
    <3> HIDE DEF g, h
    <3> QED
      BY <2>2, <3>1, <3>2
  <2> QED
    BY <2>1, <2>2
<1> HIDE DEF g, h
<1> DEFINE v == g \o <<e>>
<1>6. /\ v \in Seq(EntryType) /\ Len(v) = h + 1 /\ v[h + 1] = e
      /\ \A i \in 1 .. h : v[i] = g[i]
  <2>1. <<e>> \in Seq(EntryType) /\ Len(<<e>>) = 1 /\ <<e>>[1] = e
    BY <1>3
  <2> DEFINE w == <<e>>
  <2>2. w \in Seq(EntryType) /\ Len(w) = 1 /\ w[1] = e
    BY <2>1
  <2> HIDE DEF w
  <2>3. /\ g \o w \in Seq(EntryType) /\ Len(g \o w) = Len(g) + Len(w)
        /\ \A i \in 1 .. Len(g) + Len(w) : (g \o w)[i] = IF i <= Len(g) THEN g[i] ELSE w[i - Len(g)]
    BY <1>5, <2>2, ConcatProperties, Zenon
  <2>4. v = g \o w
    BY DEF w
  <2> HIDE DEF v
  <2>5. v \in Seq(EntryType) /\ Len(v) = h + 1
    BY <1>5, <2>2, <2>3, <2>4
  <2>6. \A i \in 1 .. h + 1 : v[i] = IF i <= h THEN g[i] ELSE w[i - h]
    BY <1>5, <2>2, <2>3, <2>4
  <2> QED
    BY <1>5, <2>2, <2>5, <2>6
<1> HIDE DEF v
<1>7. /\ v \o b \in Seq(EntryType) /\ Len(v \o b) = Len(v) + Len(b)
      /\ \A i \in 1 .. Len(v) + Len(b) : (v \o b)[i] = IF i <= Len(v) THEN v[i] ELSE b[i - Len(v)]
  BY <1>2, <1>6, ConcatProperties, Zenon
<1> DEFINE z == Len(b)
<1>8. z \in Nat
  BY <1>2
<1>9. /\ m \in Seq(EntryType) /\ Len(m) = h + 1 + z
      /\ \A i \in 1 .. h + 1 + z : m[i] = IF i <= h + 1 THEN v[i] ELSE b[i - (h + 1)]
  BY <1>1, <1>6, <1>7 DEF v
<1> HIDE DEF z
<1>10. t # <<>> => m[1] = d
  BY <1>5, <1>6, <1>8, <1>9
<1>11. m[h + 1] = e
  BY <1>5, <1>6, <1>8, <1>9
<1>12. ASSUME NEW k \in 1 .. z
       PROVE  m[h + 1 + k] = b[k]
  <2>1. h + 1 + k \in 1 .. h + 1 + z /\ ~(h + 1 + k <= h + 1) /\ (h + 1 + k) - (h + 1) = k
    BY <1>5, <1>8
  <2> QED
    BY <1>9, <2>1
<1> QED
  BY <1>8, <1>9, <1>10, <1>11, <1>12 DEF d, e, m, h, z

(* They can be read.                                                        *)
LEMMA MessageReadable ==
    ASSUME NEW t \in Patterns \cup {<<>>}, NEW c \in {CMD, <<"B">>}, NEW b \in Bodies
    PROVE  Readable(Message(t, c, b))
<1> DEFINE m == Message(t, c, b)
           h == Before(t)
           z == Len(b)
           d == Entry(1, HEADER, TARGET, Text(t))
           e == Entry(1, HEADER, CLASS, c)
<1>1. /\ m \in Seq(EntryType) /\ z \in Nat /\ Len(m) = h + 1 + z
      /\ t # <<>> => m[1] = d
      /\ m[h + 1] = e
      /\ \A k \in 1 .. z : m[h + 1 + k] = b[k]
  BY MessageShape, Zenon
<1>2. h \in {0, 1} /\ (h = 1 => t # <<>>)
  BY DEF Before
<1>3. /\ d.sec = 1 /\ d.section = HEADER /\ d.key = TARGET /\ d.value = Text(t)
      /\ e.sec = 1 /\ e.section = HEADER /\ e.key = CLASS /\ e.value = c
  BY DEF Entry
<1>4. t # <<>> => \A i \in DOMAIN Text(t) : Text(t)[i] # "nl"
  BY TextType, PlainReadable
<1>5. \A k \in 1 .. z :
          /\ Named(b[k].section)
          /\ IF b[k].key = Nil THEN b[k].value = Nil
             ELSE Named(b[k].key) /\ \A i \in DOMAIN b[k].value : b[k].value[i] # "nl"
          /\ Follows(IF k = 1 THEN Entry(1, HEADER, CLASS, CMD) ELSE b[k - 1], b[k])
  <2>1. DOMAIN b = 1 .. z
    BY BodyType
  <2> QED
    BY <2>1, BodyAssumption, Zenon
<1> DEFINE Good(k) == /\ Named(m[k].section)
                      /\ m[k].key = Nil => m[k].value = Nil
                      /\ m[k].key # Nil => Named(m[k].key) /\ \A i \in DOMAIN m[k].value : m[k].value[i] # "nl"
                      /\ k > 1 => Follows(m[k - 1], m[k])
<1> HIDE DEF m, h, z, d, e
<1>6. h = 1 => m[1] = d /\ Good(1) /\ d.key # Nil
  <2> SUFFICES ASSUME h = 1
               PROVE  m[1] = d /\ Good(1) /\ d.key # Nil
    OBVIOUS
  <2>1. m[1] = d /\ ~(1 > 1)
    BY <1>1, <1>2
  <2> QED
    BY <1>2, <1>3, <1>4, <2>1, HeaderFacts
<1>7. Good(h + 1) /\ m[h + 1].key # Nil
  <2>1. \A i \in DOMAIN c : c[i] # "nl"
    BY HeaderFacts
  <2>2. h + 1 > 1 => Follows(m[(h + 1) - 1], m[h + 1])
    <3> SUFFICES ASSUME h + 1 > 1
                 PROVE  Follows(m[(h + 1) - 1], m[h + 1])
      OBVIOUS
    <3>1. h = 1 /\ (h + 1) - 1 = 1
      BY <1>2
    <3>2. m[(h + 1) - 1] = d /\ m[h + 1] = e
      BY <1>1, <1>6, <3>1
    <3> QED
      BY <1>3, <3>2, HeaderFacts DEF Follows
  <2>3. m[h + 1] = e
    BY <1>1
  <2>4. m[h + 1].section = HEADER /\ m[h + 1].key = CLASS /\ m[h + 1].value = c
    BY <1>3, <2>3
  <2> QED
    BY <2>1, <2>2, <2>4, HeaderFacts
<1>8. ASSUME NEW j \in 1 .. z
      PROVE  Good(h + 1 + j) /\ m[h + 1 + j] = b[j]
  <2> DEFINE k == h + 1 + j
  <2>1. m[k] = b[j]
    BY <1>1
  <2>2. Follows(m[k - 1], b[j])
    <3>1. CASE j = 1
      <4>1. k - 1 = h + 1
        BY <1>2, <3>1
      <4>2. m[k - 1] = e
        BY <1>1, <4>1
      <4>3. Follows(Entry(1, HEADER, CLASS, CMD), b[j])
        BY <1>5, <3>1
      <4>4. LET u == Entry(1, HEADER, CLASS, CMD) IN u.sec = 1 /\ u.section = HEADER /\ u.key = CLASS
        BY DEF Entry
      <4>5. Follows(e, b[j])
        BY <1>3, <4>3, <4>4 DEF Follows
      <4> QED
        BY <4>2, <4>5
    <3>2. CASE j # 1
      <4>1. j - 1 \in 1 .. z /\ k - 1 = h + 1 + (j - 1)
        BY <1>1, <1>2, <3>2
      <4>2. m[k - 1] = b[j - 1]
        BY <1>1, <4>1
      <4> QED
        BY <1>5, <3>2, <4>2
    <3> QED
      BY <3>1, <3>2
  <2> HIDE DEF k
  <2>3. Good(k)
    BY <1>5, <2>1, <2>2
  <2> QED
    BY <2>1, <2>3 DEF k
<1>9. ASSUME NEW k \in 1 .. Len(m)
      PROVE  Good(k)
  <2>1. CASE k <= h
    <3>1. h = 1 /\ k = 1
      BY <1>2, <2>1
    <3> HIDE DEF Good
    <3> QED
      BY <1>6, <3>1
  <2>2. CASE k = h + 1
    <3> HIDE DEF Good
    <3> QED
      BY <1>7, <2>2
  <2>3. CASE k > h + 1
    <3>1. k - (h + 1) \in 1 .. z /\ h + 1 + (k - (h + 1)) = k
      BY <1>1, <1>2, <2>3
    <3> HIDE DEF Good
    <3> QED
      BY <1>8, <3>1
  <2> QED
    BY <1>1, <1>2, <2>1, <2>2, <2>3
<1>10. Len(m) > 0 /\ m[1].sec = 1
  <2>1. Len(m) > 0
    BY <1>1, <1>2
  <2>2. CASE h = 1
    BY <1>3, <1>6, <2>1, <2>2
  <2>3. CASE h = 0
    <3>1. h + 1 = 1
      BY <2>3
    <3>2. m[1] = e
      BY <1>1, <3>1
    <3> QED
      BY <1>3, <2>1, <3>2
  <2> QED
    BY <1>2, <2>1, <2>2, <2>3
<1> QED
  BY <1>1, <1>9, <1>10 DEF Readable, m

-----------------------------------------------------------------------------
(***************************************************************************)
(* The entries that have been read.                                        *)
(***************************************************************************)

LEMMA RxInitInv == RxInit => RxInv
BY DEF RxInit, RxInv

LEMMA RxStepInv == RxInv /\ [RxNext]_rxVars => RxInv'
<1> SUFFICES ASSUME RxInv, [RxNext]_rxVars
             PROVE  RxInv'
  OBVIOUS
<1>1. ASSUME NEW t \in Patterns \cup {<<>>}, NEW c \in {CMD, <<"B">>}, NEW b \in Bodies, readXapData(t, c, b)
      PROVE  RxInv'
  <2> DEFINE m == Message(t, c, b)
  <2>1. phase' = "parse" /\ to' = t /\ msg' = m /\ n' = 0 /\ frame' = Start
    BY <1>1 DEF readXapData, RxInv
  <2>2. Readable(m)
    BY MessageReadable
  <2>3. ReadTo(m, 0, Start)
    BY <2>2, ReadNothing
  <2>4. 0 <= Len(parsedMsgToRawF(m))
    <3>1. parsedMsgToRawF(m) \in Chars
      BY <2>2, PacketPlaces
    <3> QED
      BY <3>1 DEF Chars
  <2>5. Sendable(msg)'
    BY <2>1 DEF Sendable
  <2>6. (n <= Len(Packet))' /\ ReadTo(msg, n, frame)'
    <3> HIDE DEF m
    <3> QED
      BY <2>1, <2>3, <2>4 DEF Packet
  <2> QED
    BY <2>1, <2>5, <2>6 DEF RxInv
<1>2. CASE parseMsg
  <2>1. phase = "parse" /\ n < Len(Packet) /\ n' = n + 1 /\ frame' = parseByte(frame, Packet[n + 1])
        /\ phase' = phase /\ msg' = msg /\ to' = to
    BY <1>2 DEF parseMsg
  <2>2. n \in Nat /\ to \in Patterns \cup {<<>>} /\ Sendable(msg) /\ ReadTo(msg, n, frame)
    BY <2>1 DEF RxInv
  <2>3. Readable(msg)
    BY <2>2, MessageReadable DEF Sendable
  <2>4. ReadTo(msg, n + 1, parseByte(frame, Packet[n + 1]))
    BY <2>1, <2>2, <2>3, ReadStep DEF Packet
  <2>5. ReadTo(msg, n, frame)' /\ Sendable(msg)'
    BY <2>1, <2>2, <2>4 DEF Sendable
  <2>6. n' \in Nat /\ (n <= Len(Packet))'
    <3> DEFINE z == Len(Packet)
    <3>1. z \in Nat /\ z' = z
      <4>1. Packet \in Chars
        BY <2>3, PacketPlaces DEF Packet
      <4>2. Packet' = Packet
        BY <2>1 DEF Packet
      <4> QED
        BY <4>1, <4>2 DEF Chars
    <3>2. n < z /\ n' = n + 1
      BY <2>1
    <3> HIDE DEF z
    <3>3. n' \in Nat /\ n' <= z
      BY <2>2, <3>1, <3>2
    <3> QED
      BY <3>1, <3>3 DEF z
  <2> QED
    BY <2>1, <2>2, <2>5, <2>6 DEF RxInv
<1>3. CASE filterDispatch
  <2>1. phase = "parse" /\ phase' = "done" /\ UNCHANGED <<msg, to, n, frame>>
        /\ called' = {a \in Addresses : xapCompareFilters(Chain(a), frame.parsedMsg)}
    BY <1>3 DEF filterDispatch
  <2>2. (to \in Patterns \cup {<<>>} /\ Sendable(msg) /\ n <= Len(Packet) /\ ReadTo(msg, n, frame) /\ n \in Nat)'
    BY <2>1 DEF RxInv, Packet, Sendable
  <2>3. called' = {a \in Addresses : xapCompareFilters(Chain(a), frame.parsedMsg)}'
    BY <2>1
  <2> QED
    BY <2>1, <2>2, <2>3 DEF RxInv
<1>4. CASE filterDispatch_Overrun
  BY <1>4 DEF filterDispatch_Overrun, RxInv, Packet, Sendable
<1>5. CASE Return
  BY <1>5 DEF Return, RxInv
<1>6. CASE UNCHANGED rxVars
  BY <1>6 DEF rxVars, RxInv, Packet, Sendable
<1> QED
  BY <1>1, <1>2, <1>3, <1>4, <1>5, <1>6 DEF RxNext

(* The message that is being read, and what has been read of it.            *)
LEMMA RxReading ==
    ASSUME RxInv, phase # "select"
    PROVE  /\ to \in Patterns \cup {<<>>} /\ Readable(msg) /\ Sendable(msg)
           /\ \E c \in 0 .. Len(msg) :
                 FirstAre(msg, n, c) /\ frame.parsedMsg = SubSeq(msg, 1, Fewer(c, MSG_ELEMENTS))
<1>1. to \in Patterns \cup {<<>>} /\ Sendable(msg) /\ n \in Nat /\ ReadTo(msg, n, frame)
  BY DEF RxInv
<1>2. Readable(msg)
  BY <1>1, MessageReadable DEF Sendable
<1> QED
  BY <1>1, <1>2, ReadComplete

(* The byte that completes an entry is where End says.                      *)
LEMMA EndIsEnding ==
    ASSUME Readable(msg), NEW k \in 1 .. Len(msg)
    PROVE  End(k) = Ending(msg, k)
<1> DEFINE q == Ahead(msg, k) + NameLen(msg, k)
           e == q + LineLen(msg, k)
           an == Ahead(msg, k + 1)
<1>1. q \in Nat /\ e \in Nat /\ (msg[k].key = Nil => e = q /\ Closes(msg, k))
  BY EntryPlaces, Neighbours, Zenon
<1>2. Closes(msg, k) => an = e + 2
  BY EntryCloses, Zenon
<1>3. ~Closes(msg, k) => an = e
  BY EntryCloses, Zenon
<1>4. Ending(msg, k) = IF msg[k].key = Nil THEN q + 1 ELSE e
  BY DEF Ending
<1>5. End(k) = an - (IF ~Closes(msg, k) THEN 0 ELSE IF msg[k].key = Nil THEN 1 ELSE 2)
  <2>1. (k + 1) - 1 = k
    OBVIOUS
  <2>2. an = Len(Joined(Lines(msg))[k])
    BY <2>1 DEF Ahead
  <2> QED
    BY <2>2 DEF End
<1> HIDE DEF q, e, an
<1>6. CASE msg[k].key = Nil
  <2>1. End(k) = (q + 2) - 1
    BY <1>1, <1>2, <1>5, <1>6
  <2> QED
    BY <1>1, <1>4, <1>6, <2>1
<1>7. CASE msg[k].key # Nil
  <2>1. CASE Closes(msg, k)
    <3>1. End(k) = (e + 2) - 2
      BY <1>2, <1>5, <1>7, <2>1
    <3> QED
      BY <1>1, <1>4, <1>7, <3>1
  <2>2. CASE ~Closes(msg, k)
    <3>1. End(k) = e - 0
      BY <1>3, <1>5, <2>2
    <3> QED
      BY <1>1, <1>4, <1>7, <3>1
  <2> QED
    BY <2>1, <2>2
<1> QED
  BY <1>6, <1>7

LEMMA InvEntriesAreComplete == RxInv => EntriesAreComplete
<1> SUFFICES ASSUME RxInv
             PROVE  EntriesAreComplete
  OBVIOUS
<1>1. CASE phase = "select"
  <2>1. msg = <<>> /\ n = 0 /\ frame = Start
    BY <1>1 DEF RxInv
  <2>2. Complete = 1 .. 0
    BY <2>1 DEF Complete
  <2>3. Len(msg) = 0 /\ 0 \in 0 .. Len(msg)
    BY <2>1
  <2>4. Fewer(0, MSG_ELEMENTS) = 0
    BY ElementAssumption DEF Fewer
  <2>5. SubSeq(msg, 1, 0) = <<>>
    BY SubSeqEmpty
  <2>6. frame.parsedMsg = <<>> /\ frame.state # "OVERRUN"
    BY <2>1 DEF Start
  <2> QED
    BY <2>2, <2>3, <2>4, <2>5, <2>6 DEF EntriesAreComplete
<1>2. CASE phase # "select"
  <2>1. Readable(msg)
    BY <1>2, RxReading
  <2>2. PICK c \in 0 .. Len(msg) :
           FirstAre(msg, n, c) /\ frame.parsedMsg = SubSeq(msg, 1, Fewer(c, MSG_ELEMENTS))
    BY <1>2, RxReading
  <2>3. DOMAIN msg = 1 .. Len(msg)
    <3>1. msg \in Seq(EntryType)
      BY <2>1 DEF Readable
    <3> QED
      BY <3>1
  <2>4. \A k \in 1 .. Len(msg) : End(k) = Ending(msg, k)
    BY <2>1, EndIsEnding
  <2>5. Complete = {k \in 1 .. Len(msg) : Ending(msg, k) <= n}
    BY <2>3, <2>4 DEF Complete
  <2>6. Complete = 1 .. c
    BY <2>2, <2>5 DEF FirstAre
  <2>7. CASE frame.state = "OVERRUN"
    <3>1. Overruns(msg) /\ Stopped(msg, n, frame) /\ n \in Nat
      BY <1>2, <2>7 DEF RxInv, ReadTo
    <3>2. MSG_ELEMENTS \in 1 .. Len(msg) /\ Ending(msg, MSG_ELEMENTS) \in Nat
      <4>1. MSG_ELEMENTS \in 1 .. Len(msg)
        BY <2>1, <3>1, EndsInOrder, ElementAssumption DEF Overruns
      <4> QED
        BY <2>1, <4>1, EndsInOrder
    <3>3. MSG_ELEMENTS \in Complete
      BY <2>5, <3>1, <3>2 DEF Stopped
    <3> QED
      BY <2>7, <3>1, <3>3 DEF EntriesAreComplete, Overruns
  <2>8. CASE frame.state # "OVERRUN"
    BY <2>2, <2>6, <2>8 DEF EntriesAreComplete
  <2> QED
    BY <2>7, <2>8
<1> QED
  BY <1>1, <1>2

LEMMA RxInvAlways == RxSpec => []RxInv
BY RxInitInv, RxStepInv, PTL DEF RxSpec

(* After any number of bytes of any message, wherever the packet was cut    *)
(* off, the entries that were read are those whose lines have ended, each   *)
(* with its own section, key and value: parseMsgF() undoes                  *)
(* parsedMsgToRawF().  It writes behind its entries only for a message      *)
(* with more behind an empty section in the last place.                     *)
THEOREM ReadWhole == RxSpec => []EntriesAreComplete
BY RxInvAlways, InvEntriesAreComplete, PTL

-----------------------------------------------------------------------------
(***************************************************************************)
(* The loop over pattern and address.                                      *)
(***************************************************************************)

\* A row of the function of Loop, out of the later ones.
LoopRow(p, s, f, i) ==
    [j \in 1 .. Len(s) + 1 |->
        IF i > Len(p) \/ j > Len(s) THEN i > Len(p) /\ j > Len(s)
        ELSE IF p[i] \in Wildcards THEN f[Onward(p, i + 1)][Onward(s, Skipped(s, p[i], j))]
        ELSE tolower(p[i]) = tolower(s[j]) /\ f[i + 1][j + 1]]

(* It does not depend on the earlier ones.                                  *)
LEMMA LoopRowAgrees ==
    ASSUME NEW p, NEW s, Len(p) \in Nat, NEW f, NEW g, NEW i \in 1 .. Len(p) + 1,
           \A k \in i + 1 .. Len(p) + 1 : f[k] = g[k]
    PROVE  LoopRow(p, s, f, i) = LoopRow(p, s, g, i)
<1>1. CASE i > Len(p)
  <2>1. LoopRow(p, s, f, i) = [j \in 1 .. Len(s) + 1 |-> i > Len(p) /\ j > Len(s)]
    BY <1>1, Zenon DEF LoopRow
  <2>2. LoopRow(p, s, g, i) = [j \in 1 .. Len(s) + 1 |-> i > Len(p) /\ j > Len(s)]
    BY <1>1, Zenon DEF LoopRow
  <2> QED
    BY <2>1, <2>2, Zenon
<1>2. CASE i <= Len(p)
  <2>1. Onward(p, i + 1) \in i + 1 .. Len(p) + 1 /\ i + 1 \in i + 1 .. Len(p) + 1
    BY <1>2 DEF Onward
  <2>2. f[Onward(p, i + 1)] = g[Onward(p, i + 1)] /\ f[i + 1] = g[i + 1]
    BY <2>1, Zenon
  <2> QED
    BY <2>2, Zenon DEF LoopRow
<1> QED
  BY <1>1, <1>2

(* The function of Loop exists and is what its definition says.             *)
LEMMA LoopRows ==
    ASSUME NEW p, NEW s, Len(p) \in Nat
    PROVE  \A i \in 1 .. Len(p) + 1 : Loop(p, s)[i] = LoopRow(p, s, Loop(p, s), i)
<1> DEFINE z == Len(p) + 1
           Defines(f, d) == f = [i \in d .. z |-> LoopRow(p, s, f, i)]
           A == {d \in 1 .. z : \E f : Defines(f, d)}
<1>1. z \in Nat /\ z >= 1
  OBVIOUS
<1>2. z \in A
  <2> DEFINE f == [i \in z .. z |-> LoopRow(p, s, <<>>, i)]
  <2>1. \A i \in z .. z : f[i] = LoopRow(p, s, f, i)
    <3> SUFFICES ASSUME NEW i \in z .. z
                 PROVE  f[i] = LoopRow(p, s, f, i)
      OBVIOUS
    <3>1. i \in 1 .. Len(p) + 1 /\ \A k \in i + 1 .. Len(p) + 1 : f[k] = <<>>[k]
      BY <1>1
    <3>2. f[i] = LoopRow(p, s, <<>>, i)
      OBVIOUS
    <3> HIDE DEF f
    <3>3. LoopRow(p, s, f, i) = LoopRow(p, s, <<>>, i)
      BY <3>1, LoopRowAgrees
    <3> QED
      BY <3>2, <3>3
  <2>2. Defines(f, z)
    BY <2>1
  <2>3. z \in 1 .. z
    BY <1>1
  <2> HIDE DEF Defines, f, z
  <2> QED
    BY <2>2, <2>3
<1>3. ASSUME NEW d \in 1 .. z - 1, d + 1 \in A
      PROVE  d \in A
  <2>1. d \in 1 .. z /\ d + 1 \in 1 .. z
    BY <1>1
  <2>2. PICK f : Defines(f, d + 1)
    BY <1>3
  <2> DEFINE g == [i \in d .. z |-> IF i = d THEN LoopRow(p, s, f, d) ELSE f[i]]
  <2>3. \A i \in d .. z : g[i] = LoopRow(p, s, g, i)
    <3> SUFFICES ASSUME NEW i \in d .. z
                 PROVE  g[i] = LoopRow(p, s, g, i)
      OBVIOUS
    <3>1. \A k \in d + 1 .. z : k \in d .. z /\ k # d
      BY <1>1, <2>1
    <3>2. \A k \in d + 1 .. z : g[k] = f[k]
      BY <3>1
    <3>3. LoopRow(p, s, g, i) = LoopRow(p, s, f, i)
      <4>1. i \in 1 .. Len(p) + 1 /\ \A k \in i + 1 .. Len(p) + 1 : k \in d + 1 .. z
        BY <1>1, <2>1
      <4> HIDE DEF g
      <4>2. \A k \in i + 1 .. Len(p) + 1 : g[k] = f[k]
        BY <3>2, <4>1
      <4> QED
        BY <4>1, <4>2, LoopRowAgrees
    <3>4. CASE i = d
      <4>1. g[i] = LoopRow(p, s, f, i)
        BY <3>4
      <4> QED
        BY <3>3, <4>1, Zenon
    <3>5. CASE i # d
      <4>1. i \in d + 1 .. z
        BY <1>1, <2>1, <3>5
      <4> HIDE DEF g, z
      <4>2. f[i] = LoopRow(p, s, f, i)
        BY <2>2, <4>1
      <4> QED
        BY <3>2, <3>3, <4>1, <4>2, Zenon
    <3> QED
      BY <3>4, <3>5
  <2>4. Defines(g, d)
    BY <2>3
  <2> HIDE DEF Defines, g, z
  <2> QED
    BY <2>1, <2>4
<1>4. 1 \in A
  <2> HIDE DEF A
  <2>1. 1 \in Int /\ z \in Int /\ 1 \in 1 .. z
    BY <1>1
  <2> HIDE DEF z
  <2> QED
    BY <1>2, <1>3, <2>1, Downwards
<1> DEFINE f == Loop(p, s)
<1>5. Defines(f, 1)
  <2>1. \E c : Defines(c, 1)
    BY <1>4
  <2>2. f = CHOOSE c : Defines(c, 1)
    BY Zenon DEF Loop, LoopRow
  <2> HIDE DEF Defines, f
  <2> QED
    BY <2>1, <2>2, Zenon
<1> HIDE DEF f
<1> QED
  BY <1>5, Zenon DEF f

(* What the loop does at a place: at an end, at a wildcard, and at any      *)
(* other character.                                                         *)
LEMMA LoopSteps ==
    ASSUME NEW p, NEW s, Len(p) \in Nat, Len(s) \in Nat,
           NEW i \in 1 .. Len(p) + 1, NEW j \in 1 .. Len(s) + 1
    PROVE  /\ i = Len(p) + 1 /\ j = Len(s) + 1 => Loop(p, s)[i][j]
           /\ i = Len(p) + 1 /\ j <= Len(s) => ~Loop(p, s)[i][j]
           /\ i <= Len(p) /\ j = Len(s) + 1 => ~Loop(p, s)[i][j]
           /\ i <= Len(p) /\ j <= Len(s) /\ p[i] \in Wildcards =>
                 (Loop(p, s)[i][j] <=> Loop(p, s)[Onward(p, i + 1)][Onward(s, Skipped(s, p[i], j))])
           /\ i <= Len(p) /\ j <= Len(s) /\ p[i] \notin Wildcards =>
                 (Loop(p, s)[i][j] <=> tolower(p[i]) = tolower(s[j]) /\ Loop(p, s)[i + 1][j + 1])
<1> DEFINE f == Loop(p, s)
<1>1. f[i] = LoopRow(p, s, f, i)
  BY LoopRows
<1> HIDE DEF f
<1>2. f[i][j] = IF i > Len(p) \/ j > Len(s) THEN i > Len(p) /\ j > Len(s)
                ELSE IF p[i] \in Wildcards THEN f[Onward(p, i + 1)][Onward(s, Skipped(s, p[i], j))]
                ELSE tolower(p[i]) = tolower(s[j]) /\ f[i + 1][j + 1]
  BY <1>1, Zenon DEF LoopRow
<1>3. /\ i = Len(p) + 1 => i > Len(p)
      /\ j = Len(s) + 1 => j > Len(s)
      /\ i <= Len(p) => ~(i > Len(p))
      /\ j <= Len(s) => ~(j > Len(s))
  OBVIOUS
<1>4. i = Len(p) + 1 /\ j = Len(s) + 1 => f[i][j]
  BY <1>2, <1>3, Zenon
<1>5. i = Len(p) + 1 /\ j <= Len(s) => ~f[i][j]
  BY <1>2, <1>3, Zenon
<1>6. i <= Len(p) /\ j = Len(s) + 1 => ~f[i][j]
  BY <1>2, <1>3, Zenon
<1>7. ASSUME i <= Len(p), j <= Len(s), p[i] \in Wildcards
      PROVE  f[i][j] <=> f[Onward(p, i + 1)][Onward(s, Skipped(s, p[i], j))]
  <2>1. f[i][j] = f[Onward(p, i + 1)][Onward(s, Skipped(s, p[i], j))]
    BY <1>2, <1>3, <1>7, Zenon
  <2> QED
    BY <2>1, Zenon
<1>8. ASSUME i <= Len(p), j <= Len(s), p[i] \notin Wildcards
      PROVE  f[i][j] <=> tolower(p[i]) = tolower(s[j]) /\ f[i + 1][j + 1]
  <2>1. f[i][j] = (tolower(p[i]) = tolower(s[j]) /\ f[i + 1][j + 1])
    BY <1>2, <1>3, <1>8, Zenon
  <2> QED
    BY <2>1, Zenon
<1> QED
  BY <1>4, <1>5, <1>6, <1>7, <1>8, Zenon DEF f

(* Along characters that are no wildcards they are compared one by one.     *)
LEMMA LoopAlong ==
    ASSUME NEW p, NEW s, Len(p) \in Nat, Len(s) \in Nat,
           NEW i \in 1 .. Len(p) + 1, NEW j \in 1 .. Len(s) + 1,
           NEW d \in Nat, i + d <= Len(p) + 1, j + d <= Len(s) + 1,
           \A e \in 0 .. d - 1 : p[i + e] \notin Wildcards
    PROVE  Loop(p, s)[i][j] <=> /\ \A e \in 0 .. d - 1 : tolower(p[i + e]) = tolower(s[j + e])
                                /\ Loop(p, s)[i + d][j + d]
<1> DEFINE f == Loop(p, s)
           Same(e) == tolower(p[i + e]) = tolower(s[j + e])
           B == {c \in 0 .. d : f[i][j] <=> (\A e \in 0 .. c - 1 : Same(e)) /\ f[i + c][j + c]}
<1>1. 0 \in B
  <2>1. i + 0 = i /\ j + 0 = j /\ 0 \in 0 .. d /\ \A e \in 0 .. 0 - 1 : FALSE
    OBVIOUS
  <2> HIDE DEF f, Same
  <2>2. f[i][j] <=> (\A e \in 0 .. 0 - 1 : Same(e)) /\ f[i + 0][j + 0]
    BY <2>1, Zenon
  <2> QED
    BY <2>1, <2>2, Zenon
<1>2. ASSUME NEW c \in 0 .. d - 1, c \in B
      PROVE  c + 1 \in B
  <2>1. /\ i + c \in 1 .. Len(p) + 1 /\ j + c \in 1 .. Len(s) + 1 /\ i + c <= Len(p) /\ j + c <= Len(s)
        /\ (i + c) + 1 = i + (c + 1) /\ (j + c) + 1 = j + (c + 1) /\ c + 1 \in 0 .. d
    OBVIOUS
  <2>2. p[i + c] \notin Wildcards
    OBVIOUS
  <2>3. f[i + c][j + c] <=> tolower(p[i + c]) = tolower(s[j + c]) /\ f[(i + c) + 1][(j + c) + 1]
    BY <2>1, <2>2, LoopSteps, Zenon
  <2>4. f[i + c][j + c] <=> Same(c) /\ f[i + (c + 1)][j + (c + 1)]
    BY <2>1, <2>3, Zenon
  <2> HIDE DEF f, Same
  <2>5. f[i][j] <=> (\A e \in 0 .. c - 1 : Same(e)) /\ f[i + c][j + c]
    BY <1>2, Zenon
  <2>6. (\A e \in 0 .. (c + 1) - 1 : Same(e)) <=> (\A e \in 0 .. c - 1 : Same(e)) /\ Same(c)
    <3>1. \A e : e \in 0 .. (c + 1) - 1 <=> e \in 0 .. c - 1 \/ e = c
      OBVIOUS
    <3> QED
      BY <3>1, Zenon
  <2>7. f[i][j] <=> (\A e \in 0 .. (c + 1) - 1 : Same(e)) /\ f[i + (c + 1)][j + (c + 1)]
    BY <2>4, <2>5, <2>6, Zenon
  <2> QED
    BY <2>1, <2>7, Zenon
<1>3. 0 \in Int /\ d \in Int /\ d \in 0 .. d
  OBVIOUS
<1> HIDE DEF B
<1>4. d \in B
  BY <1>1, <1>2, <1>3, Upwards
<1> QED
  BY <1>4, Zenon DEF B

-----------------------------------------------------------------------------
(***************************************************************************)
(* Where the fields are in the text.                                       *)
(***************************************************************************)

\* The first character of the name of field k, and the place behind its last.
First(x, k) == IF k = 1 THEN 1 ELSE Len(Joined(Pieces(x))[k - 1]) + 2
Past(x, k) == Len(Joined(Pieces(x))[k]) + 1

LEMMA AddressIsPattern ==
    ASSUME NEW a \in Addresses
    PROVE  a \in Patterns /\ \A k \in 1 .. Len(a) : a[k].name \in Words
<1> DEFINE names == Words \cup {<<"*">>, <<">">>}
<1>1. a \in FieldsOf(Words)
  BY DEF Addresses
<1>2. PICK z \in 1 .. FIELDS : a \in [1 .. z -> [sep : {".", ":"}, name : Words]]
  BY <1>1 DEF FieldsOf
<1>3. [sep : {".", ":"}, name : Words] \subseteq [sep : {".", ":"}, name : names]
  OBVIOUS
<1>4. a \in [1 .. z -> [sep : {".", ":"}, name : names]]
  <2> DEFINE R == [sep : {".", ":"}, name : Words]
             T == [sep : {".", ":"}, name : names]
  <2>1. a \in [1 .. z -> R] /\ R \subseteq T
    BY <1>2, <1>3
  <2> HIDE DEF R, T
  <2>2. a \in [1 .. z -> T]
    BY <2>1
  <2> QED
    BY <2>2 DEF T
<1>5. /\ a[1].sep = "." /\ OneSub(a)
      /\ \A k \in DOMAIN a : a[k].name = <<">">> => k = Len(a) \/ a[k + 1].sep = ":"
  BY <1>1 DEF FieldsOf
<1>6. a \in UNION {[1 .. zz -> [sep : {".", ":"}, name : names]] : zz \in 1 .. FIELDS}
  BY <1>4
<1>7. a \in FieldsOf(names)
  BY <1>5, <1>6, Zenon DEF FieldsOf
<1>8. \A k \in 1 .. Len(a) : a[k].name \in Words
  BY <1>1, FieldFacts
<1> QED
  BY <1>7, <1>8 DEF Patterns

(* Where each field begins and ends, and what is between them.              *)
LEMMA TextPlaces ==
    ASSUME NEW x \in Patterns
    PROVE  /\ Text(x) \in Seq(Plain) /\ Len(Text(x)) \in Nat /\ Len(x) \in Nat /\ Len(x) >= 1
           /\ First(x, 1) = 1 /\ Past(x, Len(x)) = Len(Text(x)) + 1
           /\ \A k \in 1 .. Len(x) :
                 /\ Len(x[k].name) \in Nat /\ Len(x[k].name) >= 1
                 /\ First(x, k) \in 1 .. Len(Text(x)) /\ Past(x, k) \in 1 .. Len(Text(x)) + 1
                 /\ Past(x, k) = First(x, k) + Len(x[k].name)
                 /\ \A e \in 0 .. Len(x[k].name) - 1 : Text(x)[First(x, k) + e] = x[k].name[e + 1]
           /\ \A k \in 1 .. Len(x) - 1 :
                 /\ First(x, k + 1) = Past(x, k) + 1 /\ Past(x, k) <= Len(Text(x))
                 /\ Text(x)[Past(x, k)] = x[k + 1].sep
<1> DEFINE z == Len(x)
           w == Pieces(x)
           f == Joined(w)
           t == Text(x)
<1>1. /\ w \in Seq(Seq(Plain)) /\ Len(w) = z
      /\ \A k \in 1 .. z : x[k].name \in Seq(Plain) /\ x[k].name # <<>>
      /\ w[1] = x[1].name
      /\ \A k \in 2 .. z : w[k] = <<x[k].sep>> \o x[k].name
  BY PieceFacts, Zenon
<1>2. z \in Nat /\ z >= 1 /\ \A k \in 1 .. z : x[k].sep \in Plain
  <2>1. x \in FieldsOf(Words \cup {<<"*">>, <<">">>})
    BY DEF Patterns
  <2>2. z \in Nat /\ z >= 1 /\ \A k \in 1 .. z : x[k].sep \in {".", ":"}
    BY <2>1, FieldFacts
  <2> QED
    BY <2>2 DEF Plain
<1>3. t \in Seq(Plain)
  BY TextType
<1>4. t = f[z]
  BY DEF Text
<1>5. \A k \in Int : Past(x, k) = Len(f[k]) + 1 /\ First(x, k) = IF k = 1 THEN 1 ELSE Len(f[k - 1]) + 2
  BY DEF Past, First
<1> HIDE DEF z, w, f, t
<1>6. /\ \A k \in 0 .. z : f[k] \in Seq(Plain)
      /\ Len(f[0]) = 0
      /\ \A k \in 1 .. z : Len(f[k]) = Len(f[k - 1]) + Len(w[k])
      /\ \A k \in 1 .. z : Len(f[k]) <= Len(t)
      /\ \A k \in 1 .. z : \A i \in 1 .. Len(w[k]) : t[Len(f[k - 1]) + i] = w[k][i]
  <2> SUFFICES /\ \A k \in 0 .. Len(w) : Joined(w)[k] \in Seq(Plain)
               /\ Len(Joined(w)[0]) = 0
               /\ \A k \in 1 .. Len(w) : Len(Joined(w)[k]) = Len(Joined(w)[k - 1]) + Len(w[k])
               /\ \A k \in 1 .. Len(w) : Len(Joined(w)[k]) <= Len(Joined(w)[Len(w)])
               /\ \A k \in 1 .. Len(w) : \A i \in 1 .. Len(w[k]) :
                     Joined(w)[Len(w)][Len(Joined(w)[k - 1]) + i] = w[k][i]
    BY <1>1, <1>4, Zenon DEF f
  <2>0. w \in Seq(Seq(Plain))
    BY <1>1
  <2>1. \A k \in 0 .. Len(w) : Joined(w)[k] \in Seq(Plain)
    BY <2>0, JoinedPlaces, Zenon
  <2>2. /\ Len(Joined(w)[0]) = 0
        /\ \A k \in 1 .. Len(w) : Len(Joined(w)[k]) = Len(Joined(w)[k - 1]) + Len(w[k])
        /\ \A k \in 1 .. Len(w) : Len(Joined(w)[k]) <= Len(Joined(w)[Len(w)])
        /\ \A k \in 1 .. Len(w) : \A i \in 1 .. Len(w[k]) :
              Joined(w)[Len(w)][Len(Joined(w)[k - 1]) + i] = w[k][i]
    BY <2>0, JoinedPlaces
  <2> QED
    BY <2>1, <2>2, Zenon
<1>7. ASSUME NEW k \in 2 .. z
      PROVE  /\ k \in 1 .. z /\ Len(w[k]) = Len(x[k].name) + 1 /\ w[k][1] = x[k].sep
             /\ \A i \in 1 .. Len(x[k].name) : w[k][i + 1] = x[k].name[i]
  <2> DEFINE c == x[k].sep
             s == x[k].name
  <2>1. k \in 1 .. z
    BY <1>2
  <2>2. w[k] = <<c>> \o s /\ c \in Plain /\ s \in Seq(Plain)
    BY <1>1, <1>2, <2>1
  <2> HIDE DEF c, s
  <2>3. /\ Len(<<c>> \o s) = Len(s) + 1 /\ (<<c>> \o s)[1] = c
        /\ \A i \in 1 .. Len(s) : (<<c>> \o s)[i + 1] = s[i]
    <3> DEFINE u == <<c>>
    <3>1. u \in Seq(Plain) /\ Len(u) = 1 /\ u[1] = c
      BY <2>2
    <3> HIDE DEF u
    <3>2. /\ Len(u \o s) = Len(u) + Len(s)
          /\ \A i \in 1 .. Len(u) + Len(s) : (u \o s)[i] = IF i <= Len(u) THEN u[i] ELSE s[i - Len(u)]
      BY <2>2, <3>1, ConcatProperties, Zenon
    <3>3. Len(s) \in Nat
      BY <2>2
    <3>4. Len(u \o s) = Len(s) + 1 /\ (u \o s)[1] = c
      BY <3>1, <3>2, <3>3
    <3>5. ASSUME NEW i \in 1 .. Len(s)
          PROVE  (u \o s)[i + 1] = s[i]
      <4>1. i + 1 \in 1 .. Len(u) + Len(s) /\ ~(i + 1 <= Len(u)) /\ (i + 1) - Len(u) = i
        BY <3>1, <3>3
      <4> QED
        BY <3>2, <4>1
    <3> QED
      BY <3>4, <3>5 DEF u
  <2> QED
    BY <2>1, <2>2, <2>3 DEF c, s
<1>8. ASSUME NEW k \in 1 .. z
      PROVE  /\ Len(x[k].name) \in Nat /\ Len(x[k].name) >= 1
             /\ First(x, k) \in 1 .. Len(t) /\ Past(x, k) \in 1 .. Len(t) + 1
             /\ Past(x, k) = First(x, k) + Len(x[k].name)
             /\ \A e \in 0 .. Len(x[k].name) - 1 : t[First(x, k) + e] = x[k].name[e + 1]
  <2> DEFINE s == x[k].name
             l == Len(s)
             g == Len(f[k - 1])
             d == Len(f[k])
             lt == Len(t)
  <2>1. l \in Nat /\ l >= 1
    <3>1. s \in Seq(Plain) /\ s # <<>>
      BY <1>1
    <3> HIDE DEF s
    <3> QED
      BY <3>1
  <2>2. k - 1 \in 0 .. z /\ k \in 0 .. z /\ k \in Int
    BY <1>2
  <2>3. g \in Nat /\ d \in Nat /\ lt \in Nat /\ d = g + Len(w[k]) /\ d <= lt
    <3>1. f[k - 1] \in Seq(Plain) /\ f[k] \in Seq(Plain)
      BY <1>6, <2>2
    <3>2. g \in Nat /\ d \in Nat /\ lt \in Nat
      BY <1>3, <3>1, LenProperties, Zenon
    <3>3. d = g + Len(w[k])
      BY <1>6, Zenon
    <3>4. d <= lt
      BY <1>6, Zenon
    <3> QED
      BY <3>2, <3>3, <3>4
  <2>4. \A i \in 1 .. Len(w[k]) : t[g + i] = w[k][i]
    BY <1>6
  <2>5. Past(x, k) = d + 1 /\ First(x, k) = IF k = 1 THEN 1 ELSE g + 2
    BY <1>5, <2>2
  <2>6. CASE k = 1
    <3>1. g = 0 /\ Len(w[k]) = l /\ w[k] = s
      BY <1>1, <1>6, <2>6
    <3>2. \A i \in 1 .. l : t[0 + i] = s[i]
      BY <2>4, <3>1
    <3>3. First(x, k) = 1 /\ Past(x, k) = l + 1
      <4> HIDE DEF g, d, l
      <4> QED
        BY <2>1, <2>3, <2>5, <2>6, <3>1
    <3>4. \A e \in 0 .. l - 1 : e + 1 \in 1 .. l /\ 0 + (e + 1) = 1 + e
      <4> HIDE DEF l
      <4> QED
        BY <2>1
    <3>5. \A e \in 0 .. l - 1 : t[1 + e] = s[e + 1]
      BY <3>2, <3>4
    <3>6. 1 \in 1 .. lt /\ l + 1 \in 1 .. lt + 1 /\ l + 1 = 1 + l
      <4> HIDE DEF g, d, l, lt
      <4> QED
        BY <2>1, <2>3, <3>1
    <3> QED
      BY <2>1, <3>3, <3>5, <3>6
  <2>7. CASE k # 1
    <3>1. k \in 2 .. z
      BY <1>2, <2>7
    <3>2. Len(w[k]) = l + 1 /\ \A i \in 1 .. l : w[k][i + 1] = s[i]
      BY <1>7, <3>1
    <3>3. \A e \in 0 .. l - 1 : e + 1 \in 1 .. l /\ (e + 1) + 1 \in 1 .. l + 1 /\ g + ((e + 1) + 1) = (g + 2) + e
      <4> HIDE DEF l, g
      <4> QED
        BY <2>1, <2>3
    <3>4. ASSUME NEW e \in 0 .. l - 1
          PROVE  t[(g + 2) + e] = s[e + 1]
      <4>1. t[g + ((e + 1) + 1)] = w[k][(e + 1) + 1]
        BY <2>4, <3>2, <3>3
      <4>2. w[k][(e + 1) + 1] = s[e + 1]
        BY <3>2, <3>3
      <4> QED
        BY <3>3, <4>1, <4>2, Zenon
    <3>5. First(x, k) = g + 2 /\ Past(x, k) = g + 2 + l /\ g + 2 \in 1 .. lt /\ g + 2 + l \in 1 .. lt + 1
      <4> HIDE DEF g, d, l, lt
      <4> QED
        BY <2>1, <2>3, <2>5, <2>7, <3>2
    <3> QED
      BY <2>1, <3>4, <3>5
  <2> QED
    BY <2>6, <2>7
<1>9. ASSUME NEW k \in 1 .. z - 1
      PROVE  /\ First(x, k + 1) = Past(x, k) + 1 /\ Past(x, k) <= Len(t)
             /\ t[Past(x, k)] = x[k + 1].sep
  <2> DEFINE d == Len(f[k])
             lt == Len(t)
  <2>1. k \in 0 .. z /\ k + 1 \in 2 .. z /\ k + 1 \in 1 .. z /\ (k + 1) - 1 = k /\ k + 1 # 1 /\ k \in Int /\
        k + 1 \in Int
    BY <1>2
  <2>2. d \in Nat /\ lt \in Nat
    BY <1>3, <1>6, <2>1
  <2>3. Past(x, k) = d + 1 /\ First(x, k + 1) = d + 2
    BY <1>5, <2>1
  <2> DEFINE e == Len(f[k + 1])
             lw == Len(w[k + 1])
             ln == Len(x[k + 1].name)
  <2>4. e = d + lw /\ e <= lt /\ lw = ln + 1 /\ w[k + 1][1] = x[k + 1].sep
    BY <1>6, <1>7, <2>1
  <2>5. ln \in Nat
    BY <1>8, <2>1
  <2>6. t[d + 1] = w[k + 1][1]
    <3>1. \A i \in 1 .. lw : t[d + i] = w[k + 1][i]
      BY <1>6, <2>1
    <3>2. 1 \in 1 .. lw
      <4> HIDE DEF lw, ln
      <4> QED
        BY <2>4, <2>5
    <3> QED
      BY <3>1, <3>2
  <2>7. d + 1 <= lt /\ d + 2 = (d + 1) + 1
    <3> HIDE DEF d, e, lw, ln, lt
    <3> QED
      BY <2>2, <2>4, <2>5
  <2> QED
    BY <2>3, <2>4, <2>6, <2>7
<1>10. First(x, 1) = 1 /\ Past(x, z) = Len(t) + 1
  BY <1>2, <1>4, <1>5
<1> QED
  BY <1>2, <1>3, <1>8, <1>9, <1>10 DEF z, t

-----------------------------------------------------------------------------
(***************************************************************************)
(* What the loop does from field to field.                                 *)
(***************************************************************************)

Letters == {"a", "A", "b"}
Separators == {".", ":"}

\* The loop says yes from the names of field u of the pattern and v of the address on.
Meets(t, a, u, v) == Loop(Text(t), Text(a))[First(t, u)][First(a, v)]

(* Letters and separators are told apart, and neither is a wildcard.        *)
LEMMA Characters ==
    /\ \A c \in Letters : c \notin Wildcards /\ c \notin Separators
    /\ \A d \in Separators : d \notin Wildcards
    /\ \A c \in Letters, d \in Separators : tolower(c) # tolower(d) /\ tolower(d) # tolower(c)
    /\ \A d, e \in Separators : tolower(d) = tolower(e) <=> d = e
BY DEF Letters, Separators, Wildcards, tolower

LEMMA LetterIsNoSeparator ==
    ASSUME NEW c \in Letters, NEW d \in Separators
    PROVE  tolower(c) # tolower(d) /\ tolower(d) # tolower(c) /\ c \notin Wildcards /\ d \notin Wildcards
BY Characters, Zenon

(* A name of an address has letters, those of a pattern are wildcards or    *)
(* have letters too.                                                        *)
LEMMA WordLetters ==
    ASSUME NEW w \in Words
    PROVE  /\ w \in Seq(Letters) /\ Len(w) \in Nat /\ \A e \in 0 .. Len(w) - 1 : w[e + 1] \in Letters
           /\ w # <<"*">> /\ w # <<">">>
<1>1. w \in Seq(Letters)
  BY WordAssumption DEF Letters
<1>2. \A i \in 1 .. Len(w) : w[i] \in Letters
  BY <1>1
<1>3. Len(w) \in Nat
  BY <1>1
<1>4. \A e \in 0 .. Len(w) - 1 : w[e + 1] \in Letters
  BY <1>2, <1>3
<1>5. ASSUME NEW c \in Wildcards
      PROVE  w # <<c>>
  <2>1. c \notin Letters
    BY Characters
  <2>2. SUFFICES ASSUME w = <<c>>
                 PROVE  FALSE
    OBVIOUS
  <2>3. Len(w) = 1 /\ w[1] = c
    BY <2>2
  <2> QED
    BY <1>2, <2>1, <2>3
<1> QED
  BY <1>1, <1>3, <1>4, <1>5 DEF Wildcards

(* One field of a text.                                                     *)
LEMMA FieldPlaces ==
    ASSUME NEW x \in Patterns, NEW k \in 1 .. Len(x)
    PROVE  /\ Len(Text(x)) \in Nat /\ Len(x) \in Nat /\ First(x, k) \in 1 .. Len(Text(x))
           /\ Len(x[k].name) \in Nat /\ Len(x[k].name) >= 1
           /\ Past(x, k) \in 1 .. Len(Text(x)) + 1 /\ Past(x, k) = First(x, k) + Len(x[k].name)
           /\ \A e \in 0 .. Len(x[k].name) - 1 : Text(x)[First(x, k) + e] = x[k].name[e + 1]
           /\ k = Len(x) => Past(x, k) = Len(Text(x)) + 1
           /\ k < Len(x) => /\ Past(x, k) <= Len(Text(x)) /\ Text(x)[Past(x, k)] = x[k + 1].sep
                            /\ x[k + 1].sep \in Separators /\ First(x, k + 1) = Past(x, k) + 1
                            /\ First(x, k + 1) \in 1 .. Len(Text(x))
<1>1. Len(Text(x)) \in Nat /\ Len(x) \in Nat /\ Past(x, Len(x)) = Len(Text(x)) + 1
  BY TextPlaces, Zenon
<1>2. \A i \in 1 .. Len(x) :
         /\ Len(x[i].name) \in Nat /\ Len(x[i].name) >= 1
         /\ First(x, i) \in 1 .. Len(Text(x)) /\ Past(x, i) \in 1 .. Len(Text(x)) + 1
         /\ Past(x, i) = First(x, i) + Len(x[i].name)
         /\ \A e \in 0 .. Len(x[i].name) - 1 : Text(x)[First(x, i) + e] = x[i].name[e + 1]
  BY TextPlaces, Zenon
<1>3. \A i \in 1 .. Len(x) - 1 :
         /\ First(x, i + 1) = Past(x, i) + 1 /\ Past(x, i) <= Len(Text(x))
         /\ Text(x)[Past(x, i)] = x[i + 1].sep
  BY TextPlaces, Zenon
<1>4. ASSUME k < Len(x)
      PROVE  /\ Past(x, k) <= Len(Text(x)) /\ Text(x)[Past(x, k)] = x[k + 1].sep
             /\ x[k + 1].sep \in Separators /\ First(x, k + 1) = Past(x, k) + 1
             /\ First(x, k + 1) \in 1 .. Len(Text(x))
  <2>1. k \in 1 .. Len(x) - 1 /\ k + 1 \in 1 .. Len(x)
    BY <1>1, <1>4
  <2>2. x \in FieldsOf(Words \cup {<<"*">>, <<">">>})
    BY DEF Patterns
  <2>3. \A i \in 1 .. Len(x) : x[i].sep \in {".", ":"}
    BY <2>2, FieldFacts, Zenon
  <2> QED
    BY <1>2, <1>3, <2>1, <2>3, Zenon DEF Separators
<1> QED
  BY <1>1, <1>2, <1>4, Zenon

(* Behind two fields.                                                       *)
LEMMA BehindFields ==
    ASSUME NEW t \in Patterns, NEW a \in Patterns, NEW u \in 1 .. Len(t), NEW v \in 1 .. Len(a)
    PROVE  Loop(Text(t), Text(a))[Past(t, u)][Past(a, v)] <=>
              \/ u = Len(t) /\ v = Len(a)
              \/ u < Len(t) /\ v < Len(a) /\ t[u + 1].sep = a[v + 1].sep /\ Meets(t, a, u + 1, v + 1)
<1> DEFINE p == Text(t)
           s == Text(a)
           i == Past(t, u)
           j == Past(a, v)
<1>1. /\ Len(p) \in Nat /\ Len(t) \in Nat /\ i \in 1 .. Len(p) + 1
      /\ u = Len(t) => i = Len(p) + 1
      /\ u < Len(t) => i <= Len(p) /\ p[i] = t[u + 1].sep /\ t[u + 1].sep \in Separators /\ First(t, u + 1) = i + 1
  BY FieldPlaces, Zenon
<1>2. /\ Len(s) \in Nat /\ Len(a) \in Nat /\ j \in 1 .. Len(s) + 1
      /\ v = Len(a) => j = Len(s) + 1
      /\ v < Len(a) => j <= Len(s) /\ s[j] = a[v + 1].sep /\ a[v + 1].sep \in Separators /\ First(a, v + 1) = j + 1
  BY FieldPlaces, Zenon
<1>3. Meets(t, a, u + 1, v + 1) <=> Loop(p, s)[First(t, u + 1)][First(a, v + 1)]
  BY Zenon DEF Meets
<1>4. (u = Len(t) \/ u < Len(t)) /\ ~(u = Len(t) /\ u < Len(t))
  BY <1>1
<1>5. (v = Len(a) \/ v < Len(a)) /\ ~(v = Len(a) /\ v < Len(a))
  BY <1>2
<1>6. /\ i = Len(p) + 1 /\ j = Len(s) + 1 => Loop(p, s)[i][j]
      /\ i = Len(p) + 1 /\ j <= Len(s) => ~Loop(p, s)[i][j]
      /\ i <= Len(p) /\ j = Len(s) + 1 => ~Loop(p, s)[i][j]
      /\ i <= Len(p) /\ j <= Len(s) /\ p[i] \notin Wildcards =>
            (Loop(p, s)[i][j] <=> tolower(p[i]) = tolower(s[j]) /\ Loop(p, s)[i + 1][j + 1])
  BY <1>1, <1>2, LoopSteps, ZenonT(60)
<1>7. u < Len(t) /\ v < Len(a) =>
        (Loop(p, s)[i][j] <=> t[u + 1].sep = a[v + 1].sep /\ Meets(t, a, u + 1, v + 1))
  <2> SUFFICES ASSUME u < Len(t), v < Len(a)
               PROVE  Loop(p, s)[i][j] <=> t[u + 1].sep = a[v + 1].sep /\ Meets(t, a, u + 1, v + 1)
    OBVIOUS
  <2>1. p[i] \notin Wildcards /\ (tolower(p[i]) = tolower(s[j]) <=> t[u + 1].sep = a[v + 1].sep)
    BY <1>1, <1>2, Characters, Zenon
  <2> QED
    BY <1>1, <1>2, <1>3, <1>6, <2>1, Zenon
<1> QED
  BY <1>1, <1>2, <1>4, <1>5, <1>6, <1>7, Zenon

(* The loop says no.                                                        *)
LEMMA LoopSaysNo ==
    ASSUME NEW p, NEW s, Len(p) \in Nat, Len(s) \in Nat,
           NEW i \in 1 .. Len(p) + 1, NEW j \in 1 .. Len(s) + 1,
           \/ i = Len(p) + 1 /\ j <= Len(s)
           \/ i <= Len(p) /\ j = Len(s) + 1
           \/ i <= Len(p) /\ j <= Len(s) /\ p[i] \notin Wildcards /\ tolower(p[i]) # tolower(s[j])
    PROVE  ~Loop(p, s)[i][j]
BY LoopSteps, Zenon

(* The name of a field is met by the same letters and no others.            *)
LEMMA MeetsWord ==
    ASSUME NEW t \in Patterns, NEW a \in Addresses, NEW u \in 1 .. Len(t), NEW v \in 1 .. Len(a),
           t[u].name \in Words
    PROVE  Meets(t, a, u, v) <=>
              /\ strcasecmp(t[u].name, a[v].name)
              /\ \/ u = Len(t) /\ v = Len(a)
                 \/ u < Len(t) /\ v < Len(a) /\ t[u + 1].sep = a[v + 1].sep /\ Meets(t, a, u + 1, v + 1)
<1> DEFINE p == Text(t)
           s == Text(a)
           i == First(t, u)
           j == First(a, v)
           c == t[u].name
           d == a[v].name
           x == Len(c)
           y == Len(d)
           lp == Len(p)
           ls == Len(s)
           f == Loop(p, s)
           Same(e) == tolower(p[i + e]) = tolower(s[j + e])
<1>0. a \in Patterns /\ d \in Words
  BY AddressIsPattern
<1>1. /\ lp \in Nat /\ i \in 1 .. lp /\ x \in Nat /\ x >= 1
      /\ Past(t, u) = i + x /\ Past(t, u) \in 1 .. lp + 1
      /\ \A e \in 0 .. x - 1 : p[i + e] = c[e + 1]
  BY FieldPlaces, Zenon
<1>2. /\ ls \in Nat /\ j \in 1 .. ls /\ y \in Nat /\ y >= 1
      /\ Past(a, v) = j + y /\ Past(a, v) \in 1 .. ls + 1
      /\ \A e \in 0 .. y - 1 : s[j + e] = d[e + 1]
  BY <1>0, FieldPlaces, Zenon
<1>3. /\ c \in Seq(Letters) /\ \A e \in 0 .. x - 1 : c[e + 1] \in Letters
      /\ d \in Seq(Letters) /\ \A e \in 0 .. y - 1 : d[e + 1] \in Letters
  BY <1>0, WordLetters, Zenon
<1>4. Meets(t, a, u, v) <=> f[i][j]
  BY Zenon DEF Meets
<1>5. f[Past(t, u)][Past(a, v)] <=>
              \/ u = Len(t) /\ v = Len(a)
              \/ u < Len(t) /\ v < Len(a) /\ t[u + 1].sep = a[v + 1].sep /\ Meets(t, a, u + 1, v + 1)
  BY <1>0, BehindFields, Zenon
<1>6. ASSUME NEW z \in Nat, z <= x, z <= y
      PROVE  f[i][j] <=> (\A e \in 0 .. z - 1 : Same(e)) /\ f[i + z][j + z]
  <2>1. i \in 1 .. lp + 1 /\ j \in 1 .. ls + 1 /\ i + z <= lp + 1 /\ j + z <= ls + 1
    <3> HIDE DEF lp, ls, i, j, x, y
    <3> QED
      BY <1>1, <1>2, <1>6
  <2>2. \A e \in 0 .. z - 1 : p[i + e] \notin Wildcards
    <3>1. \A e \in 0 .. z - 1 : e \in 0 .. x - 1
      <4> HIDE DEF x, y
      <4> QED
        BY <1>1, <1>6
    <3>2. \A e \in 0 .. x - 1 : p[i + e] \in Letters
      BY <1>1, <1>3, Zenon
    <3> QED
      BY <3>1, <3>2, Characters, Zenon
  <2> QED
    BY <1>1, <1>2, <2>1, <2>2, LoopAlong, Zenon
<1>7. CASE x = y
  <2>1. f[i][j] <=> (\A e \in 0 .. x - 1 : Same(e)) /\ f[i + x][j + x]
    <3>1. x \in Nat /\ x <= x /\ x <= y
      <4> HIDE DEF x, y
      <4> QED
        BY <1>1, <1>7
    <3> HIDE DEF f, Same
    <3> QED
      BY <1>6, <3>1, Zenon
  <2>2. f[i + x][j + x] <=> f[Past(t, u)][Past(a, v)]
    BY <1>1, <1>2, <1>7, Zenon
  <2>3. (\A e \in 0 .. x - 1 : Same(e)) <=> strcasecmp(c, d)
    <3>1. \A e \in 0 .. x - 1 : Same(e) <=> tolower(c[e + 1]) = tolower(d[e + 1])
      BY <1>1, <1>2, <1>7, Zenon
    <3>2. DOMAIN c = 1 .. x
      BY <1>3
    <3>3. strcasecmp(c, d) <=> \A k \in 1 .. x : tolower(c[k]) = tolower(d[k])
      BY <1>7, <3>2, Zenon DEF strcasecmp
    <3>4. (\A e \in 0 .. x - 1 : e + 1 \in 1 .. x) /\ \A k \in 1 .. x : k - 1 \in 0 .. x - 1 /\ (k - 1) + 1 = k
      <4> HIDE DEF x
      <4> QED
        BY <1>1
    <3> HIDE DEF Same, x, c, d
    <3>5. ASSUME \A k \in 1 .. x : tolower(c[k]) = tolower(d[k])
          PROVE  \A e \in 0 .. x - 1 : Same(e)
      BY <3>1, <3>4, <3>5, Zenon
    <3>6. ASSUME \A e \in 0 .. x - 1 : Same(e), NEW k \in 1 .. x
          PROVE  tolower(c[k]) = tolower(d[k])
      <4>1. tolower(c[(k - 1) + 1]) = tolower(d[(k - 1) + 1])
        BY <3>1, <3>4, <3>6, Zenon
      <4> QED
        BY <3>4, <4>1, Zenon
    <3> QED
      BY <3>3, <3>5, <3>6, Zenon
  <2> QED
    BY <1>4, <1>5, <2>1, <2>2, <2>3, Zenon
<1>8. CASE x < y
  <2>1. x <= x /\ x <= y /\ x \in 0 .. y - 1 /\ ~(x = y)
    <3> HIDE DEF x, y
    <3> QED
      BY <1>1, <1>2, <1>8
  <2>2. f[i][j] => f[i + x][j + x]
    <3> HIDE DEF f, Same
    <3> QED
      BY <1>1, <1>6, <2>1, Zenon
  <2>3. s[j + x] \in Letters
    BY <1>2, <1>3, <2>1, Zenon
  <2>4. j + x \in 1 .. ls + 1 /\ j + x <= ls /\ i + x \in 1 .. lp + 1 /\ (i + x = lp + 1 \/ i + x <= lp)
    <3> HIDE DEF x, y, i, j, lp, ls
    <3> QED
      BY <1>1, <1>2, <1>8
  <2>5. ~f[i + x][j + x]
    <3>1. CASE i + x = lp + 1
      BY <1>1, <1>2, <2>4, <3>1, LoopSaysNo, Zenon
    <3>2. CASE i + x <= lp
      <4>1. p[i + x] \in Separators
        <5>1. (u = Len(t) => i + x = lp + 1) /\ Len(t) \in Nat
          BY <1>1, FieldPlaces, Zenon
        <5>2. u < Len(t)
          <6> HIDE DEF i, x, lp
          <6> QED
            BY <1>1, <3>2, <5>1
        <5>3. p[Past(t, u)] = t[u + 1].sep /\ t[u + 1].sep \in Separators
          BY <5>2, FieldPlaces, Zenon
        <5> QED
          BY <1>1, <5>3, Zenon
      <4>2. p[i + x] \notin Wildcards /\ tolower(p[i + x]) # tolower(s[j + x])
        BY <2>3, <4>1, LetterIsNoSeparator, Zenon
      <4> QED
        BY <1>1, <1>2, <2>4, <3>2, <4>2, LoopSaysNo, Zenon
    <3> QED
      BY <2>4, <3>1, <3>2, Zenon
  <2>6. ~strcasecmp(c, d)
    BY <2>1, Zenon DEF strcasecmp
  <2> QED
    BY <1>4, <2>2, <2>5, <2>6, Zenon
<1>9. CASE y < x
  <2>1. y <= x /\ y <= y /\ y \in 0 .. x - 1 /\ ~(x = y)
    <3> HIDE DEF x, y
    <3> QED
      BY <1>1, <1>2, <1>9
  <2>2. f[i][j] => f[i + y][j + y]
    <3> HIDE DEF f, Same
    <3> QED
      BY <1>2, <1>6, <2>1, Zenon
  <2>3. p[i + y] \in Letters
    BY <1>1, <1>3, <2>1, Zenon
  <2>4. i + y \in 1 .. lp + 1 /\ i + y <= lp /\ j + y \in 1 .. ls + 1 /\ (j + y = ls + 1 \/ j + y <= ls)
    <3> HIDE DEF x, y, i, j, lp, ls
    <3> QED
      BY <1>1, <1>2, <1>9
  <2>5. ~f[i + y][j + y]
    <3>1. CASE j + y = ls + 1
      BY <1>1, <1>2, <2>4, <3>1, LoopSaysNo, Zenon
    <3>2. CASE j + y <= ls
      <4>1. s[j + y] \in Separators
        <5>1. (v = Len(a) => j + y = ls + 1) /\ Len(a) \in Nat
          BY <1>0, <1>2, FieldPlaces, Zenon
        <5>2. v < Len(a)
          <6> HIDE DEF j, y, ls
          <6> QED
            BY <1>2, <3>2, <5>1
        <5>3. s[Past(a, v)] = a[v + 1].sep /\ a[v + 1].sep \in Separators
          BY <1>0, <5>2, FieldPlaces, Zenon
        <5> QED
          BY <1>2, <5>3, Zenon
      <4>2. p[i + y] \notin Wildcards /\ tolower(p[i + y]) # tolower(s[j + y])
        BY <2>3, <4>1, LetterIsNoSeparator, Zenon
      <4> QED
        BY <1>1, <1>2, <2>4, <3>2, <4>2, LoopSaysNo, Zenon
    <3> QED
      BY <2>4, <3>1, <3>2, Zenon
  <2>6. ~strcasecmp(c, d)
    BY <2>1, Zenon DEF strcasecmp
  <2> QED
    BY <1>4, <2>2, <2>5, <2>6, Zenon
<1>10. x = y \/ x < y \/ y < x
  <2> HIDE DEF x, y
  <2> QED
    BY <1>1, <1>2
<1> QED
  BY <1>7, <1>8, <1>9, <1>10, Zenon

(* The loop at both ends, and at a wildcard.                                *)
LEMMA LoopEnds ==
    ASSUME NEW p, NEW s, Len(p) \in Nat, Len(s) \in Nat
    PROVE  Loop(p, s)[Len(p) + 1][Len(s) + 1]
<1>1. Len(p) + 1 \in 1 .. Len(p) + 1 /\ Len(s) + 1 \in 1 .. Len(s) + 1
  OBVIOUS
<1> QED
  BY <1>1, LoopSteps, Zenon

LEMMA LoopWild ==
    ASSUME NEW p, NEW s, Len(p) \in Nat, Len(s) \in Nat, NEW i \in 1 .. Len(p), NEW j \in 1 .. Len(s),
           p[i] \in Wildcards
    PROVE  Loop(p, s)[i][j] <=> Loop(p, s)[Onward(p, i + 1)][Onward(s, Skipped(s, p[i], j))]
<1>1. i \in 1 .. Len(p) + 1 /\ j \in 1 .. Len(s) + 1 /\ i <= Len(p) /\ j <= Len(s)
  OBVIOUS
<1> QED
  BY <1>1, LoopSteps, Zenon

(* Until finds the place.                                                   *)
LEMMA UntilIs ==
    ASSUME NEW s, Len(s) \in Nat, NEW j \in 1 .. Len(s) + 1, NEW C, NEW k \in j .. Len(s) + 1,
           k = Len(s) + 1 \/ s[k] \in C, \A i \in j .. k - 1 : s[i] \notin C
    PROVE  Until(s, j, C) = k
<1> DEFINE z == Len(s) + 1
           Found(x) == (x = z \/ s[x] \in C) /\ \A i \in j .. x - 1 : s[i] \notin C
<1>1. Found(k)
  OBVIOUS
<1>2. ASSUME NEW x \in j .. z, Found(x)
      PROVE  x = k
  <2>1. ~(x < k)
    <3> SUFFICES ASSUME x < k
                 PROVE  FALSE
      OBVIOUS
    <3>1. x \in j .. k - 1 /\ x # z
      OBVIOUS
    <3> QED
      BY <1>2, <3>1
  <2>2. ~(k < x)
    <3> SUFFICES ASSUME k < x
                 PROVE  FALSE
      OBVIOUS
    <3>1. k \in j .. x - 1 /\ k # z
      OBVIOUS
    <3> QED
      BY <1>2, <3>1
  <2> QED
    BY <2>1, <2>2
<1>3. Until(s, j, C) = CHOOSE x \in j .. z : Found(x)
  BY Zenon DEF Until
<1> HIDE DEF z, Found
<1>4. k \in j .. z
  BY DEF z
<1> QED
  BY <1>1, <1>2, <1>3, <1>4, Zenon

(* A '*' takes the name of one field, and the separators behind both.       *)
LEMMA MeetsStar ==
    ASSUME NEW t \in Patterns, NEW a \in Addresses, NEW u \in 1 .. Len(t), NEW v \in 1 .. Len(a),
           t[u].name = <<"*">>
    PROVE  Meets(t, a, u, v) <=>
              \/ u = Len(t) /\ v = Len(a)
              \/ u < Len(t) /\ v < Len(a) /\ Meets(t, a, u + 1, v + 1)
<1> DEFINE p == Text(t)
           s == Text(a)
           i == First(t, u)
           j == First(a, v)
           d == a[v].name
           y == Len(d)
           lp == Len(p)
           ls == Len(s)
           f == Loop(p, s)
           k == Past(a, v)
<1>0. a \in Patterns /\ d \in Words
  BY AddressIsPattern
<1>1. /\ lp \in Nat /\ Len(t) \in Nat /\ i \in 1 .. lp /\ p[i] = "*"
      /\ Past(t, u) = i + 1 /\ Past(t, u) \in 1 .. lp + 1
  <2>1. /\ lp \in Nat /\ Len(t) \in Nat /\ i \in 1 .. lp
        /\ Past(t, u) = i + Len(t[u].name) /\ Past(t, u) \in 1 .. lp + 1
        /\ \A e \in 0 .. Len(t[u].name) - 1 : p[i + e] = t[u].name[e + 1]
    BY FieldPlaces, Zenon
  <2>2. Len(t[u].name) = 1 /\ t[u].name[0 + 1] = "*" /\ 0 \in 0 .. 1 - 1 /\ i + 0 = i
    BY <2>1
  <2>3. p[i + 0] = t[u].name[0 + 1]
    BY <2>1, <2>2, Zenon
  <2> QED
    BY <2>1, <2>2, <2>3, Zenon
<1>2. /\ ls \in Nat /\ Len(a) \in Nat /\ j \in 1 .. ls /\ y \in Nat /\ y >= 1
      /\ k = j + y /\ k \in 1 .. ls + 1
      /\ \A e \in 0 .. y - 1 : s[j + e] = d[e + 1]
  BY <1>0, FieldPlaces, Zenon
<1>3. /\ v = Len(a) => k = ls + 1
      /\ v < Len(a) => k <= ls /\ s[k] \in Separators /\ First(a, v + 1) = k + 1
  BY <1>0, FieldPlaces, Zenon
<1>4. /\ u = Len(t) => i + 1 = lp + 1
      /\ u < Len(t) => i + 1 <= lp /\ First(t, u + 1) = (i + 1) + 1
  BY <1>1, FieldPlaces, Zenon
<1>5. Skipped(s, "*", j) = k
  <2>1. \A e \in 0 .. y - 1 : s[j + e] \notin Separators
    BY <1>0, <1>2, WordLetters, Characters, Zenon
  <2>2. \A x \in j .. k - 1 : s[x] \notin Separators
    <3>1. \A x \in j .. k - 1 : x - j \in 0 .. y - 1 /\ j + (x - j) = x
      <4> HIDE DEF j, k, y
      <4> QED
        BY <1>2
    <3> QED
      BY <2>1, <3>1
  <2>3. k \in j .. ls + 1 /\ j \in 1 .. ls + 1 /\ (v = Len(a) \/ v < Len(a))
    <3> HIDE DEF j, k, y, ls
    <3> QED
      BY <1>2
  <2>4. k = ls + 1 \/ s[k] \in Separators
    BY <1>3, <2>3, Zenon
  <2>5. Until(s, j, Separators) = k
    BY <1>2, <2>2, <2>3, <2>4, UntilIs, Zenon
  <2>6. Skipped(s, "*", j) = Until(s, j, Separators)
    BY DEF Skipped, Separators
  <2> QED
    BY <2>5, <2>6
<1>6. Meets(t, a, u, v) <=> f[Onward(p, i + 1)][Onward(s, k)]
  <2>2. p[i] \in Wildcards
    BY <1>1 DEF Wildcards
  <2>3. f[i][j] <=> f[Onward(p, i + 1)][Onward(s, Skipped(s, p[i], j))]
    BY <1>1, <1>2, <2>2, LoopWild, Zenon
  <2>4. Skipped(s, p[i], j) = k
    BY <1>1, <1>5, Zenon
  <2> QED
    BY <2>3, <2>4, Zenon DEF Meets
<1>7. /\ u = Len(t) => Onward(p, i + 1) = lp + 1
      /\ u < Len(t) => Onward(p, i + 1) = First(t, u + 1) /\ First(t, u + 1) <= lp
  <2>0. u < Len(t) => First(t, u + 1) \in 1 .. lp
    BY FieldPlaces, Zenon
  <2>1. Onward(p, i + 1) = IF i + 1 <= lp THEN (i + 1) + 1 ELSE i + 1
    BY Zenon DEF Onward
  <2> HIDE DEF p, i, lp
  <2> QED
    BY <1>1, <1>4, <2>0, <2>1
<1>8. /\ v = Len(a) => Onward(s, k) = ls + 1
      /\ v < Len(a) => Onward(s, k) = First(a, v + 1) /\ First(a, v + 1) <= ls
  <2>0. v < Len(a) => First(a, v + 1) \in 1 .. ls
    BY <1>0, FieldPlaces, Zenon
  <2>1. Onward(s, k) = IF k <= ls THEN k + 1 ELSE k
    BY Zenon DEF Onward
  <2>2. k \in 1 .. ls + 1 /\ ls \in Nat
    BY <1>2
  <2> DEFINE nx == First(a, v + 1)
             on == Onward(s, k)
  <2>3. /\ v = Len(a) => k = ls + 1
        /\ v < Len(a) => k <= ls /\ nx = k + 1
    BY <1>3
  <2> HIDE DEF s, k, ls, nx, on
  <2>4. /\ v = Len(a) => on = ls + 1
        /\ v < Len(a) => on = nx
    BY <2>1, <2>2, <2>3 DEF on
  <2>5. v < Len(a) => nx <= ls
    BY <2>0, <2>2 DEF nx
  <2> QED
    BY <2>4, <2>5, Zenon DEF on, nx
<1>9. (u = Len(t) \/ u < Len(t)) /\ ~(u = Len(t) /\ u < Len(t)) /\ (v = Len(a) \/ v < Len(a)) /\
      ~(v = Len(a) /\ v < Len(a))
  <2>1. Len(t) \in Nat /\ Len(a) \in Nat
    BY <1>1, <1>2, Zenon
  <2> QED
    BY <2>1
<1>10. lp + 1 \in 1 .. lp + 1 /\ ls + 1 \in 1 .. ls + 1
  <2> HIDE DEF lp, ls
  <2> QED
    BY <1>1, <1>2
<1>11. CASE u = Len(t) /\ v = Len(a)
  <2>1. f[lp + 1][ls + 1]
    BY <1>1, <1>2, LoopEnds, Zenon
  <2> QED
    BY <1>6, <1>7, <1>8, <1>11, <2>1, Zenon
<1>12. CASE u = Len(t) /\ v < Len(a)
  <2>0. First(a, v + 1) \in 1 .. ls + 1
    <3>1. First(a, v + 1) \in 1 .. ls
      BY <1>0, <1>12, FieldPlaces, Zenon
    <3> HIDE DEF ls
    <3> QED
      BY <1>2, <3>1
  <2>1. ~f[lp + 1][First(a, v + 1)]
    BY <1>1, <1>2, <1>8, <1>10, <1>12, <2>0, LoopSaysNo, Zenon
  <2> QED
    BY <1>6, <1>7, <1>8, <1>9, <1>12, <2>1, Zenon
<1>13. CASE u < Len(t) /\ v = Len(a)
  <2>0. First(t, u + 1) \in 1 .. lp + 1
    <3>1. First(t, u + 1) \in 1 .. lp
      BY <1>13, FieldPlaces, Zenon
    <3> HIDE DEF lp
    <3> QED
      BY <1>1, <3>1
  <2>1. ~f[First(t, u + 1)][ls + 1]
    BY <1>1, <1>2, <1>7, <1>10, <1>13, <2>0, LoopSaysNo, Zenon
  <2> QED
    BY <1>6, <1>7, <1>8, <1>9, <1>13, <2>1, Zenon
<1>14. CASE u < Len(t) /\ v < Len(a)
  <2>1. f[First(t, u + 1)][First(a, v + 1)] <=> Meets(t, a, u + 1, v + 1)
    BY Zenon DEF Meets
  <2> QED
    BY <1>6, <1>7, <1>8, <1>9, <1>14, <2>1, Zenon
<1> QED
  BY <1>9, <1>11, <1>12, <1>13, <1>14, Zenon

(* A wildcard of a pattern, and what it is passed to.                       *)
LEMMA WildField ==
    ASSUME NEW t \in Patterns, NEW u \in 1 .. Len(t), NEW c \in Wildcards, t[u].name = <<c>>
    PROVE  /\ Len(Text(t)) \in Nat /\ Len(t) \in Nat /\ First(t, u) \in 1 .. Len(Text(t))
           /\ Text(t)[First(t, u)] = c
           /\ u = Len(t) => Onward(Text(t), First(t, u) + 1) = Len(Text(t)) + 1
           /\ u < Len(t) => /\ Onward(Text(t), First(t, u) + 1) = First(t, u + 1)
                            /\ First(t, u + 1) \in 1 .. Len(Text(t))
<1> DEFINE p == Text(t)
           i == First(t, u)
           lp == Len(p)
           nx == First(t, u + 1)
<1>1. /\ lp \in Nat /\ Len(t) \in Nat /\ i \in 1 .. lp
      /\ Past(t, u) = i + Len(t[u].name) /\ Past(t, u) \in 1 .. lp + 1
      /\ \A e \in 0 .. Len(t[u].name) - 1 : p[i + e] = t[u].name[e + 1]
  BY FieldPlaces, Zenon
<1>2. Len(t[u].name) = 1 /\ t[u].name[0 + 1] = c /\ 0 \in 0 .. 1 - 1 /\ i + 0 = i
  BY <1>1
<1>3. p[i + 0] = t[u].name[0 + 1]
  BY <1>1, <1>2, Zenon
<1>4. p[i] = c /\ Past(t, u) = i + 1
  BY <1>1, <1>2, <1>3, Zenon
<1>5. /\ u = Len(t) => i + 1 = lp + 1
      /\ u < Len(t) => i + 1 <= lp /\ nx = (i + 1) + 1 /\ nx \in 1 .. lp
  BY <1>4, FieldPlaces, Zenon
<1>6. Onward(p, i + 1) = IF i + 1 <= lp THEN (i + 1) + 1 ELSE i + 1
  BY Zenon DEF Onward
<1>7. /\ u = Len(t) => Onward(p, i + 1) = lp + 1
      /\ u < Len(t) => Onward(p, i + 1) = nx
  <2> HIDE DEF p, i, lp, nx
  <2> QED
    BY <1>1, <1>5, <1>6
<1> QED
  BY <1>1, <1>4, <1>5, <1>7, Zenon

(* There are letters from the first character of a field to its last.       *)
LEMMA FieldLetters ==
    ASSUME NEW a \in Addresses, NEW k \in 1 .. Len(a)
    PROVE  \A i \in First(a, k) .. Past(a, k) - 1 : Text(a)[i] \in Letters
<1> DEFINE d == a[k].name
           y == Len(d)
           j == First(a, k)
           z == Past(a, k)
           s == Text(a)
<1>1. a \in Patterns /\ d \in Words
  BY AddressIsPattern
<1>2. /\ Len(s) \in Nat /\ y \in Nat /\ j \in 1 .. Len(s) /\ z = j + y
      /\ \A e \in 0 .. y - 1 : s[j + e] = d[e + 1]
  BY <1>1, FieldPlaces, Zenon
<1>3. \A e \in 0 .. y - 1 : s[j + e] \in Letters
  BY <1>1, <1>2, WordLetters, Zenon
<1>4. \A x \in j .. z - 1 : x - j \in 0 .. y - 1 /\ j + (x - j) = x
  <2> HIDE DEF j, z, y, s
  <2> QED
    BY <1>2
<1> QED
  BY <1>3, <1>4

(* The next colon is in front of the next sub-address.                      *)
LEMMA NoColon ==
    ASSUME NEW a \in Addresses, NEW v \in 1 .. Len(a), NEW w \in v .. Len(a),
           \A x \in v + 1 .. w : a[x].sep # ":"
    PROVE  \A i \in First(a, v) .. Past(a, w) - 1 : Text(a)[i] # ":"
<1> DEFINE s == Text(a)
           j == First(a, v)
           B == {x \in v .. w : \A i \in j .. Past(a, x) - 1 : s[i] # ":"}
<1>1. a \in Patterns /\ Len(a) \in Nat
  BY AddressIsPattern, TextPlaces
<1>2. \A c \in Letters : c # ":"
  BY DEF Letters
<1>3. v \in B
  <2>1. \A i \in j .. Past(a, v) - 1 : s[i] # ":"
    BY <1>2, FieldLetters, Zenon
  <2>2. v \in v .. w
    BY <1>1
  <2> QED
    BY <2>1, <2>2, Zenon
<1>4. ASSUME NEW x \in v .. w - 1, x \in B
      PROVE  x + 1 \in B
  <2>1. x \in 1 .. Len(a) /\ x < Len(a) /\ x + 1 \in 1 .. Len(a) /\ x + 1 \in v .. w /\ x + 1 \in v + 1 .. w
    BY <1>1
  <2> DEFINE z == Past(a, x)
             g == First(a, x + 1)
             h == Past(a, x + 1)
  <2>2. z \in Nat /\ g = z + 1 /\ s[z] # ":"
    <3>1. z \in 1 .. Len(s) + 1 /\ Len(s) \in Nat /\ s[z] = a[x + 1].sep /\ g = z + 1
      BY <1>1, <2>1, FieldPlaces, Zenon
    <3>2. z \in Nat
      <4> HIDE DEF z, s
      <4> QED
        BY <3>1
    <3> QED
      BY <2>1, <3>1, <3>2, Zenon
  <2>3. \A i \in g .. h - 1 : s[i] # ":"
    BY <1>2, <2>1, FieldLetters, Zenon
  <2>4. \A i \in j .. z - 1 : s[i] # ":"
    BY <1>4, Zenon
  <2>5. j \in Nat /\ h \in Nat
    <3>1. j \in 1 .. Len(s) /\ h \in 1 .. Len(s) + 1 /\ Len(s) \in Nat
      BY <1>1, <2>1, FieldPlaces, Zenon
    <3> HIDE DEF j, h, s
    <3> QED
      BY <3>1
  <2>6. \A i \in j .. h - 1 : i \in j .. z - 1 \/ i = z \/ i \in g .. h - 1
    <3> HIDE DEF j, h, g, z
    <3> QED
      BY <2>2, <2>5
  <2>7. \A i \in j .. h - 1 : s[i] # ":"
    BY <2>2, <2>3, <2>4, <2>6, Zenon
  <2> QED
    BY <2>1, <2>7, Zenon
<1>5. v \in Int /\ w \in Int /\ w \in v .. w
  BY <1>1
<1> HIDE DEF B
<1>6. w \in B
  BY <1>3, <1>4, <1>5, Upwards
<1> QED
  BY <1>6, Zenon DEF B

(* A '>' takes the rest of the address, up to the sub-address behind it,    *)
(* and then the pattern must go on.                                         *)
LEMMA MeetsRestSub ==
    ASSUME NEW t \in Patterns, NEW a \in Addresses, NEW u \in 1 .. Len(t), NEW v \in 1 .. Len(a),
           t[u].name = <<">">>, NEW w \in v + 1 .. Len(a), a[w].sep = ":"
    PROVE  Meets(t, a, u, v) <=> u < Len(t) /\ Meets(t, a, u + 1, w)
<1> DEFINE p == Text(t)
           s == Text(a)
           i == First(t, u)
           j == First(a, v)
           lp == Len(p)
           ls == Len(s)
           f == Loop(p, s)
           x == w - 1
           k == Past(a, x)
<1>0. a \in Patterns /\ Len(a) \in Nat /\ OneSub(a) /\ DOMAIN a = 1 .. Len(a)
  <2>1. a \in FieldsOf(Words)
    BY DEF Addresses
  <2>2. a \in Seq([sep : {".", ":"}, name : Words]) /\ Len(a) \in Nat /\ OneSub(a)
    BY <2>1, FieldFacts, Zenon
  <2>3. DOMAIN a = 1 .. Len(a)
    <3> DEFINE R == [sep : {".", ":"}, name : Words]
    <3>1. a \in Seq(R)
      BY <2>2
    <3> HIDE DEF R
    <3> QED
      BY <3>1
  <2> QED
    BY <2>2, <2>3, AddressIsPattern, Zenon
<1>1. x \in 1 .. Len(a) /\ x < Len(a) /\ x + 1 = w /\ x \in v .. Len(a) /\ w \in 1 .. Len(a)
  BY <1>0
<1>2. \A y \in v + 1 .. x : a[y].sep # ":"
  <2>1. \A y \in v + 1 .. x : y \in 1 .. Len(a) /\ y # w
    BY <1>0
  <2> QED
    BY <1>0, <1>1, <2>1 DEF OneSub
<1>3. /\ ls \in Nat /\ k \in 1 .. ls + 1 /\ k <= ls /\ s[k] = ":" /\ First(a, w) = k + 1
      /\ First(a, w) \in 1 .. ls
  BY <1>0, <1>1, FieldPlaces, Zenon
<1>4. j \in 1 .. ls /\ j <= k
  <2>1. j \in 1 .. ls
    BY <1>0, FieldPlaces, Zenon
  <2>2. j <= k
    <3> DEFINE B == {y \in v .. x : j <= Past(a, y)}
    <3>1. v \in B
      <4>1. v \in v .. x /\ v \in 1 .. Len(a)
        BY <1>0
      <4>2. Past(a, v) = j + Len(a[v].name) /\ Len(a[v].name) \in Nat
        BY <1>0, FieldPlaces, Zenon
      <4>3. j <= Past(a, v)
        <5> HIDE DEF j, s
        <5> QED
          BY <1>3, <2>1, <4>2
      <4> QED
        BY <4>1, <4>3, Zenon
    <3>2. ASSUME NEW y \in v .. x - 1, y \in B
          PROVE  y + 1 \in B
      <4>1. y \in 1 .. Len(a) /\ y < Len(a) /\ y + 1 \in 1 .. Len(a) /\ y + 1 \in v .. x
        BY <1>0, <1>1
      <4>2. /\ First(a, y + 1) = Past(a, y) + 1 /\ Past(a, y) \in 1 .. ls + 1
            /\ Past(a, y + 1) = First(a, y + 1) + Len(a[y + 1].name) /\ Len(a[y + 1].name) \in Nat
        BY <1>0, <4>1, FieldPlaces, Zenon
      <4>3. j <= Past(a, y)
        BY <3>2, Zenon
      <4>4. j <= Past(a, y + 1)
        <5> DEFINE d == Past(a, y)
                   e == Past(a, y + 1)
                   l == Len(a[y + 1].name)
        <5>1. d \in 1 .. ls + 1 /\ e = (d + 1) + l /\ l \in Nat /\ j <= d
          BY <4>2, <4>3, Zenon
        <5> HIDE DEF j, ls, d, e, l
        <5>2. j <= e
          BY <1>3, <2>1, <5>1
        <5> QED
          BY <5>2 DEF e
      <4> QED
        BY <4>1, <4>4, Zenon
    <3>3. v \in Int /\ x \in Int /\ x \in v .. x
      BY <1>0
    <3> HIDE DEF B, x
    <3>4. x \in B
      BY <3>1, <3>2, <3>3, Upwards
    <3> QED
      BY <3>4, Zenon DEF B
  <2> QED
    BY <2>1, <2>2
<1>5. Skipped(s, ">", j) = k
  <2>1. \A y \in j .. k - 1 : s[y] # ":"
    BY <1>1, <1>2, NoColon, Zenon
  <2>2. \A y \in j .. k - 1 : s[y] \notin {":"}
    BY <2>1, Zenon
  <2>3. k \in j .. ls + 1 /\ j \in 1 .. ls + 1
    <3> HIDE DEF j, k, ls
    <3> QED
      BY <1>3, <1>4
  <2>4. s[k] \in {":"}
    BY <1>3, Zenon
  <2>5. Until(s, j, {":"}) = k
    BY <1>3, <2>2, <2>3, <2>4, UntilIs, Zenon
  <2> QED
    BY <2>5 DEF Skipped
<1>6. /\ lp \in Nat /\ Len(t) \in Nat /\ i \in 1 .. lp /\ p[i] = ">"
      /\ u = Len(t) => Onward(p, i + 1) = lp + 1
      /\ u < Len(t) => Onward(p, i + 1) = First(t, u + 1)
  <2>1. ">" \in Wildcards
    BY DEF Wildcards
  <2> QED
    BY <2>1, WildField
<1>7. Onward(s, k) = First(a, w)
  BY <1>3, Zenon DEF Onward
<1>8. Meets(t, a, u, v) <=> f[Onward(p, i + 1)][First(a, w)]
  <2>2. p[i] \in Wildcards
    BY <1>6 DEF Wildcards
  <2>3. f[i][j] <=> f[Onward(p, i + 1)][Onward(s, Skipped(s, p[i], j))]
    BY <1>3, <1>4, <1>6, <2>2, LoopWild, Zenon
  <2>4. Onward(s, Skipped(s, p[i], j)) = First(a, w)
    BY <1>5, <1>6, <1>7, Zenon
  <2> QED
    BY <2>3, <2>4, Zenon DEF Meets
<1>9. CASE u = Len(t)
  <2>1. lp + 1 \in 1 .. lp + 1 /\ First(a, w) \in 1 .. ls + 1 /\ First(a, w) <= ls /\ ~(u < Len(t))
    <3> HIDE DEF lp, ls
    <3> QED
      BY <1>3, <1>6, <1>9
  <2>2. ~f[lp + 1][First(a, w)]
    BY <1>3, <1>6, <2>1, LoopSaysNo, Zenon
  <2> QED
    BY <1>6, <1>8, <1>9, <2>1, <2>2, Zenon
<1>10. CASE u < Len(t)
  BY <1>6, <1>8, <1>10, Zenon DEF Meets
<1>11. u = Len(t) \/ u < Len(t)
  BY <1>6
<1> QED
  BY <1>9, <1>10, <1>11

(* Where no sub-address is behind it, it takes all there is.                *)
LEMMA MeetsRestEnd ==
    ASSUME NEW t \in Patterns, NEW a \in Addresses, NEW u \in 1 .. Len(t), NEW v \in 1 .. Len(a),
           t[u].name = <<">">>, \A w \in v + 1 .. Len(a) : a[w].sep # ":"
    PROVE  Meets(t, a, u, v) <=> u = Len(t)
<1> DEFINE p == Text(t)
           s == Text(a)
           i == First(t, u)
           j == First(a, v)
           lp == Len(p)
           ls == Len(s)
           f == Loop(p, s)
           z == Len(a)
<1>1. a \in Patterns /\ z \in Nat
  BY AddressIsPattern, TextPlaces
<1>2. z \in 1 .. Len(a) /\ z \in v .. Len(a)
  BY <1>1
<1>3. ls \in Nat /\ Past(a, z) = ls + 1 /\ j \in 1 .. ls
  BY <1>1, <1>2, FieldPlaces, Zenon
<1>4. Skipped(s, ">", j) = ls + 1
  <2>1. \A y \in j .. (ls + 1) - 1 : s[y] # ":"
    BY <1>2, <1>3, NoColon, Zenon
  <2>2. \A y \in j .. (ls + 1) - 1 : s[y] \notin {":"}
    BY <2>1, Zenon
  <2>3. ls + 1 \in j .. ls + 1 /\ j \in 1 .. ls + 1
    <3> HIDE DEF j, ls
    <3> QED
      BY <1>3
  <2>5. Until(s, j, {":"}) = ls + 1
    BY <1>3, <2>2, <2>3, UntilIs, Zenon
  <2> QED
    BY <2>5 DEF Skipped
<1>5. Onward(s, ls + 1) = ls + 1
  <2>1. ~(ls + 1 <= ls)
    <3> HIDE DEF ls
    <3> QED
      BY <1>3
  <2> QED
    BY <2>1, Zenon DEF Onward
<1>6. /\ lp \in Nat /\ Len(t) \in Nat /\ i \in 1 .. lp /\ p[i] = ">"
      /\ u = Len(t) => Onward(p, i + 1) = lp + 1
      /\ u < Len(t) => Onward(p, i + 1) = First(t, u + 1) /\ First(t, u + 1) \in 1 .. lp
  <2>1. ">" \in Wildcards
    BY DEF Wildcards
  <2> QED
    BY <2>1, WildField
<1>8. Meets(t, a, u, v) <=> f[Onward(p, i + 1)][ls + 1]
  <2>2. p[i] \in Wildcards
    BY <1>6 DEF Wildcards
  <2>3. f[i][j] <=> f[Onward(p, i + 1)][Onward(s, Skipped(s, p[i], j))]
    BY <1>3, <1>6, <2>2, LoopWild, Zenon
  <2>4. Onward(s, Skipped(s, p[i], j)) = ls + 1
    BY <1>4, <1>5, <1>6, Zenon
  <2> QED
    BY <2>3, <2>4, Zenon DEF Meets
<1>9. CASE u = Len(t)
  <2>1. f[lp + 1][ls + 1]
    BY <1>3, <1>6, LoopEnds, Zenon
  <2> QED
    BY <1>6, <1>8, <1>9, <2>1, Zenon
<1>10. CASE u < Len(t)
  <2> DEFINE g == First(t, u + 1)
  <2>1. g \in 1 .. lp + 1 /\ g <= lp /\ ls + 1 \in 1 .. ls + 1 /\ ~(u = Len(t))
    <3>1. g \in 1 .. lp
      BY <1>6, <1>10, Zenon
    <3> HIDE DEF lp, ls, g
    <3> QED
      BY <1>3, <1>6, <1>10, <3>1
  <2>2. ~f[g][ls + 1]
    BY <1>3, <1>6, <2>1, LoopSaysNo, Zenon
  <2> QED
    BY <1>6, <1>8, <1>10, <2>1, <2>2, Zenon
<1>11. u = Len(t) \/ u < Len(t)
  BY <1>6
<1> QED
  BY <1>9, <1>10, <1>11

(* The whole comparison: without wildcards the loop would say the same.     *)
LEMMA FilterIsLoop ==
    ASSUME NEW t \in Patterns, NEW a \in Addresses
    PROVE  xapFilterAddrSubaddress(Text(t), Text(a)) <=> Meets(t, a, 1, 1)
<1> DEFINE p == Text(t)
           s == Text(a)
           lp == Len(p)
           ls == Len(s)
           f == Loop(p, s)
           Same(e) == tolower(p[1 + e]) = tolower(s[1 + e])
<1>1. p \in Seq(Plain) /\ lp \in Nat /\ First(t, 1) = 1 /\ Len(t) \in Nat /\ Len(t) >= 1
  BY TextPlaces, Zenon
<1>2. ls \in Nat /\ First(a, 1) = 1
  BY AddressIsPattern, TextPlaces, Zenon
<1>3. Meets(t, a, 1, 1) <=> f[1][1]
  BY <1>1, <1>2, Zenon DEF Meets
<1>4. p # <<>>
  <2>1. 1 \in 1 .. Len(t)
    BY <1>1
  <2>2. 1 \in 1 .. lp
    BY <1>1, <2>1, FieldPlaces, Zenon
  <2> HIDE DEF p
  <2> QED
    BY <1>1, <2>2
<1>5. ASSUME \A i \in DOMAIN p : p[i] \notin Wildcards
      PROVE  strcasecmp(p, s) <=> f[1][1]
  <2>0. DOMAIN p = 1 .. lp
    <3> HIDE DEF p
    <3> QED
      BY <1>1
  <2>1. ASSUME NEW d \in Nat, d <= lp, d <= ls
        PROVE  f[1][1] <=> (\A e \in 0 .. d - 1 : Same(e)) /\ f[1 + d][1 + d]
    <3>1. 1 \in 1 .. lp + 1 /\ 1 \in 1 .. ls + 1 /\ 1 + d <= lp + 1 /\ 1 + d <= ls + 1
      <4> HIDE DEF lp, ls
      <4> QED
        BY <1>1, <1>2, <2>1
    <3>2. \A e \in 0 .. d - 1 : 1 + e \in 1 .. lp
      <4> HIDE DEF lp, ls
      <4> QED
        BY <1>1, <2>1
    <3>3. \A e \in 0 .. d - 1 : p[1 + e] \notin Wildcards
      BY <1>5, <2>0, <3>2, Zenon
    <3> QED
      BY <1>1, <1>2, <3>1, <3>3, LoopAlong, Zenon
  <2>2. CASE lp = ls
    <3>1. lp <= lp /\ lp <= ls /\ 1 + lp = lp + 1 /\ 1 + lp = ls + 1
      <4> HIDE DEF lp, ls
      <4> QED
        BY <1>1, <2>2
    <3>2. f[1][1] <=> (\A e \in 0 .. lp - 1 : Same(e)) /\ f[1 + lp][1 + lp]
      <4> HIDE DEF f, Same
      <4> QED
        BY <1>1, <2>1, <3>1, Zenon
    <3>3. f[lp + 1][ls + 1]
      BY <1>1, <1>2, LoopEnds, Zenon
    <3>4. f[1 + lp][1 + lp]
      BY <3>1, <3>3, Zenon
    <3>5. strcasecmp(p, s) <=> \A k \in 1 .. lp : tolower(p[k]) = tolower(s[k])
      BY <2>0, <2>2, Zenon DEF strcasecmp
    <3>6. (\A e \in 0 .. lp - 1 : 1 + e \in 1 .. lp) /\ \A k \in 1 .. lp : k - 1 \in 0 .. lp - 1 /\ 1 + (k - 1) = k
      <4> HIDE DEF lp
      <4> QED
        BY <1>1
    <3>7. (\A e \in 0 .. lp - 1 : Same(e)) <=> \A k \in 1 .. lp : tolower(p[k]) = tolower(s[k])
      <4> HIDE DEF p, s, lp
      <4>1. ASSUME \A e \in 0 .. lp - 1 : Same(e), NEW k \in 1 .. lp
            PROVE  tolower(p[k]) = tolower(s[k])
        <5>1. tolower(p[1 + (k - 1)]) = tolower(s[1 + (k - 1)])
          BY <3>6, <4>1, Zenon
        <5> QED
          BY <3>6, <5>1, Zenon
      <4>2. ASSUME \A k \in 1 .. lp : tolower(p[k]) = tolower(s[k])
            PROVE  \A e \in 0 .. lp - 1 : Same(e)
        BY <3>6, <4>2, Zenon
      <4> QED
        BY <4>1, <4>2, Zenon
    <3> HIDE DEF f, Same
    <3> QED
      BY <3>2, <3>4, <3>5, <3>7, Zenon
  <2>3. CASE lp < ls
    <3>1. lp <= lp /\ lp <= ls /\ 1 + lp \in 1 .. ls + 1 /\ 1 + lp \in 1 .. lp + 1 /\ 1 + lp = lp + 1 /\
          1 + lp <= ls /\ ~(lp = ls)
      <4> HIDE DEF lp, ls
      <4> QED
        BY <1>1, <1>2, <2>3
    <3>2. f[1][1] => f[1 + lp][1 + lp]
      <4> HIDE DEF f, Same
      <4> QED
        BY <1>1, <2>1, <3>1, Zenon
    <3>3. ~f[1 + lp][1 + lp]
      BY <1>1, <1>2, <3>1, LoopSaysNo, Zenon
    <3> QED
      BY <3>1, <3>2, <3>3, Zenon DEF strcasecmp
  <2>4. CASE ls < lp
    <3>1. ls <= lp /\ ls <= ls /\ 1 + ls \in 1 .. lp + 1 /\ 1 + ls \in 1 .. ls + 1 /\ 1 + ls = ls + 1 /\
          1 + ls <= lp /\ ~(lp = ls)
      <4> HIDE DEF lp, ls
      <4> QED
        BY <1>1, <1>2, <2>4
    <3>2. f[1][1] => f[1 + ls][1 + ls]
      <4> HIDE DEF f, Same
      <4> QED
        BY <1>2, <2>1, <3>1, Zenon
    <3>3. ~f[1 + ls][1 + ls]
      BY <1>1, <1>2, <3>1, LoopSaysNo, Zenon
    <3> QED
      BY <3>1, <3>2, <3>3, Zenon DEF strcasecmp
  <2>5. lp = ls \/ lp < ls \/ ls < lp
    <3> HIDE DEF lp, ls
    <3> QED
      BY <1>1, <1>2
  <2> QED
    BY <2>2, <2>3, <2>4, <2>5, Zenon
<1>6. CASE \A i \in DOMAIN p : p[i] \notin Wildcards
  <2>1. xapFilterAddrSubaddress(p, s) <=> strcasecmp(p, s)
    BY <1>4, <1>6, Zenon DEF xapFilterAddrSubaddress
  <2> QED
    BY <1>3, <1>5, <1>6, <2>1, Zenon
<1>7. CASE ~(\A i \in DOMAIN p : p[i] \notin Wildcards)
  <2>1. xapFilterAddrSubaddress(p, s) <=> f[1][1]
    BY <1>4, <1>7, Zenon DEF xapFilterAddrSubaddress
  <2> QED
    BY <1>3, <2>1, Zenon
<1> QED
  BY <1>6, <1>7

-----------------------------------------------------------------------------
(***************************************************************************)
(* What patterns stand for.                                                *)
(***************************************************************************)

(* Where the sub-address begins.                                            *)
LEMMA SubAtFacts ==
    ASSUME NEW x, Len(x) \in Nat, Len(x) >= 1, DOMAIN x = 1 .. Len(x), OneSub(x), x[1].sep = "."
    PROVE  /\ SubAt(x) \in 2 .. Len(x) + 1
           /\ \A k \in 1 .. Len(x) : x[k].sep = ":" <=> k = SubAt(x)
<1> DEFINE z == Len(x)
           At(k) == (k = z + 1 \/ x[k].sep = ":") /\ \A j \in 1 .. k - 1 : x[j].sep # ":"
<1>1. \A j, k \in 1 .. z : x[j].sep = ":" /\ x[k].sep = ":" => j = k
  BY DEF OneSub
<1>2. \E k \in 1 .. z + 1 : At(k)
  <2>1. CASE \E k \in 1 .. z : x[k].sep = ":"
    <3>1. PICK k \in 1 .. z : x[k].sep = ":"
      BY <2>1
    <3>2. \A j \in 1 .. k - 1 : j \in 1 .. z /\ j # k
      OBVIOUS
    <3>3. k \in 1 .. z + 1
      OBVIOUS
    <3>4. At(k)
      BY <1>1, <3>1, <3>2, Zenon
    <3> QED
      BY <3>3, <3>4, Zenon
  <2>2. CASE ~\E k \in 1 .. z : x[k].sep = ":"
    <3>1. z + 1 \in 1 .. z + 1 /\ \A j \in 1 .. (z + 1) - 1 : j \in 1 .. z
      OBVIOUS
    <3>2. At(z + 1)
      BY <2>2, <3>1, Zenon
    <3> QED
      BY <3>1, <3>2, Zenon
  <2> QED
    BY <2>1, <2>2
<1> DEFINE q == SubAt(x)
<1>3. q = CHOOSE k \in 1 .. z + 1 : At(k)
  BY Zenon DEF SubAt
<1> HIDE DEF q
<1>4. q \in 1 .. z + 1 /\ At(q)
  <2> HIDE DEF At
  <2> QED
    BY <1>2, <1>3, Zenon
<1>5. q # 1
  <2>1. 1 # z + 1 /\ x[1].sep # ":"
    OBVIOUS
  <2> QED
    BY <1>4, <2>1
<1>6. ASSUME NEW k \in 1 .. z
      PROVE  x[k].sep = ":" <=> k = q
  <2>1. CASE q = z + 1
    <3>1. k \in 1 .. q - 1 /\ k # q
      BY <2>1
    <3> QED
      BY <1>4, <3>1
  <2>2. CASE q # z + 1
    <3>1. q \in 1 .. z /\ x[q].sep = ":"
      BY <1>4, <2>2
    <3> QED
      BY <1>1, <3>1
  <2> QED
    BY <2>1, <2>2
<1> QED
  BY <1>4, <1>5, <1>6 DEF q

(* A part of a pattern and a part of an address, by their places.           *)
LEMMA PartIs ==
    ASSUME NEW Recs, NEW q \in Seq(Recs), NEW T, NEW a \in Seq(T),
           NEW x \in Int, NEW y \in Int, NEW g \in Int, NEW h \in Int,
           1 <= x, x - 1 <= y, y <= Len(q), 1 <= g, g - 1 <= h, h <= Len(a)
    PROVE  PartCovers(SubSeq(q, x, y), SubSeq(a, g, h)) <=>
              IF x <= y /\ q[y].name = <<">">>
              THEN h - g >= y - x /\ \A k \in 0 .. y - x - 1 : SameName(q[x + k], a[g + k])
              ELSE h - g = y - x /\ \A k \in 0 .. y - x : SameName(q[x + k], a[g + k])
<1> DEFINE r == SubSeq(q, x, y)
           d == SubSeq(a, g, h)
           lr == y - x + 1
           ld == h - g + 1
<1>0. lr \in Nat /\ ld \in Nat
  OBVIOUS
<1>1. r \in Seq(Recs) /\ Len(r) = lr /\ DOMAIN r = 1 .. lr /\ \A k \in 1 .. lr : r[k] = q[x + (k - 1)]
  <2>1. Len(q) \in Nat
    OBVIOUS
  <2>2. CASE x <= y
    <3>1. x \in 1 .. Len(q) /\ y \in x .. Len(q)
      BY <2>1, <2>2
    <3> QED
      BY <2>1, <2>2, <3>1
  <2>3. CASE ~(x <= y)
    <3>1. r = <<>> /\ lr = 0
      BY <2>1, <2>3
    <3> QED
      BY <3>1
  <2> QED
    BY <2>2, <2>3
<1>2. d \in Seq(T) /\ Len(d) = ld /\ \A k \in 1 .. ld : d[k] = a[g + (k - 1)]
  <2>1. Len(a) \in Nat
    OBVIOUS
  <2>2. CASE g <= h
    <3>1. g \in 1 .. Len(a) /\ h \in g .. Len(a)
      BY <2>1, <2>2
    <3> QED
      BY <2>1, <2>2, <3>1
  <2>3. CASE ~(g <= h)
    <3>1. d = <<>> /\ ld = 0
      BY <2>1, <2>3
    <3> QED
      BY <3>1
  <2> QED
    BY <2>2, <2>3
<1>3. PartCovers(r, d) <=>
         IF r # <<>> /\ r[lr].name = <<">">>
         THEN ld >= lr /\ \A k \in 1 .. lr - 1 : SameName(r[k], d[k])
         ELSE ld = lr /\ \A k \in 1 .. lr : SameName(r[k], d[k])
  BY <1>1, <1>2, Zenon DEF PartCovers
<1>4. (r # <<>> <=> x <= y) /\ (x <= y => r[lr] = q[y])
  <2>1. r # <<>> <=> lr # 0
    <3> HIDE DEF r, lr
    <3> QED
      BY <1>1
  <2>2. lr # 0 <=> x <= y
    OBVIOUS
  <2>3. ASSUME x <= y
        PROVE  r[lr] = q[y]
    <3>1. lr \in 1 .. lr /\ x + (lr - 1) = y
      BY <2>3
    <3> QED
      BY <1>1, <3>1, Zenon
  <2> QED
    BY <2>1, <2>2, <2>3
<1>5. (ld >= lr <=> h - g >= y - x) /\ (ld = lr <=> h - g = y - x)
  OBVIOUS
<1>6. ASSUME NEW z \in Int, z <= lr, z <= ld
      PROVE  (\A k \in 1 .. z : SameName(r[k], d[k])) <=> \A k \in 0 .. z - 1 : SameName(q[x + k], a[g + k])
  <2>1. \A k \in 1 .. z : r[k] = q[x + (k - 1)] /\ d[k] = a[g + (k - 1)] /\ k - 1 \in 0 .. z - 1
    <3>1. \A k \in 1 .. z : k \in 1 .. lr /\ k \in 1 .. ld /\ k - 1 \in 0 .. z - 1
      BY <1>0, <1>6
    <3> QED
      BY <1>1, <1>2, <3>1, Zenon
  <2>2. \A k \in 0 .. z - 1 : k + 1 \in 1 .. z /\ (k + 1) - 1 = k
    OBVIOUS
  <2> HIDE DEF r, d
  <2>3. ASSUME \A k \in 0 .. z - 1 : SameName(q[x + k], a[g + k])
        PROVE  \A k \in 1 .. z : SameName(r[k], d[k])
    BY <2>1, <2>3, Zenon
  <2>4. ASSUME \A k \in 1 .. z : SameName(r[k], d[k]), NEW k \in 0 .. z - 1
        PROVE  SameName(q[x + k], a[g + k])
    <3>1. SameName(r[k + 1], d[k + 1])
      BY <2>2, <2>4, Zenon
    <3>2. r[k + 1] = q[x + k] /\ d[k + 1] = a[g + k]
      BY <2>1, <2>2, Zenon
    <3> QED
      BY <3>1, <3>2, Zenon
  <2> QED
    BY <2>3, <2>4, Zenon
<1>7. ld >= lr => ((\A k \in 1 .. lr - 1 : SameName(r[k], d[k])) <=>
      \A k \in 0 .. y - x - 1 : SameName(q[x + k], a[g + k]))
  <2> SUFFICES ASSUME ld >= lr
               PROVE  (\A k \in 1 .. lr - 1 : SameName(r[k], d[k])) <=>
                     \A k \in 0 .. y - x - 1 : SameName(q[x + k], a[g + k])
    OBVIOUS
  <2>1. lr - 1 \in Int /\ lr - 1 <= lr /\ lr - 1 <= ld /\ (lr - 1) - 1 = y - x - 1
    BY <1>0
  <2>2. (\A k \in 1 .. lr - 1 : SameName(r[k], d[k])) <=> \A k \in 0 .. (lr - 1) - 1 : SameName(q[x + k], a[g + k])
    <3> HIDE DEF r, d, lr, ld
    <3> QED
      BY <1>6, <2>1, Zenon
  <2> HIDE DEF r, d, lr, ld
  <2> QED
    BY <2>1, <2>2, Zenon
<1>8. ld = lr => ((\A k \in 1 .. lr : SameName(r[k], d[k])) <=> \A k \in 0 .. y - x : SameName(q[x + k], a[g + k]))
  <2> SUFFICES ASSUME ld = lr
               PROVE  (\A k \in 1 .. lr : SameName(r[k], d[k])) <=> \A k \in 0 .. y - x : SameName(q[x + k], a[g + k])
    OBVIOUS
  <2>1. lr \in Int /\ lr <= lr /\ lr <= ld /\ lr - 1 = y - x
    BY <1>0
  <2>2. (\A k \in 1 .. lr : SameName(r[k], d[k])) <=> \A k \in 0 .. lr - 1 : SameName(q[x + k], a[g + k])
    <3> HIDE DEF r, d, lr, ld
    <3> QED
      BY <1>6, <2>1, Zenon
  <2> HIDE DEF r, d, lr, ld
  <2> QED
    BY <2>1, <2>2, Zenon
<1>9. r # <<>> /\ r[lr].name = <<">">> <=> x <= y /\ q[y].name = <<">">>
  BY <1>4, Zenon
<1> HIDE DEF r, d, lr, ld
<1>10. CASE x <= y /\ q[y].name = <<">">>
  BY <1>3, <1>5, <1>7, <1>9, <1>10, Zenon DEF r, d
<1>11. CASE ~(x <= y /\ q[y].name = <<">">>)
  BY <1>3, <1>5, <1>8, <1>9, <1>11, Zenon DEF r, d
<1> QED
  BY <1>10, <1>11, Zenon

\* The pattern q with its sub-address at x stands for the address a with its at y.
Fits(q, a, x, y) ==
    /\ IF q[x - 1].name = <<">">>
       THEN y >= x /\ \A k \in 1 .. x - 2 : SameName(q[k], a[k])
       ELSE y = x /\ \A k \in 1 .. x - 1 : SameName(q[k], a[k])
    /\ IF x <= Len(q) /\ q[Len(q)].name = <<">">>
       THEN Len(a) - y >= Len(q) - x /\ \A k \in 0 .. Len(q) - x - 1 : SameName(q[x + k], a[y + k])
       ELSE Len(a) - y = Len(q) - x /\ \A k \in 0 .. Len(q) - x : SameName(q[x + k], a[y + k])

LEMMA CoversIs ==
    ASSUME NEW Recs, NEW q \in Seq(Recs), NEW T, NEW a \in Seq(T),
           SubAt(q) \in 2 .. Len(q) + 1, SubAt(a) \in 2 .. Len(a) + 1
    PROVE  Covers(q, a) <=> Fits(q, a, SubAt(q), SubAt(a))
<1> DEFINE x == SubAt(q)
           y == SubAt(a)
           lq == Len(q)
           la == Len(a)
<1>1. lq \in Nat /\ la \in Nat
  OBVIOUS
<1>2. /\ x - 1 \in Int /\ y - 1 \in Int /\ 1 <= x - 1 /\ x - 1 <= lq /\ 1 <= y - 1 /\ y - 1 <= la
      /\ x \in Int /\ y \in Int /\ lq \in Int /\ la \in Int /\ 1 <= x /\ x - 1 <= lq /\ 1 <= y /\ y - 1 <= la
      /\ 1 \in Int /\ 1 <= 1 /\ 1 - 1 <= x - 1 /\ 1 - 1 <= y - 1 /\ lq <= lq /\ la <= la
  <2> HIDE DEF x, y, lq, la
  <2> QED
    BY <1>1 DEF x, y, lq, la
<1>3. PartCovers(SubSeq(q, 1, x - 1), SubSeq(a, 1, y - 1)) <=>
         IF 1 <= x - 1 /\ q[x - 1].name = <<">">>
         THEN (y - 1) - 1 >= (x - 1) - 1 /\ \A k \in 0 .. (x - 1) - 1 - 1 : SameName(q[1 + k], a[1 + k])
         ELSE (y - 1) - 1 = (x - 1) - 1 /\ \A k \in 0 .. (x - 1) - 1 : SameName(q[1 + k], a[1 + k])
  <2> DEFINE o == 1
             v == x - 1
             w == y - 1
  <2>1. /\ o \in Int /\ v \in Int /\ w \in Int
        /\ 1 <= o /\ o - 1 <= v /\ v <= lq /\ o - 1 <= w /\ w <= la
    BY <1>2
  <2> HIDE DEF o, v, w
  <2>2. PartCovers(SubSeq(q, o, v), SubSeq(a, o, w)) <=>
           IF o <= v /\ q[v].name = <<">">>
           THEN w - o >= v - o /\ \A k \in 0 .. v - o - 1 : SameName(q[o + k], a[o + k])
           ELSE w - o = v - o /\ \A k \in 0 .. v - o : SameName(q[o + k], a[o + k])
    BY <2>1, PartIs, Zenon
  <2> QED
    BY <2>2, Zenon DEF o, v, w
<1>4. PartCovers(SubSeq(q, x, lq), SubSeq(a, y, la)) <=>
         IF x <= lq /\ q[lq].name = <<">">>
         THEN la - y >= lq - x /\ \A k \in 0 .. lq - x - 1 : SameName(q[x + k], a[y + k])
         ELSE la - y = lq - x /\ \A k \in 0 .. lq - x : SameName(q[x + k], a[y + k])
  BY <1>2, PartIs, Zenon
<1>5. Covers(q, a) <=>
         /\ PartCovers(SubSeq(q, 1, x - 1), SubSeq(a, 1, y - 1))
         /\ PartCovers(SubSeq(q, x, lq), SubSeq(a, y, la))
  BY Zenon DEF Covers
<1>6. ASSUME NEW z \in Int
      PROVE  (\A k \in 0 .. z - 1 : SameName(q[1 + k], a[1 + k])) <=> \A k \in 1 .. z : SameName(q[k], a[k])
  <2>1. (\A k \in 0 .. z - 1 : 1 + k \in 1 .. z) /\ \A k \in 1 .. z : k - 1 \in 0 .. z - 1 /\ 1 + (k - 1) = k
    OBVIOUS
  <2>2. ASSUME \A k \in 1 .. z : SameName(q[k], a[k])
        PROVE  \A k \in 0 .. z - 1 : SameName(q[1 + k], a[1 + k])
    BY <2>1, <2>2, Zenon
  <2>3. ASSUME \A k \in 0 .. z - 1 : SameName(q[1 + k], a[1 + k]), NEW k \in 1 .. z
        PROVE  SameName(q[k], a[k])
    <3>1. SameName(q[1 + (k - 1)], a[1 + (k - 1)])
      BY <2>1, <2>3, Zenon
    <3> QED
      BY <2>1, <3>1, Zenon
  <2> QED
    BY <2>2, <2>3, Zenon
<1>7. /\ ((y - 1) - 1 >= (x - 1) - 1 <=> y >= x) /\ ((y - 1) - 1 = (x - 1) - 1 <=> y = x)
      /\ (x - 1) - 1 - 1 = (x - 2) - 1 /\ x - 2 \in Int
  <2> HIDE DEF x, y
  <2> QED
    BY <1>2
<1>8. (\A k \in 0 .. (x - 1) - 1 - 1 : SameName(q[1 + k], a[1 + k])) <=> \A k \in 1 .. x - 2 : SameName(q[k], a[k])
  <2> HIDE DEF x, y
  <2>1. (\A k \in 0 .. (x - 2) - 1 : SameName(q[1 + k], a[1 + k])) <=> \A k \in 1 .. x - 2 : SameName(q[k], a[k])
    BY <1>6, <1>7, Zenon
  <2> QED
    BY <1>7, <2>1, Zenon
<1>9. (\A k \in 0 .. (x - 1) - 1 : SameName(q[1 + k], a[1 + k])) <=> \A k \in 1 .. x - 1 : SameName(q[k], a[k])
  <2> HIDE DEF x, y
  <2> QED
    BY <1>2, <1>6, Zenon
<1>10. Fits(q, a, x, y) <=>
    /\ IF q[x - 1].name = <<">">>
       THEN y >= x /\ \A k \in 1 .. x - 2 : SameName(q[k], a[k])
       ELSE y = x /\ \A k \in 1 .. x - 1 : SameName(q[k], a[k])
    /\ IF x <= lq /\ q[lq].name = <<">">>
       THEN la - y >= lq - x /\ \A k \in 0 .. lq - x - 1 : SameName(q[x + k], a[y + k])
       ELSE la - y = lq - x /\ \A k \in 0 .. lq - x : SameName(q[x + k], a[y + k])
  BY Zenon DEF Fits
<1> HIDE DEF x, y, lq, la
<1>11. PartCovers(SubSeq(q, 1, x - 1), SubSeq(a, 1, y - 1)) <=>
         IF q[x - 1].name = <<">">>
         THEN y >= x /\ \A k \in 1 .. x - 2 : SameName(q[k], a[k])
         ELSE y = x /\ \A k \in 1 .. x - 1 : SameName(q[k], a[k])
  <2>1. CASE q[x - 1].name = <<">">>
    BY <1>2, <1>3, <1>7, <1>8, <2>1, Zenon
  <2>2. CASE q[x - 1].name # <<">">>
    BY <1>2, <1>3, <1>7, <1>9, <2>2, Zenon
  <2> QED
    BY <2>1, <2>2
<1> QED
  BY <1>4, <1>5, <1>10, <1>11, Zenon DEF x, y

\* The field of the address that field k of the pattern stands for.
Shift(k, x, y) == IF k < x THEN k ELSE k + (y - x)

(* Field by field.                                                          *)
LEMMA FitsIs ==
    ASSUME NEW q, NEW a, Len(q) \in Nat, Len(a) \in Nat,
           NEW x \in 2 .. Len(q) + 1, NEW y \in 2 .. Len(a) + 1,
           \A k \in 1 .. Len(q) : q[k].name = <<">">> => k = Len(q) \/ k = x - 1
    PROVE  Fits(q, a, x, y) <=>
              /\ x <= y /\ (q[x - 1].name # <<">">> => x = y)
              /\ x = Len(q) + 1 => y = Len(a) + 1
              /\ x <= Len(q) => /\ Len(q) + (y - x) <= Len(a)
                                /\ q[Len(q)].name # <<">">> => Len(q) + (y - x) = Len(a)
              /\ \A k \in 1 .. Len(q) : q[k].name # <<">">> => SameName(q[k], a[Shift(k, x, y)])
<1> DEFINE lq == Len(q)
           la == Len(a)
           Gt(k) == q[k].name = <<">">>
           Same(k, j) == SameName(q[k], a[j])
           Whole == /\ x <= y /\ (~Gt(x - 1) => x = y)
                    /\ x = lq + 1 => y = la + 1
                    /\ x <= lq => lq + (y - x) <= la /\ (~Gt(lq) => lq + (y - x) = la)
                    /\ \A k \in 1 .. lq : ~Gt(k) => Same(k, Shift(k, x, y))
           Front == IF Gt(x - 1) THEN y >= x /\ \A k \in 1 .. x - 2 : Same(k, k)
                    ELSE y = x /\ \A k \in 1 .. x - 1 : Same(k, k)
           Back == IF x <= lq /\ Gt(lq)
                   THEN la - y >= lq - x /\ \A k \in 0 .. lq - x - 1 : Same(x + k, y + k)
                   ELSE la - y = lq - x /\ \A k \in 0 .. lq - x : Same(x + k, y + k)
<1>1. Fits(q, a, x, y) <=> Front /\ Back
  BY Zenon DEF Fits
<1>2. /\ lq \in Nat /\ la \in Nat /\ x \in Int /\ y \in Int /\ 2 <= x /\ x <= lq + 1 /\ 2 <= y /\ y <= la + 1
      /\ \A k \in 1 .. lq : Gt(k) => k = lq \/ k = x - 1
  OBVIOUS
<1> HIDE DEF lq, la, Gt, Same
<1>3. ASSUME Front, Back
      PROVE  Whole
  <2>1. x <= y /\ (~Gt(x - 1) => x = y)
    BY <1>2, <1>3
  <2>2. x = lq + 1 => y = la + 1
    BY <1>2, <1>3
  <2>3. x <= lq => lq + (y - x) <= la /\ (~Gt(lq) => lq + (y - x) = la)
    BY <1>2, <1>3
  <2>4. ASSUME NEW k \in 1 .. lq, ~Gt(k)
        PROVE  Same(k, Shift(k, x, y))
    <3>1. CASE k < x
      <4>1. Shift(k, x, y) = k
        BY <3>1 DEF Shift
      <4>2. CASE Gt(x - 1)
        <5>1. k # x - 1
          BY <2>4, <4>2
        <5>2. k \in 1 .. x - 2
          BY <1>2, <3>1, <5>1
        <5> QED
          BY <1>3, <4>1, <4>2, <5>2
      <4>3. CASE ~Gt(x - 1)
        <5>2. k \in 1 .. x - 1
          BY <1>2, <3>1
        <5> QED
          BY <1>3, <4>1, <4>3, <5>2
      <4> QED
        BY <4>2, <4>3
    <3>2. CASE ~(k < x)
      <4>1. Shift(k, x, y) = k + (y - x)
        BY <3>2 DEF Shift
      <4>2. k - x \in 0 .. lq - x /\ x + (k - x) = k /\ y + (k - x) = k + (y - x) /\ x <= lq
        BY <1>2, <3>2
      <4>3. CASE Gt(lq)
        <5>1. k # lq
          BY <2>4, <4>3
        <5>2. k - x \in 0 .. lq - x - 1
          BY <1>2, <4>2, <5>1
        <5>3. Same(x + (k - x), y + (k - x))
          BY <1>3, <4>2, <4>3, <5>2, Zenon
        <5> QED
          BY <4>1, <4>2, <5>3, Zenon
      <4>4. CASE ~Gt(lq)
        <5>3. Same(x + (k - x), y + (k - x))
          BY <1>3, <4>2, <4>4, Zenon
        <5> QED
          BY <4>1, <4>2, <5>3, Zenon
      <4> QED
        BY <4>3, <4>4
    <3> QED
      BY <3>1, <3>2
  <2> QED
    BY <2>1, <2>2, <2>3, <2>4
<1>4. ASSUME Whole
      PROVE  Front
  <2>1. ASSUME NEW k \in 1 .. x - 1, ~Gt(k)
        PROVE  Same(k, k)
    <3>1. k \in 1 .. lq /\ k < x
      BY <1>2
    <3>2. Shift(k, x, y) = k
      BY <3>1 DEF Shift
    <3>3. Same(k, Shift(k, x, y))
      BY <1>4, <2>1, <3>1, Zenon
    <3> QED
      BY <3>2, <3>3, Zenon
  <2>2. \A k \in 1 .. x - 2 : k \in 1 .. x - 1 /\ ~Gt(k)
    BY <1>2
  <2>3. ASSUME ~Gt(x - 1), NEW k \in 1 .. x - 1
        PROVE  ~Gt(k)
    BY <1>2, <2>3
  <2>4. y >= x /\ (~Gt(x - 1) => y = x)
    BY <1>2, <1>4
  <2>5. \A k \in 1 .. x - 2 : Same(k, k)
    BY <2>1, <2>2, Zenon
  <2>6. ~Gt(x - 1) => \A k \in 1 .. x - 1 : Same(k, k)
    BY <2>1, <2>3, Zenon
  <2> QED
    BY <2>4, <2>5, <2>6, Zenon
<1>5. ASSUME Whole
      PROVE  Back
  <2>1. ASSUME NEW k \in 0 .. lq - x, ~Gt(x + k)
        PROVE  Same(x + k, y + k)
    <3>1. x + k \in 1 .. lq /\ ~(x + k < x) /\ (x + k) + (y - x) = y + k
      BY <1>2
    <3>2. Shift(x + k, x, y) = y + k
      BY <3>1, Zenon DEF Shift
    <3>3. Same(x + k, Shift(x + k, x, y))
      BY <1>5, <2>1, <3>1, Zenon
    <3> QED
      BY <3>2, <3>3, Zenon
  <2>2. \A k \in 0 .. lq - x - 1 : k \in 0 .. lq - x /\ ~Gt(x + k)
    <3>1. \A k \in 0 .. lq - x - 1 : k \in 0 .. lq - x /\ x + k \in 1 .. lq /\ x + k # lq /\ x + k # x - 1
      BY <1>2
    <3> QED
      BY <1>2, <3>1, Zenon
  <2>3. ASSUME ~Gt(lq), NEW k \in 0 .. lq - x
        PROVE  ~Gt(x + k)
    <3>1. x + k \in 1 .. lq /\ x + k # x - 1
      BY <1>2
    <3> QED
      BY <1>2, <2>3, <3>1, Zenon
  <2>4. CASE x <= lq
    <3>1. la - y >= lq - x /\ (~Gt(lq) => la - y = lq - x)
      BY <1>2, <1>5, <2>4
    <3>2. \A k \in 0 .. lq - x - 1 : Same(x + k, y + k)
      BY <2>1, <2>2, Zenon
    <3>3. ~Gt(lq) => \A k \in 0 .. lq - x : Same(x + k, y + k)
      BY <2>1, <2>3, Zenon
    <3> QED
      BY <2>4, <3>1, <3>2, <3>3, Zenon
  <2>5. CASE ~(x <= lq)
    <3>1. la - y = lq - x /\ \A k \in 0 .. lq - x : FALSE
      BY <1>2, <1>5, <2>5
    <3> QED
      BY <2>5, <3>1, Zenon
  <2> QED
    BY <2>4, <2>5
<1>6. Fits(q, a, x, y) <=> Whole
  <2> HIDE DEF Front, Back, Whole
  <2> QED
    BY <1>1, <1>3, <1>4, <1>5, Zenon
<1> QED
  BY <1>6, Zenon DEF Whole, lq, la, Gt, Same

(* The fields of a pattern, and of an address.                              *)
LEMMA PatternFacts ==
    ASSUME NEW t \in Patterns
    PROVE  /\ Len(t) \in Nat /\ Len(t) >= 1 /\ DOMAIN t = 1 .. Len(t) /\ t[1].sep = "." /\ OneSub(t)
           /\ \A k \in 1 .. Len(t) : t[k].sep \in Separators
           /\ \A k \in 1 .. Len(t) : t[k].name \in Words \/ t[k].name = <<"*">> \/ t[k].name = <<">">>
           /\ \A k \in 1 .. Len(t) - 1 : t[k].name = <<">">> => t[k + 1].sep = ":"
<1> DEFINE names == Words \cup {<<"*">>, <<">">>}
           R == [sep : {".", ":"}, name : names]
<1>1. t \in FieldsOf(names)
  BY DEF Patterns
<1>2. /\ t \in Seq(R) /\ Len(t) \in Nat /\ Len(t) >= 1 /\ t[1].sep = "." /\ OneSub(t)
      /\ \A k \in 1 .. Len(t) : t[k].sep \in {".", ":"} /\ t[k].name \in names
      /\ \A k \in 1 .. Len(t) : t[k].name = <<">">> => k = Len(t) \/ t[k + 1].sep = ":"
  <2> HIDE DEF names
  <2> QED
    BY <1>1, FieldFacts
<1>3. DOMAIN t = 1 .. Len(t)
  <2> HIDE DEF R
  <2> QED
    BY <1>2
<1>4. \A k \in 1 .. Len(t) : t[k].name \in Words \/ t[k].name = <<"*">> \/ t[k].name = <<">">>
  BY <1>2, Zenon
<1>5. \A k \in 1 .. Len(t) - 1 : k \in 1 .. Len(t) /\ k # Len(t)
  BY <1>2
<1>6. \A k \in 1 .. Len(t) - 1 : t[k].name = <<">">> => t[k + 1].sep = ":"
  BY <1>2, <1>5, Zenon
<1> QED
  BY <1>2, <1>3, <1>4, <1>6, Zenon DEF Separators

LEMMA SeparatedFacts ==
    ASSUME NEW t \in Patterns, NEW q \in Separated(t)
    PROVE  /\ \E Recs : q \in Seq(Recs)
           /\ Len(q) = Len(t) /\ DOMAIN q = 1 .. Len(t) /\ OneSub(q) /\ q[1].sep = "."
           /\ \A k \in 1 .. Len(t) : q[k].name = t[k].name /\ q[k].sep \in Separators
           /\ \A k \in 1 .. Len(t) - 1 : t[k].name # <<"*">> => q[k + 1].sep = t[k + 1].sep
<1> DEFINE Recs == [sep : {".", ":"}, name : {t[k].name : k \in DOMAIN t}]
           z == Len(t)
<1>1. z \in Nat /\ z >= 1 /\ DOMAIN t = 1 .. z /\ t[1].sep = "."
  BY PatternFacts
<1>2. q \in [1 .. z -> Recs]
  BY <1>1 DEF Separated
<1>3. OneSub(q) /\ \A k \in 1 .. z : q[k].name = t[k].name
  BY <1>1 DEF Separated
<1>4. \A k \in 1 .. z : (k = 1 \/ t[k - 1].name # <<"*">>) => q[k].sep = t[k].sep
  BY <1>1, Zenon DEF Separated
<1>5. \A k \in 1 .. z : q[k].sep \in {".", ":"}
  BY <1>2
<1> HIDE DEF Recs, z
<1>6. q \in Seq(Recs) /\ Len(q) = z /\ DOMAIN q = 1 .. z
  BY <1>1, <1>2
<1>7. 1 \in 1 .. z /\ \A k \in 1 .. z - 1 : k + 1 \in 1 .. z /\ (k + 1) - 1 = k
  BY <1>1
<1>8. q[1].sep = "."
  BY <1>1, <1>4, <1>7, Zenon
<1>9. \A k \in 1 .. z - 1 : t[k].name # <<"*">> => q[k + 1].sep = t[k + 1].sep
  BY <1>4, <1>7, Zenon
<1> QED
  BY <1>3, <1>5, <1>6, <1>8, <1>9 DEF z, Separators

(* A name or a '*' stands for one field.                                    *)
LEMMA MeetsName ==
    ASSUME NEW t \in Patterns, NEW a \in Addresses, NEW u \in 1 .. Len(t), NEW v \in 1 .. Len(a),
           t[u].name # <<">">>
    PROVE  Meets(t, a, u, v) <=>
              /\ SameName(t[u], a[v])
              /\ \/ u = Len(t) /\ v = Len(a)
                 \/ /\ u < Len(t) /\ v < Len(a) /\ Meets(t, a, u + 1, v + 1)
                    /\ t[u].name # <<"*">> => t[u + 1].sep = a[v + 1].sep
<1>1. CASE t[u].name \in Words
  <2>1. t[u].name # <<"*">>
    BY <1>1, WordLetters, Zenon
  <2>2. SameName(t[u], a[v]) <=> strcasecmp(t[u].name, a[v].name)
    BY <2>1, Zenon DEF SameName
  <2> QED
    BY <1>1, <2>1, <2>2, MeetsWord, ZenonT(60)
<1>2. CASE t[u].name = <<"*">>
  <2>1. SameName(t[u], a[v])
    BY <1>2, Zenon DEF SameName
  <2> QED
    BY <1>2, <2>1, MeetsStar, Zenon
<1> QED
  BY <1>1, <1>2, PatternFacts, Zenon

(* What a pattern stands for, field by field.                               *)
LEMMA CoversFacts ==
    ASSUME NEW t \in Patterns, NEW a \in Addresses, NEW q \in Separated(t)
    PROVE  LET x == SubAt(q)
               y == SubAt(a) IN
           /\ x \in 2 .. Len(t) + 1 /\ y \in 2 .. Len(a) + 1
           /\ \A k \in 1 .. Len(t) : q[k].sep = ":" <=> k = x
           /\ \A k \in 1 .. Len(a) : a[k].sep = ":" <=> k = y
           /\ \A k \in 1 .. Len(t) - 1 : t[k].name = <<">">> => k + 1 = x
           /\ Covers(q, a) <=>
                 /\ x <= y /\ (t[x - 1].name # <<">">> => x = y)
                 /\ x = Len(t) + 1 => y = Len(a) + 1
                 /\ x <= Len(t) => /\ Len(t) + (y - x) <= Len(a)
                                   /\ t[Len(t)].name # <<">">> => Len(t) + (y - x) = Len(a)
                 /\ \A k \in 1 .. Len(t) : t[k].name # <<">">> => SameName(t[k], a[Shift(k, x, y)])
<1> DEFINE x == SubAt(q)
           y == SubAt(a)
           z == Len(t)
<1>1. a \in Patterns
  BY AddressIsPattern
<1>2. /\ z \in Nat /\ z >= 1 /\ DOMAIN t = 1 .. z
      /\ \A k \in 1 .. z : t[k].name \in Words \/ t[k].name = <<"*">> \/ t[k].name = <<">">>
      /\ \A k \in 1 .. z - 1 : t[k].name = <<">">> => t[k + 1].sep = ":"
  BY PatternFacts, Zenon
<1>3. Len(a) \in Nat /\ Len(a) >= 1 /\ DOMAIN a = 1 .. Len(a) /\ a[1].sep = "." /\ OneSub(a)
  BY <1>1, PatternFacts, Zenon
<1>4. /\ Len(q) = z /\ DOMAIN q = 1 .. z /\ OneSub(q) /\ q[1].sep = "."
      /\ \A k \in 1 .. z : q[k].name = t[k].name /\ q[k].sep \in Separators
      /\ \A k \in 1 .. z - 1 : t[k].name # <<"*">> => q[k + 1].sep = t[k + 1].sep
  BY SeparatedFacts, Zenon
<1>5. x \in 2 .. z + 1 /\ \A k \in 1 .. z : q[k].sep = ":" <=> k = x
  <2>1. Len(q) \in Nat /\ Len(q) >= 1 /\ DOMAIN q = 1 .. Len(q) /\ OneSub(q) /\ q[1].sep = "."
    BY <1>2, <1>4, Zenon
  <2>2. x \in 2 .. Len(q) + 1 /\ \A k \in 1 .. Len(q) : q[k].sep = ":" <=> k = x
    BY <2>1, SubAtFacts, Zenon
  <2> QED
    BY <1>4, <2>2, Zenon
<1>6. y \in 2 .. Len(a) + 1 /\ \A k \in 1 .. Len(a) : a[k].sep = ":" <=> k = y
  BY <1>3, SubAtFacts, Zenon
<1>7. \A k \in 1 .. z - 1 : t[k].name = <<">">> => k + 1 = x
  <2> SUFFICES ASSUME NEW k \in 1 .. z - 1, t[k].name = <<">">>
               PROVE  k + 1 = x
    OBVIOUS
  <2>1. k + 1 \in 1 .. z
    BY <1>2
  <2>2. t[k].name # <<"*">>
    <3>1. <<">">>[1] # <<"*">>[1]
      OBVIOUS
    <3> QED
      BY <3>1
  <2>3. q[k + 1].sep = ":"
    BY <1>2, <1>4, <2>2, Zenon
  <2> QED
    BY <1>5, <2>1, <2>3, Zenon
<1>8. Covers(q, a) <=> Fits(q, a, x, y)
  <2>1. PICK Recs : q \in Seq(Recs)
    BY SeparatedFacts
  <2>2. PICK T : a \in Seq(T)
    <3>1. a \in FieldsOf(Words)
      BY DEF Addresses
    <3> QED
      BY <3>1, FieldFacts, Zenon
  <2>3. x \in 2 .. Len(q) + 1
    BY <1>4, <1>5, Zenon
  <2> QED
    BY <1>6, <2>1, <2>2, <2>3, CoversIs, Zenon
<1>9. \A k \in 1 .. Len(q) : q[k].name = <<">">> => k = Len(q) \/ k = x - 1
  <2>1. \A k \in 1 .. z : k # z => k \in 1 .. z - 1
    <3> HIDE DEF z
    <3> QED
      BY <1>2
  <2>2. \A k \in 1 .. z - 1 : k + 1 = x => k = x - 1
    <3> HIDE DEF x
    <3> QED
      BY <1>5
  <2> HIDE DEF x
  <2> QED
    BY <1>4, <1>7, <2>1, <2>2, Zenon
<1>10. Fits(q, a, x, y) <=>
         /\ x <= y /\ (q[x - 1].name # <<">">> => x = y)
         /\ x = Len(q) + 1 => y = Len(a) + 1
         /\ x <= Len(q) => /\ Len(q) + (y - x) <= Len(a)
                           /\ q[Len(q)].name # <<">">> => Len(q) + (y - x) = Len(a)
         /\ \A k \in 1 .. Len(q) : q[k].name # <<">">> => SameName(q[k], a[Shift(k, x, y)])
  <2>1. Len(q) \in Nat /\ x \in 2 .. Len(q) + 1
    BY <1>2, <1>4, <1>5, Zenon
  <2> HIDE DEF x, y
  <2> QED
    BY <1>3, <1>6, <1>9, <2>1, FitsIs, Zenon
<1>11. \A k \in 1 .. z : \A b : SameName(q[k], b) <=> SameName(t[k], b)
  BY <1>4, Zenon DEF SameName
<1>12. x - 1 \in 1 .. z /\ z \in 1 .. z
  <2> HIDE DEF x
  <2> QED
    BY <1>2, <1>5
<1> HIDE DEF x, y, z
<1>13. Fits(q, a, x, y) <=>
         /\ x <= y /\ (t[x - 1].name # <<">">> => x = y)
         /\ x = z + 1 => y = Len(a) + 1
         /\ x <= z => /\ z + (y - x) <= Len(a)
                      /\ t[z].name # <<">">> => z + (y - x) = Len(a)
         /\ \A k \in 1 .. z : t[k].name # <<">">> => SameName(t[k], a[Shift(k, x, y)])
  <2>1. (\A k \in 1 .. z : q[k].name # <<">">> => SameName(q[k], a[Shift(k, x, y)])) <=>
           \A k \in 1 .. z : t[k].name # <<">">> => SameName(t[k], a[Shift(k, x, y)])
    BY <1>4, <1>11, Zenon
  <2>2. q[x - 1].name = t[x - 1].name /\ q[z].name = t[z].name
    BY <1>4, <1>12, Zenon
  <2> QED
    BY <1>4, <1>10, <2>1, <2>2, Zenon
<1>14. Covers(q, a) <=>
         /\ x <= y /\ (t[x - 1].name # <<">">> => x = y)
         /\ x = z + 1 => y = Len(a) + 1
         /\ x <= z => /\ z + (y - x) <= Len(a)
                      /\ t[z].name # <<">">> => z + (y - x) = Len(a)
         /\ \A k \in 1 .. z : t[k].name # <<">">> => SameName(t[k], a[Shift(k, x, y)])
  BY <1>8, <1>13, Zenon
<1> QED
  BY <1>5, <1>6, <1>7, <1>14, Zenon DEF x, y, z

(* The loop says yes to what the pattern stands for.                        *)
LEMMA CoveredIsMet ==
    ASSUME NEW t \in Patterns, NEW a \in Addresses, NEW q \in Separated(t), Covers(q, a)
    PROVE  Meets(t, a, 1, 1)
<1> DEFINE x == SubAt(q)
           y == SubAt(a)
           z == Len(t)
           la == Len(a)
           h(k) == Shift(k, x, y)
           B == {k \in 1 .. z : Meets(t, a, k, h(k))}
<1>1. /\ x \in 2 .. z + 1 /\ y \in 2 .. la + 1
      /\ \A k \in 1 .. z : q[k].sep = ":" <=> k = x
      /\ \A k \in 1 .. la : a[k].sep = ":" <=> k = y
      /\ \A k \in 1 .. z - 1 : t[k].name = <<">">> => k + 1 = x
  BY CoversFacts, Zenon
<1>2. /\ x <= y /\ (t[x - 1].name # <<">">> => x = y)
      /\ x = z + 1 => y = la + 1
      /\ x <= z => z + (y - x) <= la /\ (t[z].name # <<">">> => z + (y - x) = la)
      /\ \A k \in 1 .. z : t[k].name # <<">">> => SameName(t[k], a[h(k)])
  BY CoversFacts, Zenon
<1>3. z \in Nat /\ z >= 1 /\ la \in Nat
  BY AddressIsPattern, PatternFacts
<1>4. /\ \A k \in 1 .. z : q[k].sep \in Separators
      /\ \A k \in 1 .. la : a[k].sep \in Separators
      /\ \A k \in 1 .. z - 1 : t[k].name # <<"*">> => q[k + 1].sep = t[k + 1].sep
  BY AddressIsPattern, PatternFacts, SeparatedFacts, Zenon
<1>5. ASSUME NEW k \in 1 .. z
      PROVE  h(k) \in 1 .. la
  <2>1. h(k) = IF k < x THEN k ELSE k + (y - x)
    BY Zenon DEF Shift
  <2> HIDE DEF x, y, z, la, h
  <2> QED
    BY <1>1, <1>2, <1>3, <2>1
<1>6. z \in B
  <2>0. z \in 1 .. z
    BY <1>3
  <2>1. h(z) = IF z < x THEN z ELSE z + (y - x)
    BY Zenon DEF Shift
  <2>2. CASE t[z].name # <<">">>
    <3>1. h(z) = la
      <4>1. z < x => x - 1 = z /\ x = z + 1
        <5> HIDE DEF x, y, z, la
        <5> QED
          BY <1>1, <1>3
      <4>2. z < x => x = y
        BY <1>2, <2>2, <4>1, Zenon
      <4>3. x <= z => z + (y - x) = la
        BY <1>2, <2>2, Zenon
      <4> HIDE DEF x, y, z, la, h
      <4> QED
        BY <1>1, <1>2, <1>3, <2>1, <4>1, <4>2, <4>3
    <3>2. SameName(t[z], a[h(z)])
      BY <1>2, <2>0, <2>2, Zenon
    <3>3. Meets(t, a, z, h(z))
      <4> HIDE DEF h
      <4> QED
        BY <1>5, <2>0, <2>2, <3>1, <3>2, MeetsName, Zenon
    <3> QED
      BY <2>0, <3>3, Zenon
  <2>3. CASE t[z].name = <<">">>
    <3>1. \A w \in h(z) + 1 .. la : w \in 1 .. la /\ w # y
      <4>1. h(z) \in 1 .. la
        BY <1>5, <2>0, Zenon
      <4> HIDE DEF x, y, z, la, h
      <4> QED
        BY <1>1, <1>2, <1>3, <2>1, <4>1
    <3>2. \A w \in h(z) + 1 .. la : a[w].sep # ":"
      BY <1>1, <3>1, Zenon
    <3>3. Meets(t, a, z, h(z))
      <4> HIDE DEF h
      <4> QED
        BY <1>5, <2>0, <2>3, <3>2, MeetsRestEnd, Zenon
    <3> QED
      BY <2>0, <3>3, Zenon
  <2> QED
    BY <2>2, <2>3
<1>7. ASSUME NEW k \in 1 .. z - 1, k + 1 \in B
      PROVE  k \in B
  <2>0. k \in 1 .. z /\ k + 1 \in 1 .. z /\ k < z /\ Meets(t, a, k + 1, h(k + 1)) /\ k \in Int
    <3>1. Meets(t, a, k + 1, h(k + 1))
      BY <1>7, Zenon
    <3>2. k \in 1 .. z /\ k + 1 \in 1 .. z /\ k < z /\ k \in Int
      <4> HIDE DEF z
      <4> QED
        BY <1>3
    <3> QED
      BY <3>1, <3>2
  <2>1. h(k) = (IF k < x THEN k ELSE k + (y - x)) /\ h(k + 1) = IF k + 1 < x THEN k + 1 ELSE (k + 1) + (y - x)
    BY Zenon DEF Shift
  <2>2. h(k) \in 1 .. la /\ h(k + 1) \in 1 .. la
    BY <1>5, <2>0, Zenon
  <2>3. CASE t[k].name # <<">">>
    <3>1. k + 1 = x => x = y
      <4>1. k + 1 = x => x - 1 = k
        <5> HIDE DEF x
        <5> QED
          BY <2>0
      <4> QED
        BY <1>2, <2>3, <4>1, Zenon
    <3>2. h(k + 1) = h(k) + 1 /\ h(k) < la /\ (k + 1 = x <=> h(k + 1) = y)
      <4> HIDE DEF x, y, z, la, h
      <4> QED
        BY <1>1, <1>2, <1>3, <2>0, <2>1, <2>2, <3>1
    <3>3. ASSUME t[k].name # <<"*">>
          PROVE  t[k + 1].sep = a[h(k) + 1].sep
      <4>1. q[k + 1].sep = t[k + 1].sep
        BY <1>4, <3>3, Zenon
      <4>2. q[k + 1].sep \in Separators /\ a[h(k + 1)].sep \in Separators
        BY <1>4, <2>0, <2>2, Zenon
      <4>3. q[k + 1].sep = ":" <=> a[h(k + 1)].sep = ":"
        BY <1>1, <2>0, <2>2, <3>2, Zenon
      <4>4. \A c, d \in Separators : (c = ":" <=> d = ":") => c = d
        BY DEF Separators
      <4> QED
        BY <3>2, <4>1, <4>2, <4>3, <4>4, Zenon
    <3>4. SameName(t[k], a[h(k)])
      BY <1>2, <2>0, <2>3, Zenon
    <3>5. Meets(t, a, k + 1, h(k) + 1)
      BY <2>0, <3>2, Zenon
    <3>6. Meets(t, a, k, h(k))
      <4> HIDE DEF h
      <4> QED
        BY <2>0, <2>2, <2>3, <3>2, <3>3, <3>4, <3>5, MeetsName, Zenon
    <3> QED
      BY <2>0, <3>6, Zenon
  <2>4. CASE t[k].name = <<">">>
    <3>1. k + 1 = x
      BY <1>1, <2>4, Zenon
    <3>2. h(k + 1) = y /\ y \in h(k) + 1 .. la /\ y \in 1 .. la
      <4> HIDE DEF x, y, z, la, h
      <4> QED
        BY <1>1, <1>2, <1>3, <2>0, <2>1, <2>2, <3>1
    <3>3. a[y].sep = ":"
      BY <1>1, <3>2, Zenon
    <3>4. Meets(t, a, k + 1, y)
      BY <2>0, <3>2, Zenon
    <3>5. Meets(t, a, k, h(k))
      <4> HIDE DEF h
      <4> QED
        BY <2>0, <2>2, <2>4, <3>2, <3>3, <3>4, MeetsRestSub, Zenon
    <3> QED
      BY <2>0, <3>5, Zenon
  <2> QED
    BY <2>3, <2>4
<1>8. 1 \in Int /\ z \in Int /\ 1 \in 1 .. z
  BY <1>3
<1> HIDE DEF B, z
<1>9. 1 \in B
  BY <1>6, <1>7, <1>8, Downwards
<1>10. h(1) = 1
  <2>1. h(1) = IF 1 < x THEN 1 ELSE 1 + (y - x)
    BY Zenon DEF Shift
  <2> HIDE DEF x, y, h
  <2> QED
    BY <1>1, <1>3, <2>1
<1>11. Meets(t, a, 1, h(1))
  BY <1>9, Zenon DEF B
<1> HIDE DEF h
<1> QED
  BY <1>10, <1>11, Zenon

(* Along names the fields are taken one by one.                             *)
LEMMA MeetsAlong ==
    ASSUME NEW t \in Patterns, NEW a \in Addresses, NEW u \in 1 .. Len(t), NEW v \in 1 .. Len(a),
           NEW d \in Nat, u + d <= Len(t), \A e \in 0 .. d - 1 : t[u + e].name # <<">">>,
           Meets(t, a, u, v)
    PROVE  /\ v + d <= Len(a) /\ Meets(t, a, u + d, v + d)
           /\ \A e \in 0 .. d - 1 :
                 /\ SameName(t[u + e], a[v + e])
                 /\ t[u + e].name # <<"*">> => t[(u + e) + 1].sep = a[(v + e) + 1].sep
<1> DEFINE z == Len(t)
           la == Len(a)
           Same(e) == /\ SameName(t[u + e], a[v + e])
                      /\ t[u + e].name # <<"*">> => t[(u + e) + 1].sep = a[(v + e) + 1].sep
           B == {c \in 0 .. d : v + c <= la /\ Meets(t, a, u + c, v + c) /\ \A e \in 0 .. c - 1 : Same(e)}
<1>1. z \in Nat /\ la \in Nat
  BY AddressIsPattern, PatternFacts
<1>2. 0 \in B
  <2>1. 0 \in 0 .. d /\ u + 0 = u /\ v + 0 = v /\ v <= la /\ \A e \in 0 .. 0 - 1 : FALSE
    BY <1>1
  <2> HIDE DEF Same, la
  <2> QED
    BY <2>1, Zenon
<1>3. ASSUME NEW c \in 0 .. d - 1, c \in B
      PROVE  c + 1 \in B
  <2>1. v + c <= la /\ Meets(t, a, u + c, v + c) /\ \A e \in 0 .. c - 1 : Same(e)
    <3> HIDE DEF Same
    <3> QED
      BY <1>3, Zenon
  <2>2. /\ u + c \in 1 .. z /\ v + c \in 1 .. la /\ ~(u + c = z) /\ c + 1 \in 0 .. d
        /\ (u + c) + 1 = u + (c + 1) /\ (v + c) + 1 = v + (c + 1)
    <3>1. v + c <= la
      BY <2>1
    <3>2. u \in 1 .. z /\ v \in 1 .. la /\ u + d <= z
      OBVIOUS
    <3> HIDE DEF z, la
    <3> QED
      BY <1>1, <3>1, <3>2
  <2>3. t[u + c].name # <<">">>
    OBVIOUS
  <2>4. Same(c) /\ v + c < la /\ Meets(t, a, (u + c) + 1, (v + c) + 1)
    BY <2>1, <2>2, <2>3, MeetsName, ZenonT(60)
  <2>5. v + (c + 1) <= la
    <3> HIDE DEF la
    <3> QED
      BY <1>1, <2>4
  <2>6. \A e \in 0 .. (c + 1) - 1 : e \in 0 .. c - 1 \/ e = c
    OBVIOUS
  <2> HIDE DEF Same, la
  <2>7. \A e \in 0 .. (c + 1) - 1 : Same(e)
    BY <2>1, <2>4, <2>6, Zenon
  <2>8. Meets(t, a, u + (c + 1), v + (c + 1))
    BY <2>2, <2>4, Zenon
  <2> QED
    BY <2>2, <2>5, <2>7, <2>8, Zenon
<1>4. 0 \in Int /\ d \in Int /\ d \in 0 .. d
  OBVIOUS
<1> HIDE DEF B
<1>5. d \in B
  BY <1>2, <1>3, <1>4, Upwards
<1> QED
  BY <1>5, Zenon DEF B

(* A '>' with a sub-address behind it meets the one of the address.         *)
LEMMA MetRest ==
    ASSUME NEW t \in Patterns, NEW a \in Addresses, NEW q \in Separated(t),
           NEW u \in 1 .. Len(t) - 1, t[u].name = <<">">>, NEW v \in 1 .. Len(a), Meets(t, a, u, v)
    PROVE  SubAt(a) \in v + 1 .. Len(a) /\ Meets(t, a, u + 1, SubAt(a))
<1>1. Len(t) \in Nat /\ Len(a) \in Nat
  BY AddressIsPattern, PatternFacts
<1>2. u \in 1 .. Len(t) /\ ~(u = Len(t))
  BY <1>1
<1>3. \E w \in v + 1 .. Len(a) : a[w].sep = ":"
  BY <1>2, MeetsRestEnd, Zenon
<1>4. PICK w \in v + 1 .. Len(a) : a[w].sep = ":"
  BY <1>3
<1>5. w \in 1 .. Len(a)
  BY <1>1
<1>6. w = SubAt(a)
  BY <1>4, <1>5, CoversFacts, Zenon
<1>7. Meets(t, a, u + 1, w)
  BY <1>2, <1>4, MeetsRestSub, Zenon
<1> QED
  BY <1>4, <1>6, <1>7, Zenon

(* The last field of a pattern.                                             *)
LEMMA MeetsLast ==
    ASSUME NEW t \in Patterns, NEW a \in Addresses, NEW v \in 1 .. Len(a), Meets(t, a, Len(t), v)
    PROVE  /\ t[Len(t)].name # <<">">> => v = Len(a) /\ SameName(t[Len(t)], a[v])
           /\ t[Len(t)].name = <<">">> => \A w \in v + 1 .. Len(a) : a[w].sep # ":"
<1>1. Len(t) \in 1 .. Len(t) /\ ~(Len(t) < Len(t))
  BY PatternFacts
<1>2. t[Len(t)].name # <<">">> => v = Len(a) /\ SameName(t[Len(t)], a[v])
  BY <1>1, MeetsName, Zenon
<1>3. ASSUME t[Len(t)].name = <<">">>, NEW w \in v + 1 .. Len(a), a[w].sep = ":"
      PROVE  FALSE
  BY <1>1, <1>3, MeetsRestSub, Zenon
<1> QED
  BY <1>2, <1>3, Zenon

(* A pattern is one of its own readings.                                    *)
LEMMA SeparatedSelf ==
    ASSUME NEW t \in Patterns
    PROVE  t \in Separated(t)
<1> DEFINE Recs == [sep : {".", ":"}, name : {t[k].name : k \in DOMAIN t}]
           names == Words \cup {<<"*">>, <<">">>}
<1>1. t \in FieldsOf(names)
  BY DEF Patterns
<1>2. PICK z \in 1 .. FIELDS : t \in [1 .. z -> [sep : {".", ":"}, name : names]]
  BY <1>1 DEF FieldsOf
<1>3. t \in [DOMAIN t -> Recs]
  <2>1. DOMAIN t = 1 .. z /\ t = [k \in 1 .. z |-> t[k]]
    BY <1>2
  <2>2. ASSUME NEW k \in 1 .. z
        PROVE  t[k] \in Recs
    <3>1. t[k] \in [sep : {".", ":"}, name : names]
      BY <1>2
    <3>2. t[k] = [sep |-> t[k].sep, name |-> t[k].name] /\ t[k].sep \in {".", ":"}
      BY <3>1
    <3>3. t[k].name \in {t[i].name : i \in DOMAIN t}
      BY <2>1
    <3> QED
      BY <3>2, <3>3
  <2> HIDE DEF Recs
  <2> QED
    BY <2>1, <2>2
<1>4. OneSub(t)
  BY PatternFacts
<1> QED
  BY <1>3, <1>4, Zenon DEF Separated

(* What the loop says yes to the pattern stands for: one with a '>' in      *)
(* front of its sub-address,                                                *)
LEMMA MetIsCoveredRest ==
    ASSUME NEW t \in Patterns, NEW a \in Addresses, Meets(t, a, 1, 1),
           NEW g \in 1 .. Len(t) - 1, t[g].name = <<">">>
    PROVE  Covers(t, a)
<1> DEFINE x == SubAt(t)
           y == SubAt(a)
           z == Len(t)
           la == Len(a)
<1>0. t \in Separated(t)
  BY SeparatedSelf
<1>1. /\ x \in 2 .. z + 1 /\ y \in 2 .. la + 1
      /\ \A k \in 1 .. z - 1 : t[k].name = <<">">> => k + 1 = x
  BY <1>0, CoversFacts, Zenon
<1>2. z \in Nat /\ z >= 1 /\ la \in Nat /\ la >= 1
  BY AddressIsPattern, PatternFacts
<1>3. g + 1 = x
  BY <1>1, Zenon
<1>4. \A k \in 1 .. z : k # g /\ k # z => t[k].name # <<">">>
  <2>1. ASSUME NEW k \in 1 .. z, k # g, k # z, t[k].name = <<">">>
        PROVE  FALSE
    <3>1. k \in 1 .. z - 1
      <4> HIDE DEF z
      <4> QED
        BY <1>2, <2>1
    <3>2. k + 1 = x
      BY <1>1, <2>1, <3>1, Zenon
    <3> HIDE DEF x, z
    <3> QED
      BY <1>2, <1>3, <2>1, <3>2
  <2> QED
    BY <2>1, Zenon
<1>5. /\ g <= la /\ Meets(t, a, g, g)
      /\ \A k \in 1 .. g - 1 : SameName(t[k], a[k])
  <2> DEFINE d == g - 1
  <2>1. /\ 1 \in 1 .. z /\ 1 \in 1 .. la /\ d \in Nat /\ 1 + d <= z /\ 1 + d = g
        /\ \A e \in 0 .. d - 1 : 1 + e \in 1 .. z /\ 1 + e # g /\ 1 + e # z
        /\ \A k \in 1 .. g - 1 : k - 1 \in 0 .. d - 1 /\ 1 + (k - 1) = k
    <3>1. g \in 1 .. z - 1
      OBVIOUS
    <3> HIDE DEF z, la
    <3> QED
      BY <1>2, <3>1
  <2>2. \A e \in 0 .. d - 1 : t[1 + e].name # <<">">>
    BY <1>4, <2>1, Zenon
  <2> HIDE DEF d
  <2>3. /\ 1 + d <= la /\ Meets(t, a, 1 + d, 1 + d)
        /\ \A e \in 0 .. d - 1 : SameName(t[1 + e], a[1 + e])
    BY <2>1, <2>2, MeetsAlong, Zenon
  <2>4. ASSUME NEW k \in 1 .. g - 1
        PROVE  SameName(t[k], a[k])
    <3>1. SameName(t[1 + (k - 1)], a[1 + (k - 1)])
      BY <2>1, <2>3, Zenon
    <3> QED
      BY <2>1, <3>1, Zenon
  <2> QED
    BY <2>1, <2>3, <2>4, Zenon
<1>6. y \in g + 1 .. la /\ Meets(t, a, g + 1, y)
  <2>1. g \in 1 .. la
    <3> HIDE DEF la
    <3> QED
      BY <1>2, <1>5
  <2> QED
    BY <1>0, <1>5, <2>1, MetRest, Zenon
<1>7. /\ z + (y - x) <= la /\ Meets(t, a, z, z + (y - x))
      /\ \A k \in x .. z - 1 : SameName(t[k], a[k + (y - x)])
  <2> DEFINE d == z - x
  <2>1. /\ x \in 1 .. z /\ y \in 1 .. la /\ d \in Nat /\ x + d <= z /\ x + d = z /\ y + d = z + (y - x)
        /\ \A e \in 0 .. d - 1 : x + e \in 1 .. z /\ x + e # g /\ x + e # z
        /\ \A k \in x .. z - 1 : k - x \in 0 .. d - 1 /\ x + (k - x) = k /\ y + (k - x) = k + (y - x)
    <3>1. g \in 1 .. z - 1
      OBVIOUS
    <3> HIDE DEF z, la, x, y
    <3> QED
      BY <1>1, <1>2, <1>3, <1>6, <3>1
  <2>2. \A e \in 0 .. d - 1 : t[x + e].name # <<">">>
    BY <1>4, <2>1, Zenon
  <2> HIDE DEF d
  <2>3. /\ y + d <= la /\ Meets(t, a, x + d, y + d)
        /\ \A e \in 0 .. d - 1 : SameName(t[x + e], a[y + e])
    <3>1. Meets(t, a, x, y)
      BY <1>3, <1>6, Zenon
    <3> HIDE DEF x, y
    <3> QED
      BY <2>1, <2>2, <3>1, MeetsAlong, Zenon
  <2> HIDE DEF x, y
  <2>4. ASSUME NEW k \in x .. z - 1
        PROVE  SameName(t[k], a[k + (y - x)])
    <3>1. SameName(t[x + (k - x)], a[y + (k - x)])
      BY <2>1, <2>3, Zenon
    <3> QED
      BY <2>1, <3>1, Zenon
  <2> QED
    BY <2>1, <2>3, <2>4, Zenon
<1>8. t[z].name # <<">">> => z + (y - x) = la /\ SameName(t[z], a[z + (y - x)])
  <2>1. z + (y - x) \in 1 .. la
    <3>1. g \in 1 .. z - 1 /\ z + (y - x) <= la /\ x \in Nat /\ y \in Nat /\ y >= 2 /\ z >= x
      <4>1. g \in 1 .. z - 1
        OBVIOUS
      <4>2. z + (y - x) <= la
        BY <1>7
      <4>3. x \in 2 .. z + 1 /\ y \in 2 .. la + 1
        BY <1>1
      <4> HIDE DEF z, la, x, y
      <4> QED
        BY <1>2, <1>3, <4>1, <4>2, <4>3
    <3> HIDE DEF z, la, x, y
    <3> QED
      BY <1>2, <3>1
  <2> HIDE DEF x, y
  <2> QED
    BY <1>7, <2>1, MeetsLast, Zenon
<1>9. ASSUME NEW k \in 1 .. z, t[k].name # <<">">>
      PROVE  SameName(t[k], a[Shift(k, x, y)])
  <2>1. k # g
    BY <1>9, Zenon
  <2>2. CASE k < x
    <3>1. Shift(k, x, y) = k
      BY <2>2, Zenon DEF Shift
    <3>2. k \in 1 .. g - 1
      <4> HIDE DEF z, x
      <4> QED
        BY <1>2, <1>3, <2>1, <2>2
    <3> QED
      BY <1>5, <3>1, <3>2, Zenon
  <2>3. CASE ~(k < x)
    <3>1. Shift(k, x, y) = k + (y - x)
      BY <2>3, Zenon DEF Shift
    <3>2. k = z \/ k \in x .. z - 1
      <4> HIDE DEF z, x
      <4> QED
        BY <1>1, <1>2, <2>3
    <3> HIDE DEF x, y
    <3> QED
      BY <1>7, <1>8, <1>9, <3>1, <3>2, Zenon
  <2> QED
    BY <2>2, <2>3
<1>10. x - 1 = g /\ x <= y /\ ~(x = z + 1)
  <2>1. g \in 1 .. z - 1
    OBVIOUS
  <2> HIDE DEF z, x, y, la
  <2> QED
    BY <1>1, <1>2, <1>3, <1>6, <2>1
<1>11. t[x - 1].name = <<">">>
  BY <1>10, Zenon
<1> QED
  BY <1>0, <1>7, <1>8, <1>9, <1>10, <1>11, CoversFacts, Zenon

(* and one without.                                                         *)
LEMMA MetIsCoveredPlain ==
    ASSUME NEW t \in Patterns, NEW a \in Addresses, Meets(t, a, 1, 1),
           \A k \in 1 .. Len(t) - 1 : t[k].name # <<">">>
    PROVE  \E q \in Separated(t) : Covers(q, a)
<1> DEFINE z == Len(t)
           la == Len(a)
           q == [k \in 1 .. z |-> [sep |-> a[k].sep, name |-> t[k].name]]
           x == SubAt(q)
           y == SubAt(a)
<1>1. z \in Nat /\ z >= 1 /\ DOMAIN t = 1 .. z /\ t[1].sep = "."
  BY PatternFacts, Zenon
<1>2. /\ la \in Nat /\ la >= 1 /\ DOMAIN a = 1 .. la /\ a[1].sep = "." /\ OneSub(a)
      /\ \A k \in 1 .. la : a[k].sep \in Separators
  BY AddressIsPattern, PatternFacts, Zenon
<1>3. /\ z <= la /\ Meets(t, a, z, z)
      /\ \A k \in 1 .. z - 1 : /\ SameName(t[k], a[k])
                               /\ t[k].name # <<"*">> => t[k + 1].sep = a[k + 1].sep
  <2> DEFINE d == z - 1
  <2>1. /\ 1 \in 1 .. z /\ 1 \in 1 .. la /\ d \in Nat /\ 1 + d <= z /\ 1 + d = z
        /\ \A e \in 0 .. d - 1 : 1 + e \in 1 .. z - 1
        /\ \A k \in 1 .. z - 1 : k - 1 \in 0 .. d - 1 /\ 1 + (k - 1) = k
    <3> HIDE DEF z, la
    <3> QED
      BY <1>1, <1>2
  <2>2. \A e \in 0 .. d - 1 : t[1 + e].name # <<">">>
    BY <2>1, Zenon
  <2> HIDE DEF d
  <2>3. /\ 1 + d <= la /\ Meets(t, a, 1 + d, 1 + d)
        /\ \A e \in 0 .. d - 1 :
              /\ SameName(t[1 + e], a[1 + e])
              /\ t[1 + e].name # <<"*">> => t[(1 + e) + 1].sep = a[(1 + e) + 1].sep
    BY <2>1, <2>2, MeetsAlong, Zenon
  <2>4. ASSUME NEW k \in 1 .. z - 1
        PROVE  SameName(t[k], a[k]) /\ (t[k].name # <<"*">> => t[k + 1].sep = a[k + 1].sep)
    <3>1. /\ SameName(t[1 + (k - 1)], a[1 + (k - 1)])
          /\ t[1 + (k - 1)].name # <<"*">> => t[(1 + (k - 1)) + 1].sep = a[(1 + (k - 1)) + 1].sep
      BY <2>1, <2>3, Zenon
    <3> QED
      BY <2>1, <3>1, Zenon
  <2> QED
    BY <2>1, <2>3, <2>4, Zenon
<1>4. /\ \A k \in 1 .. z : q[k].sep = a[k].sep /\ q[k].name = t[k].name
      /\ \A k \in 1 .. z : k \in 1 .. la
  <2>1. \A k \in 1 .. z : k \in 1 .. la
    <3> HIDE DEF z, la
    <3> QED
      BY <1>1, <1>2, <1>3
  <2> QED
    BY <2>1
<1>5. q \in Separated(t)
  <2> DEFINE Recs == [sep : {".", ":"}, name : {t[k].name : k \in DOMAIN t}]
  <2>1. q \in [DOMAIN t -> Recs]
    <3>1. ASSUME NEW k \in 1 .. z
          PROVE  [sep |-> a[k].sep, name |-> t[k].name] \in Recs
      <4>1. a[k].sep \in {".", ":"}
        BY <1>2, <1>4 DEF Separators
      <4>2. t[k].name \in {t[i].name : i \in DOMAIN t}
        BY <1>1
      <4> QED
        BY <4>1, <4>2
    <3> HIDE DEF Recs
    <3> QED
      BY <1>1, <3>1
  <2>2. OneSub(q)
    <3>1. DOMAIN q = 1 .. z
      OBVIOUS
    <3> HIDE DEF q
    <3> QED
      BY <1>2, <1>4, <3>1, Zenon DEF OneSub
  <2>3. ASSUME NEW k \in 1 .. z, k = 1 \/ t[k - 1].name # <<"*">>
        PROVE  q[k].sep = t[k].sep
    <3>1. q[k].sep = a[k].sep
      BY <1>4, Zenon
    <3>2. CASE k = 1
      BY <1>1, <1>2, <3>1, <3>2, Zenon
    <3>3. CASE k # 1
      <4>1. k - 1 \in 1 .. z - 1 /\ (k - 1) + 1 = k
        <5> HIDE DEF z
        <5> QED
          BY <1>1, <3>3
      <4>2. t[(k - 1) + 1].sep = a[(k - 1) + 1].sep
        BY <1>3, <2>3, <3>3, <4>1, Zenon
      <4> QED
        BY <3>1, <4>1, <4>2, Zenon
    <3> QED
      BY <3>2, <3>3
  <2> HIDE DEF q
  <2>4. \A k \in DOMAIN t : q[k].name = t[k].name /\ (k = 1 \/ t[k - 1].name # <<"*">> => q[k].sep = t[k].sep)
    BY <1>1, <1>4, <2>3, Zenon
  <2> QED
    BY <2>1, <2>2, <2>4, Zenon DEF Separated
<1> HIDE DEF q
<1>6. /\ x \in 2 .. z + 1 /\ y \in 2 .. la + 1
      /\ \A k \in 1 .. z : q[k].sep = ":" <=> k = x
      /\ \A k \in 1 .. la : a[k].sep = ":" <=> k = y
  BY <1>5, CoversFacts, Zenon
<1>7. \A k \in 1 .. z : k = x <=> k = y
  BY <1>4, <1>6, Zenon
<1>8. z \in 1 .. la /\ z \in 1 .. z
  <2> HIDE DEF z, la
  <2> QED
    BY <1>1, <1>2, <1>3
<1>9. /\ t[z].name # <<">">> => z = la /\ SameName(t[z], a[z])
      /\ t[z].name = <<">">> => \A w \in z + 1 .. la : a[w].sep # ":"
  BY <1>3, <1>8, MeetsLast, Zenon
<1>10. t[z].name = <<">">> => y <= z \/ y = la + 1
  <2> SUFFICES ASSUME t[z].name = <<">">>, ~(y <= z), y # la + 1
               PROVE  FALSE
    OBVIOUS
  <2>1. y \in z + 1 .. la /\ y \in 1 .. la
    <3> HIDE DEF y, z, la
    <3> QED
      BY <1>1, <1>2, <1>6
  <2> QED
    BY <1>6, <1>9, <2>1, Zenon
<1> DEFINE Gt == t[z].name = <<">">>
<1>11. /\ x <= y /\ (x = z + 1 /\ ~Gt => x = y) /\ (x <= z => x = y)
       /\ x = z + 1 => y = la + 1
       /\ x <= z => z + (y - x) <= la /\ (~Gt => z + (y - x) = la)
  <2>1. (~Gt => z = la) /\ (Gt => y <= z \/ y = la + 1)
    BY <1>9, <1>10, Zenon
  <2> HIDE DEF x, y, z, la, Gt
  <2>2. (x <= z => x = y) /\ (y <= z => x = y)
    BY <1>1, <1>6, <1>7
  <2>3. CASE x <= z
    BY <1>1, <1>2, <1>3, <1>6, <2>1, <2>2, <2>3
  <2>4. CASE x = z + 1
    BY <1>1, <1>2, <1>3, <1>6, <2>1, <2>2, <2>4
  <2>5. x <= z \/ x = z + 1
    BY <1>1, <1>6
  <2> QED
    BY <2>3, <2>4, <2>5
<1>12. t[x - 1].name # <<">">> => x = y
  <2>1. CASE x = z + 1
    <3>1. x - 1 = z
      <4> HIDE DEF x, z
      <4> QED
        BY <1>1, <2>1
    <3> QED
      BY <1>11, <2>1, <3>1, Zenon
  <2>2. CASE x # z + 1
    <3>1. x <= z
      <4> HIDE DEF x, z
      <4> QED
        BY <1>1, <1>6, <2>2
    <3> QED
      BY <1>11, <3>1, Zenon
  <2> QED
    BY <2>1, <2>2
<1>13. ASSUME NEW k \in 1 .. z, t[k].name # <<">">>
       PROVE  SameName(t[k], a[Shift(k, x, y)])
  <2>1. Shift(k, x, y) = k
    <3>1. Shift(k, x, y) = IF k < x THEN k ELSE k + (y - x)
      BY Zenon DEF Shift
    <3>2. k < x \/ x <= z
      <4> HIDE DEF x, z
      <4> QED
        BY <1>1, <1>6
    <3>3. k < x \/ x = y
      BY <1>11, <3>2, Zenon
    <3> HIDE DEF x, y, z
    <3> QED
      BY <1>1, <1>6, <3>1, <3>3
  <2>2. k = z \/ k \in 1 .. z - 1
    <3> HIDE DEF z
    <3> QED
      BY <1>1
  <2>3. SameName(t[k], a[k])
    BY <1>3, <1>9, <1>13, <2>2, Zenon
  <2> QED
    BY <2>1, <2>3, Zenon
<1>14. Covers(q, a)
  BY <1>5, <1>11, <1>12, <1>13, CoversFacts, Zenon
<1> QED
  BY <1>5, <1>14, Zenon

(* xapFilterAddrSubaddress() says yes to the addresses that the pattern     *)
(* stands for, but for the separators behind its '*', and to no others.     *)
LEMMA FilterIsCovers ==
    ASSUME NEW t \in Patterns, NEW a \in Addresses
    PROVE  xapFilterAddrSubaddress(Text(t), Text(a)) <=> \E q \in Separated(t) : Covers(q, a)
<1>1. (\E q \in Separated(t) : Covers(q, a)) => Meets(t, a, 1, 1)
  BY CoveredIsMet, Zenon
<1>2. ASSUME Meets(t, a, 1, 1)
      PROVE  \E q \in Separated(t) : Covers(q, a)
  <2>1. CASE \E g \in 1 .. Len(t) - 1 : t[g].name = <<">">>
    <3>1. Covers(t, a)
      BY <1>2, <2>1, MetIsCoveredRest, Zenon
    <3> QED
      BY <3>1, SeparatedSelf, Zenon
  <2>2. CASE ~\E g \in 1 .. Len(t) - 1 : t[g].name = <<">">>
    <3>1. \A k \in 1 .. Len(t) - 1 : t[k].name # <<">">>
      BY <2>2, Zenon
    <3> QED
      BY <1>2, <3>1, MetIsCoveredPlain, Zenon
  <2> QED
    BY <2>1, <2>2
<1> QED
  BY <1>1, <1>2, FilterIsLoop, Zenon

-----------------------------------------------------------------------------
(***************************************************************************)
(* Who is called.                                                          *)
(***************************************************************************)

(* xapGetValueF() finds the first entry with the key, and nothing where     *)
(* there is none.                                                           *)
LEMMA LookupFirst ==
    ASSUME NEW m, NEW f \in Nat, DOMAIN m = 1 .. f, NEW section, NEW key, key # NULL, NEW k \in 1 .. f,
           strcasecmp(section, m[k].section), strcasecmp(key, m[k].key),
           \A j \in 1 .. k - 1 : ~strcasecmp(key, m[j].key)
    PROVE  xapGetValue(m, section, key) = m[k].value
<1> DEFINE found == {i \in DOMAIN m : strcasecmp(section, m[i].section) /\ strcasecmp(key, m[i].key)}
           first == CHOOSE i \in found : \A j \in found : i <= j
<1>1. k \in found
  BY Zenon
<1>2. \A j \in found : k <= j
  <2>1. ASSUME NEW j \in found, ~(k <= j)
        PROVE  FALSE
    <3>1. j \in 1 .. f /\ strcasecmp(key, m[j].key)
      BY Zenon
    <3>2. j \in 1 .. k - 1
      BY <2>1, <3>1
    <3> QED
      BY <3>1, <3>2, Zenon
  <2> QED
    BY <2>1, Zenon
<1>3. found \subseteq Int
  <2>1. 1 .. f \subseteq Int /\ found \subseteq 1 .. f
    <3>1. found \subseteq 1 .. f
      BY Zenon
    <3> QED
      BY <3>1
  <2> QED
    BY <2>1, Zenon
<1>4. xapGetValue(m, section, key) = m[first].value
  <2>1. found # {}
    BY <1>1, Zenon
  <2> QED
    BY <2>1, Zenon DEF xapGetValue
<1> HIDE DEF found
<1>5. first \in found /\ \A j \in found : first <= j
  BY <1>1, <1>2, Zenon
<1> HIDE DEF first
<1>6. first = k
  <2>1. first <= k /\ k <= first
    BY <1>1, <1>2, <1>5, Zenon
  <2>2. first \in Int /\ k \in Int
    BY <1>1, <1>3, <1>5, Zenon
  <2> QED
    BY <2>1, <2>2
<1> QED
  BY <1>4, <1>6, Zenon

LEMMA LookupNone ==
    ASSUME NEW m, NEW f \in Nat, DOMAIN m = 1 .. f, NEW section, NEW key,
           \A j \in 1 .. f : ~strcasecmp(key, m[j].key)
    PROVE  xapGetValue(m, section, key) = NULL
<1>1. {i \in DOMAIN m : strcasecmp(section, m[i].section) /\ strcasecmp(key, m[i].key)} = {}
  BY Zenon
<1> QED
  BY <1>1, Zenon DEF xapGetValue

(* The keys and classes are told apart, and from what is no value.          *)
LEMMA KeyFacts ==
    /\ strcasecmp(HEADER, HEADER) /\ strcasecmp(TARGET, TARGET) /\ strcasecmp(CLASS, CLASS)
    /\ ~strcasecmp(TARGET, CLASS) /\ ~strcasecmp(CLASS, TARGET)
    /\ TARGET # NULL /\ CLASS # NULL /\ TARGET # CLASS
    /\ CMD # NULL /\ <<"B">> # NULL /\ CMD # <<"B">>
    /\ CMD # XAP_FILTER_ANY /\ CMD # XAP_FILTER_ABSENT /\ CMD # <<>>
    /\ strcasecmp(CMD, CMD) /\ ~strcasecmp(CMD, <<"B">>)
    /\ \A i \in DOMAIN CMD : CMD[i] \notin Wildcards
<1>1. /\ strcasecmp(HEADER, HEADER) /\ strcasecmp(TARGET, TARGET) /\ strcasecmp(CLASS, CLASS)
      /\ strcasecmp(CMD, CMD)
  BY DEF strcasecmp
<1>2. ~strcasecmp(TARGET, CLASS) /\ ~strcasecmp(CLASS, TARGET)
  BY DEF strcasecmp, TARGET, CLASS, tolower
<1>3. TARGET # NULL /\ CLASS # NULL /\ TARGET # CLASS
  BY DEF TARGET, CLASS, NULL
<1>4. CMD # NULL /\ <<"B">> # NULL /\ CMD # <<"B">> /\ CMD # XAP_FILTER_ANY /\ CMD # XAP_FILTER_ABSENT /\ CMD # <<>>
  BY DEF CMD, NULL, XAP_FILTER_ANY, XAP_FILTER_ABSENT
<1>5. ~strcasecmp(CMD, <<"B">>)
  BY DEF strcasecmp, CMD
<1>6. \A i \in DOMAIN CMD : CMD[i] \notin Wildcards
  BY DEF CMD, Wildcards
<1> QED
  BY <1>1, <1>2, <1>3, <1>4, <1>5, <1>6, Zenon

(* The text of an address is none of the marks.                             *)
LEMMA PlainIsValue ==
    ASSUME NEW s \in Seq(Plain)
    PROVE  s # NULL /\ s # XAP_FILTER_ANY /\ s # XAP_FILTER_ABSENT
<1>1. ASSUME NEW c, c \notin Plain
      PROVE  s # <<c>>
  <2> SUFFICES ASSUME s = <<c>>
               PROVE  FALSE
    OBVIOUS
  <2>1. Len(s) = 1 /\ s[1] = c
    OBVIOUS
  <2>2. s[1] \in Plain
    BY <2>1
  <2> QED
    BY <1>1, <2>1, <2>2, Zenon
<1>2. "NULL" \notin Plain /\ "XAP_FILTER_ANY" \notin Plain /\ "XAP_FILTER_ABSENT" \notin Plain
  BY DEF Plain
<1> QED
  BY <1>1, <1>2, Zenon DEF NULL, XAP_FILTER_ANY, XAP_FILTER_ABSENT

(* What the two filters of an endpoint say.                                 *)
LEMMA ChainAccepts ==
    ASSUME NEW a \in Addresses, NEW m
    PROVE  xapCompareFilters(Chain(a), m) <=>
              /\ Accepts([section |-> HEADER, key |-> TARGET, value |-> Text(a)], xapGetValue(m, HEADER, TARGET))
              /\ Accepts([section |-> HEADER, key |-> CLASS, value |-> CMD], xapGetValue(m, HEADER, CLASS))
<1> DEFINE d == [section |-> HEADER, key |-> TARGET, value |-> Text(a)]
           e == [section |-> HEADER, key |-> CLASS, value |-> CMD]
           w == Chain(a)
<1>1. d.section = HEADER /\ d.key = TARGET /\ e.section = HEADER /\ e.key = CLASS
  OBVIOUS
<1>2. w = <<d, e>>
  BY Zenon DEF Chain
<1> HIDE DEF d, e, w
<1>3. DOMAIN w = {1, 2} /\ w[1] = d /\ w[2] = e
  BY <1>2
<1>4. xapCompareFilters(w, m) <=> \A k \in DOMAIN w : Accepts(w[k], xapGetValue(m, w[k].section, w[k].key))
  BY Zenon DEF xapCompareFilters
<1>5. xapCompareFilters(w, m) <=>
        /\ Accepts(w[1], xapGetValue(m, w[1].section, w[1].key))
        /\ Accepts(w[2], xapGetValue(m, w[2].section, w[2].key))
  BY <1>3, <1>4, Zenon
<1>6. xapCompareFilters(w, m) <=>
        Accepts(d, xapGetValue(m, HEADER, TARGET)) /\ Accepts(e, xapGetValue(m, HEADER, CLASS))
  BY <1>1, <1>3, <1>5, Zenon
<1> QED
  BY <1>6, Zenon DEF d, e, w

LEMMA TargetAccepts ==
    ASSUME NEW a \in Addresses, NEW v
    PROVE  Accepts([section |-> HEADER, key |-> TARGET, value |-> Text(a)], v) <=>
              v # NULL /\ xapFilterAddrSubaddress(v, Text(a))
<1> DEFINE d == [section |-> HEADER, key |-> TARGET, value |-> Text(a)]
<1>1. d.section = HEADER /\ d.key = TARGET /\ d.value = Text(a)
  OBVIOUS
<1>2. Text(a) # XAP_FILTER_ANY /\ Text(a) # XAP_FILTER_ABSENT
  BY AddressIsPattern, TextType, PlainIsValue, Zenon
<1> HIDE DEF d
<1>3. Accepts(d, v) <=> v # NULL /\ xapFilterAddrSubaddress(v, Text(a))
  BY <1>1, <1>2, Zenon DEF Accepts
<1> QED
  BY <1>3, Zenon DEF d

LEMMA ClassAccepts ==
    ASSUME NEW v
    PROVE  Accepts([section |-> HEADER, key |-> CLASS, value |-> CMD], v) <=> v # NULL /\ strcasecmp(CMD, v)
<1> DEFINE d == [section |-> HEADER, key |-> CLASS, value |-> CMD]
<1>1. d.section = HEADER /\ d.key = CLASS /\ d.value = CMD
  OBVIOUS
<1> HIDE DEF d
<1>2. CMD # XAP_FILTER_ANY /\ CMD # XAP_FILTER_ABSENT /\ CLASS # TARGET
  BY KeyFacts, Zenon
<1>3. Accepts(d, v) <=> v # NULL /\ xapFilterAddrSubaddress(CMD, v)
  BY <1>1, <1>2, Zenon DEF Accepts
<1>4. xapFilterAddrSubaddress(CMD, v) <=> strcasecmp(CMD, v)
  BY KeyFacts, Zenon DEF xapFilterAddrSubaddress
<1> QED
  BY <1>3, <1>4, Zenon DEF d

(* Of the keys of a message that have come: the target is the first entry,  *)
(* if there is one, and the class the one behind it.                        *)
LEMMA MessageKeys ==
    ASSUME NEW t \in Patterns \cup {<<>>}, NEW c \in {CMD, <<"B">>}, NEW b \in Bodies
    PROVE  LET m == Message(t, c, b) IN
           /\ t # <<>> => strcasecmp(HEADER, m[1].section) /\ m[1].key = TARGET /\ m[1].value = Text(t)
           /\ /\ strcasecmp(HEADER, m[Before(t) + 1].section)
              /\ m[Before(t) + 1].key = CLASS /\ m[Before(t) + 1].value = c
           /\ \A k \in 1 .. Len(m) : k > Before(t) => ~strcasecmp(TARGET, m[k].key)
           /\ \A k \in 1 .. Before(t) : m[k].key = TARGET /\ ~strcasecmp(CLASS, m[k].key)
<1> DEFINE m == Message(t, c, b)
           h == Before(t)
<1>1. /\ m \in Seq(EntryType) /\ Len(b) \in Nat /\ Len(m) = h + 1 + Len(b)
      /\ t # <<>> => m[1] = Entry(1, HEADER, TARGET, Text(t))
      /\ m[h + 1] = Entry(1, HEADER, CLASS, c)
      /\ \A k \in 1 .. Len(b) : m[h + 1 + k] = b[k]
  BY MessageShape, Zenon
<1>2. h \in Nat /\ (t # <<>> => h = 1) /\ (t = <<>> => h = 0)
  BY DEF Before
<1>3. t # <<>> => m[1].section = HEADER /\ m[1].key = TARGET /\ m[1].value = Text(t)
  BY <1>1 DEF Entry
<1>4. m[h + 1].section = HEADER /\ m[h + 1].key = CLASS /\ m[h + 1].value = c
  BY <1>1 DEF Entry
<1>5. \A k \in 1 .. Len(b) : ~strcasecmp(TARGET, b[k].key)
  <2>1. \A k \in DOMAIN b : ~strcasecmp(TARGET, b[k].key)
    BY BodyAssumption, Zenon
  <2>2. DOMAIN b = 1 .. Len(b)
    <3>1. b \in Seq([sec : Nat, section : Seq(STRING), key : Seq(STRING), value : Seq(STRING)])
      BY BodyAssumption, Zenon
    <3> DEFINE R == [sec : Nat, section : Seq(STRING), key : Seq(STRING), value : Seq(STRING)]
    <3>2. b \in Seq(R)
      BY <3>1
    <3> HIDE DEF R
    <3> QED
      BY <3>2
  <2> QED
    BY <2>1, <2>2, Zenon
<1> DEFINE lm == Len(m)
           lb == Len(b)
<1> HIDE DEF m, h
<1>6. ASSUME NEW k \in 1 .. lm, k > h
      PROVE  ~strcasecmp(TARGET, m[k].key)
  <2>1. k = h + 1 \/ (k - (h + 1) \in 1 .. lb /\ h + 1 + (k - (h + 1)) = k)
    <3>1. lm = h + 1 + lb /\ lb \in Nat
      BY <1>1
    <3> HIDE DEF lm, lb
    <3> QED
      BY <1>2, <1>6, <3>1
  <2>2. CASE k = h + 1
    BY <1>4, <2>2, KeyFacts, Zenon
  <2>3. CASE k - (h + 1) \in 1 .. lb /\ h + 1 + (k - (h + 1)) = k
    <3>1. m[k] = b[k - (h + 1)]
      BY <1>1, <2>3, Zenon
    <3> QED
      BY <1>5, <2>3, <3>1, Zenon
  <2> QED
    BY <2>1, <2>2, <2>3, Zenon
<1>7. ASSUME NEW k \in 1 .. h
      PROVE  m[k].key = TARGET /\ ~strcasecmp(CLASS, m[k].key)
  <2>1. k = 1 /\ t # <<>>
    BY <1>2
  <2> QED
    BY <1>3, <2>1, KeyFacts, Zenon
<1>8. strcasecmp(HEADER, HEADER)
  BY KeyFacts
<1> QED
  BY <1>3, <1>4, <1>6, <1>7, <1>8, Zenon DEF m, h

(* The endpoints that are called.                                           *)
LEMMA InvCalledIfMeant == RxInv => CalledIfMeant
<1> SUFFICES ASSUME RxInv, phase = "done"
             PROVE  called = {a \in Addresses : /\ Came(CLASS, CMD)
                                                /\ to # <<>> /\ Came(TARGET, Text(to))
                                                /\ \E q \in Separated(to) : Covers(q, a)}
  BY Zenon DEF CalledIfMeant
<1> DEFINE pm == frame.parsedMsg
<1>1. called = {a \in Addresses : xapCompareFilters(Chain(a), pm)}
  BY DEF RxInv
<1>2. phase # "select"
  OBVIOUS
<1>3. /\ to \in Patterns \cup {<<>>} /\ Readable(msg) /\ Sendable(msg)
      /\ \E x \in 0 .. Len(msg) :
            FirstAre(msg, n, x) /\ pm = SubSeq(msg, 1, Fewer(x, MSG_ELEMENTS))
  BY <1>2, RxReading, Zenon
<1>4. PICK c \in {CMD, <<"B">>}, b \in Bodies : msg = Message(to, c, b)
  BY <1>3 DEF Sendable
<1> DEFINE h == Before(to)
           lm == Len(msg)
<1>5. /\ to # <<>> => strcasecmp(HEADER, msg[1].section) /\ msg[1].key = TARGET /\ msg[1].value = Text(to)
      /\ strcasecmp(HEADER, msg[h + 1].section) /\ msg[h + 1].key = CLASS /\ msg[h + 1].value = c
      /\ \A k \in 1 .. lm : k > h => ~strcasecmp(TARGET, msg[k].key)
      /\ \A k \in 1 .. h : msg[k].key = TARGET /\ ~strcasecmp(CLASS, msg[k].key)
  BY <1>3, <1>4, MessageKeys, ZenonT(60)
<1>6. msg \in Seq(EntryType) /\ lm \in Nat /\ lm >= h + 1
  <2>1. msg \in Seq(EntryType) /\ Len(b) \in Nat /\ lm = h + 1 + Len(b)
    BY <1>3, <1>4, MessageShape, Zenon
  <2>2. h \in Nat
    BY DEF Before
  <2> HIDE DEF h
  <2> QED
    BY <2>1, <2>2
<1>7. h \in Nat /\ (to # <<>> => h = 1) /\ (to = <<>> => h = 0)
  BY DEF Before
<1>8. PICK f \in 0 .. lm : DOMAIN pm = 1 .. f /\ \A k \in 1 .. f : pm[k] = msg[k]
  <2>1. PICK x \in 0 .. lm : pm = SubSeq(msg, 1, Fewer(x, MSG_ELEMENTS))
    BY <1>3
  <2> DEFINE f == Fewer(x, MSG_ELEMENTS)
  <2>2. f \in 0 .. lm
    BY <1>6, ElementAssumption DEF Fewer
  <2> HIDE DEF f
  <2>3. DOMAIN SubSeq(msg, 1, f) = 1 .. f /\ \A k \in 1 .. f : SubSeq(msg, 1, f)[k] = msg[k]
    <3>1. CASE f = 0
      <4>1. SubSeq(msg, 1, 0) = <<>>
        BY <1>6
      <4>2. DOMAIN <<>> = 1 .. 0 /\ \A k \in 1 .. 0 : FALSE
        OBVIOUS
      <4> QED
        BY <3>1, <4>1, <4>2, Zenon
    <3>2. CASE f # 0
      <4>1. 1 \in 1 .. lm /\ f \in 1 .. lm
        BY <1>6, <2>2, <3>2
      <4> HIDE DEF EntryType
      <4> QED
        BY <1>6, <2>2, <4>1
    <3> QED
      BY <3>1, <3>2
  <2> QED
    BY <2>1, <2>2, <2>3, Zenon DEF f
<1>9. f \in Nat /\ \A k \in 1 .. f : k \in 1 .. lm
  BY <1>6
<1> HIDE DEF pm, lm, h
<1> DEFINE vt == xapGetValue(pm, HEADER, TARGET)
           vc == xapGetValue(pm, HEADER, CLASS)
<1>10. to # <<>> /\ f >= 1 => vt = Text(to)
  <2> SUFFICES ASSUME to # <<>>, f >= 1
               PROVE  vt = Text(to)
    OBVIOUS
  <2>1. 1 \in 1 .. f /\ \A j \in 1 .. 1 - 1 : FALSE
    BY <1>9
  <2>2. strcasecmp(HEADER, pm[1].section) /\ strcasecmp(TARGET, pm[1].key) /\ pm[1].value = Text(to)
    BY <1>5, <1>8, <2>1, KeyFacts, Zenon
  <2>3. TARGET # NULL
    BY KeyFacts
  <2>4. vt = pm[1].value
    <3> DEFINE o == 1
    <3>1. o \in 1 .. f /\ \A j \in 1 .. o - 1 : ~strcasecmp(TARGET, pm[j].key)
      BY <2>1, Zenon
    <3>2. strcasecmp(HEADER, pm[o].section) /\ strcasecmp(TARGET, pm[o].key)
      BY <2>2, Zenon
    <3> HIDE DEF o
    <3>3. vt = pm[o].value
      BY <1>8, <1>9, <2>3, <3>1, <3>2, LookupFirst
    <3> QED
      BY <3>3, Zenon DEF o
  <2> QED
    BY <2>2, <2>4
<1>11. ~(to # <<>> /\ f >= 1) => vt = NULL
  <2> SUFFICES ASSUME ~(to # <<>> /\ f >= 1)
               PROVE  vt = NULL
    OBVIOUS
  <2>1. \A k \in 1 .. f : k > h
    BY <1>7, <1>9
  <2>2. \A k \in 1 .. f : ~strcasecmp(TARGET, pm[k].key)
    BY <1>5, <1>8, <1>9, <2>1, Zenon
  <2> QED
    BY <1>8, <1>9, <2>2, LookupNone, Zenon
<1>12. f >= h + 1 => vc = c
  <2> SUFFICES ASSUME f >= h + 1
               PROVE  vc = c
    OBVIOUS
  <2>1. h + 1 \in 1 .. f /\ \A j \in 1 .. (h + 1) - 1 : j \in 1 .. h /\ j \in 1 .. f
    BY <1>7, <1>9
  <2>2. strcasecmp(HEADER, pm[h + 1].section) /\ strcasecmp(CLASS, pm[h + 1].key) /\ pm[h + 1].value = c
    BY <1>5, <1>8, <2>1, KeyFacts, Zenon
  <2>3. CLASS # NULL
    BY KeyFacts
  <2>4. \A j \in 1 .. (h + 1) - 1 : ~strcasecmp(CLASS, pm[j].key)
    BY <1>5, <1>8, <2>1, Zenon
  <2>5. vc = pm[h + 1].value
    <3> DEFINE o == h + 1
    <3>1. o \in 1 .. f /\ \A j \in 1 .. o - 1 : ~strcasecmp(CLASS, pm[j].key)
      BY <2>1, <2>4, Zenon
    <3>2. strcasecmp(HEADER, pm[o].section) /\ strcasecmp(CLASS, pm[o].key)
      BY <2>2, Zenon
    <3> HIDE DEF o
    <3>3. vc = pm[o].value
      BY <1>8, <1>9, <2>3, <3>1, <3>2, LookupFirst
    <3> QED
      BY <3>3, Zenon DEF o
  <2> QED
    BY <2>2, <2>5
<1>13. ~(f >= h + 1) => vc = NULL
  <2> SUFFICES ASSUME ~(f >= h + 1)
               PROVE  vc = NULL
    OBVIOUS
  <2>1. \A k \in 1 .. f : k \in 1 .. h
    BY <1>7, <1>9
  <2>2. \A k \in 1 .. f : ~strcasecmp(CLASS, pm[k].key)
    BY <1>5, <1>8, <2>1, Zenon
  <2> QED
    BY <1>8, <1>9, <2>2, LookupNone, Zenon
<1>14. Came(CLASS, CMD) <=> f >= h + 1 /\ c = CMD
  <2>0. Came(CLASS, CMD) <=> \E k \in 1 .. f : /\ msg[k].key = CLASS /\ msg[k].value = CMD
                                               /\ \A j \in 1 .. k - 1 : msg[j].key # CLASS
    BY <1>8, Zenon DEF Came, pm
  <2>1. ASSUME NEW k \in 1 .. f, msg[k].key = CLASS, msg[k].value = CMD, \A j \in 1 .. k - 1 : msg[j].key # CLASS
        PROVE  f >= h + 1 /\ c = CMD
    <3>1. k \notin 1 .. h
      BY <1>5, <2>1, KeyFacts, Zenon
    <3>2. h + 1 \notin 1 .. k - 1
      BY <1>5, <2>1, Zenon
    <3>3. k = h + 1 /\ f >= h + 1
      BY <1>7, <1>9, <3>1, <3>2
    <3> QED
      BY <1>5, <2>1, <3>3, Zenon
  <2>2. ASSUME f >= h + 1, c = CMD
        PROVE  \E k \in 1 .. f : /\ msg[k].key = CLASS /\ msg[k].value = CMD
                                 /\ \A j \in 1 .. k - 1 : msg[j].key # CLASS
    <3>1. h + 1 \in 1 .. f /\ \A j \in 1 .. (h + 1) - 1 : j \in 1 .. h
      BY <1>7, <1>9, <2>2
    <3>2. \A j \in 1 .. (h + 1) - 1 : msg[j].key # CLASS
      BY <1>5, <3>1, KeyFacts, Zenon
    <3> QED
      BY <1>5, <2>2, <3>1, <3>2, Zenon
  <2> QED
    BY <2>0, <2>1, <2>2, Zenon
<1>15. to # <<>> => (Came(TARGET, Text(to)) <=> f >= 1)
  <2> SUFFICES ASSUME to # <<>>
               PROVE  Came(TARGET, Text(to)) <=> f >= 1
    OBVIOUS
  <2>0. Came(TARGET, Text(to)) <=> \E k \in 1 .. f : /\ msg[k].key = TARGET /\ msg[k].value = Text(to)
                                                     /\ \A j \in 1 .. k - 1 : msg[j].key # TARGET
    BY <1>8, Zenon DEF Came, pm
  <2>1. \A k \in 1 .. f : f >= 1
    BY <1>9
  <2>2. ASSUME f >= 1
        PROVE  \E k \in 1 .. f : /\ msg[k].key = TARGET /\ msg[k].value = Text(to)
                                 /\ \A j \in 1 .. k - 1 : msg[j].key # TARGET
    <3>1. 1 \in 1 .. f /\ \A j \in 1 .. 1 - 1 : FALSE
      BY <1>9, <2>2
    <3> QED
      BY <1>5, <3>1, Zenon
  <2> QED
    BY <2>0, <2>1, <2>2, Zenon
<1>16. ASSUME NEW a \in Addresses
       PROVE  xapCompareFilters(Chain(a), pm) <=>
                 /\ Came(CLASS, CMD)
                 /\ to # <<>> /\ Came(TARGET, Text(to))
                 /\ \E q \in Separated(to) : Covers(q, a)
  <2>1. xapCompareFilters(Chain(a), pm) <=>
           /\ vt # NULL /\ xapFilterAddrSubaddress(vt, Text(a))
           /\ vc # NULL /\ strcasecmp(CMD, vc)
    BY ChainAccepts, TargetAccepts, ClassAccepts, Zenon
  <2>2. vc # NULL /\ strcasecmp(CMD, vc) <=> f >= h + 1 /\ c = CMD
    BY <1>12, <1>13, KeyFacts, Zenon
  <2>3. to # <<>> => to \in Patterns /\ Text(to) # NULL
    BY <1>3, TextType, PlainIsValue, Zenon
  <2>4. to # <<>> => (xapFilterAddrSubaddress(Text(to), Text(a)) <=> \E q \in Separated(to) : Covers(q, a))
    BY <2>3, FilterIsCovers, Zenon
  <2>5. vt # NULL /\ xapFilterAddrSubaddress(vt, Text(a)) <=>
           to # <<>> /\ f >= 1 /\ \E q \in Separated(to) : Covers(q, a)
    <3>1. CASE to # <<>> /\ f >= 1
      <4>1. vt = Text(to)
        BY <1>10, <3>1, Zenon
      <4> QED
        BY <2>3, <2>4, <3>1, <4>1, Zenon
    <3>2. CASE ~(to # <<>> /\ f >= 1)
      BY <1>11, <3>2, Zenon
    <3> QED
      BY <3>1, <3>2, Zenon
  <2> HIDE DEF vt, vc
  <2> QED
    BY <1>14, <1>15, <2>1, <2>2, <2>5, Zenon
<1> QED
  BY <1>1, <1>16, Zenon

(* Every message, whole or cut off anywhere, reaches the endpoints it is    *)
(* meant for and no others: those of its class whose address its target     *)
(* stands for, for targets and addresses of any number of fields.           *)
THEOREM MeantAreCalled == RxSpec => []CalledIfMeant
BY RxInvAlways, InvCalledIfMeant, PTL

-----------------------------------------------------------------------------
(***************************************************************************)
(* Timers: any number of them, any intervals and any bounds L and S.  A    *)
(* timer is at most 2L + S seconds late, and at most L seconds early.      *)
(***************************************************************************)
(* How late a timer can be: it depends on whether the walk has come past.   *)
Lateness ==
    \A c \in Registered :
        IF pc = "idle" THEN due[c] >= -(L + idle)
        ELSE IF c \in todo THEN due[c] >= -(L + S) - lag
        ELSE due[c] >= -lag

(* An armed timer: what has passed and what is left make up its interval,   *)
(* but for the lag of the walk that armed it.                               *)
Spacing ==
    \A c \in Registered : ~forced[c] => since[c] + due[c] >= interval[c] - L

\* No timer is on the list twice.
Distinct == \A i, j \in 1 .. Len(timeoutList) : timeoutList[i] = timeoutList[j] => i = j

\* The inductive invariant.
IInv ==
    /\ TypeOK
    /\ Distinct
    /\ pc = "idle" => lag = 0
    /\ Lateness
    /\ Spacing

(* What the types say of each timer.                                        *)
LEMMA TimerTypes ==
    ASSUME TypeOK
    PROVE  /\ Registered \subseteq Cells
           /\ \A c \in Cells : interval[c] \in Nat /\ interval[c] >= 1 /\ due[c] \in Int
           /\ lag \in Nat /\ lag <= L /\ idle \in Nat /\ idle <= S /\ L \in Nat /\ S \in Nat
<1>1. Registered \subseteq Cells
  BY DEF TypeOK, Registered, Elements
<1>2. ASSUME NEW c \in Cells PROVE interval[c] \in Nat /\ interval[c] >= 1 /\ due[c] \in Int
  <2>1. interval[c] \in Intervals /\ due[c] \in Int
    BY DEF TypeOK
  <2> QED
    BY <2>1, IntervalAssumption
<1>3. lag \in Nat /\ lag <= L /\ idle \in Nat /\ idle <= S
  BY TimeAssumption DEF TypeOK
<1> QED
  BY <1>1, <1>2, <1>3, TimeAssumption

LEMMA InitIInv == Init => IInv
<1> SUFFICES ASSUME Init PROVE IInv
  OBVIOUS
<1> USE IntervalAssumption, TimeAssumption
<1>1. <<>> \in Seq(Cells)
  OBVIOUS
<1>2. TypeOK
  BY <1>1 DEF Init, TypeOK
<1>3. Registered = {}
  BY DEF Init, Registered, Elements
<1> QED
  BY <1>2, <1>3 DEF Init, IInv, Lateness, Spacing, Distinct

(* Prepending a timer registers it and no other.                            *)
LEMMA PrependElements ==
    ASSUME NEW s \in Seq(Cells), NEW c \in Cells
    PROVE  /\ <<c>> \o s \in Seq(Cells)
           /\ Elements(<<c>> \o s) = Elements(s) \cup {c}
           /\ Len(<<c>> \o s) = 1 + Len(s)
           /\ \A i \in 1 .. 1 + Len(s) : (<<c>> \o s)[i] = IF i <= 1 THEN c ELSE s[i - 1]
<1>1. <<c>> \in Seq(Cells) /\ Len(<<c>>) = 1 /\ <<c>>[1] = c
  OBVIOUS
<1>2. /\ <<c>> \o s \in Seq(Cells)
      /\ Len(<<c>> \o s) = 1 + Len(s)
      /\ \A i \in 1 .. 1 + Len(s) : (<<c>> \o s)[i] = IF i <= 1 THEN c ELSE s[i - 1]
  BY <1>1
<1> DEFINE t == <<c>> \o s
           z == Len(s)
<1>0. z \in Nat /\ t \in Seq(Cells) /\ Len(t) = 1 + z /\ \A i \in 1 .. 1 + z : t[i] = IF i <= 1 THEN c ELSE s[i - 1]
  BY <1>2
<1> HIDE DEF t
<1>3. \A i \in 1 .. z : i + 1 \in 1 .. 1 + z /\ t[i + 1] = s[i]
  <2> HIDE DEF z
  <2> QED
    BY <1>0
<1>4. 1 \in 1 .. 1 + z /\ t[1] = c
  BY <1>0
<1>5. Elements(s) \cup {c} \subseteq Elements(t)
  <2>1. \A e \in Elements(s) : e \in Elements(t)
    BY <1>0, <1>3 DEF Elements
  <2>2. c \in Elements(t)
    BY <1>0, <1>4 DEF Elements
  <2> QED
    BY <2>1, <2>2
<1>6. Elements(t) \subseteq Elements(s) \cup {c}
  <2>1. \A i \in 1 .. 1 + z : i = 1 \/ (i - 1 \in 1 .. z /\ t[i] = s[i - 1])
    BY <1>0
  <2>2. \A i \in 1 .. 1 + z : t[i] \in Elements(s) \cup {c}
    BY <1>4, <2>1 DEF Elements
  <2> QED
    BY <1>0, <2>2 DEF Elements
<1> QED
  BY <1>2, <1>5, <1>6 DEF t

(* Deleting a timer registers none, and it is gone from the list.           *)
LEMMA DeleteElements ==
    ASSUME TypeOK, Distinct, NEW i \in 1 .. Len(timeoutList), Delete(i)
    PROVE  /\ timeoutList' \in Seq(Cells)
           /\ Registered' \subseteq Registered \ {timeoutList[i]}
           /\ timeoutList[i] \in Registered
           /\ Distinct'
<1>1. timeoutList \in Seq(Cells) /\ Len(timeoutList) \in Nat \ {0}
  BY DEF TypeOK
<1> DEFINE from(j) == IF j < i THEN j ELSE j + 1
<1>2. \A j \in 1 .. Len(timeoutList) - 1 :
         from(j) \in 1 .. Len(timeoutList) /\ from(j) # i
  BY <1>1
<1>3. \A j, k \in 1 .. Len(timeoutList) - 1 : from(j) = from(k) => j = k
  BY <1>1
<1>4. timeoutList' = [j \in 1 .. Len(timeoutList) - 1 |-> timeoutList[from(j)]]
  BY <1>1 DEF Delete
<1> HIDE DEF from
<1>5. timeoutList' \in Seq(Cells) /\ Len(timeoutList') = Len(timeoutList) - 1
  BY <1>1, <1>2, <1>4
<1>6. Registered' \subseteq Registered \ {timeoutList[i]}
  <2> SUFFICES ASSUME NEW j \in 1 .. Len(timeoutList) - 1
               PROVE  timeoutList'[j] \in Registered \ {timeoutList[i]}
    BY <1>5 DEF Registered, Elements
  <2>1. timeoutList'[j] = timeoutList[from(j)] /\ from(j) \in 1 .. Len(timeoutList) /\ from(j) # i
    BY <1>2, <1>4
  <2> QED
    BY <2>1 DEF Registered, Elements, Distinct
<1>7. Distinct'
  <2> SUFFICES ASSUME NEW j \in 1 .. Len(timeoutList) - 1, NEW k \in 1 .. Len(timeoutList) - 1,
                      timeoutList'[j] = timeoutList'[k]
               PROVE  j = k
    BY <1>5 DEF Distinct
  <2>1. timeoutList[from(j)] = timeoutList[from(k)]
    BY <1>4
  <2>2. from(j) = from(k)
    BY <2>1, <1>2 DEF Distinct
  <2> QED
    BY <2>2, <1>3
<1> QED
  BY <1>5, <1>6, <1>7 DEF Registered, Elements

LEMMA DeleteIInv ==
    ASSUME IInv, NEW i \in 1 .. Len(timeoutList), Delete(i)
    PROVE  IInv'
<1> USE IntervalAssumption, TimeAssumption
<1>1. /\ timeoutList' \in Seq(Cells) /\ Registered' \subseteq Registered \ {timeoutList[i]}
      /\ timeoutList[i] \in Registered /\ Distinct'
  BY DeleteElements DEF IInv
<1>2. timeoutList[i] \in Cells /\ Registered \subseteq Cells
  BY DEF IInv, TypeOK, Registered, Elements
<1>3. TypeOK'
  BY <1>1, <1>2 DEF IInv, TypeOK, Delete, fields, clockVars
<1>4. Lateness'
  <2> SUFFICES ASSUME NEW c \in Registered'
               PROVE  IF pc' = "idle" THEN due'[c] >= -(L + idle')
                      ELSE IF c \in todo' THEN due'[c] >= -(L + S) - lag'
                      ELSE due'[c] >= -lag'
    BY DEF Lateness
  <2>1. c \in Registered /\ c # timeoutList[i]
    BY <1>1
  <2>2. pc' = pc /\ due' = due /\ lag' = lag /\ idle' = idle /\ todo' = todo \ {timeoutList[i]}
    BY DEF Delete, clockVars
  <2> QED
    BY <2>1, <2>2 DEF IInv, Lateness
<1>5. Spacing'
  <2> SUFFICES ASSUME NEW c \in Registered', ~forced'[c]
               PROVE  since'[c] + due'[c] >= interval'[c] - L
    BY DEF Spacing
  <2>1. c # timeoutList[i] /\ forced'[c] = forced[c] /\ since'[c] = since[c]
    BY <1>1, <1>2 DEF Delete, IInv, TypeOK
  <2> QED
    BY <2>1, <1>1 DEF IInv, Spacing, Delete, fields
<1> QED
  BY <1>1, <1>3, <1>4, <1>5 DEF IInv, Delete, clockVars

LEMMA StepIInv == IInv /\ [Next]_vars => IInv'
<1> SUFFICES ASSUME IInv, [Next]_vars PROVE IInv'
  OBVIOUS
<1> USE IntervalAssumption, TimeAssumption
<1>0. Registered \subseteq Cells
  BY TimerTypes DEF IInv
<1>13. \A d \in Cells : interval[d] \in Nat /\ interval[d] >= 1
  BY TimerTypes DEF IInv
<1>1. ASSUME NEW c \in Cells, NEW f \in Funcs, NEW i \in Intervals, xapAddTimeoutAction(c, f, i)
      PROVE  IInv'
  <2>1. timeoutList' \in Seq(Cells) /\ Registered' = Registered \cup {c}
    BY <1>1, PrependElements DEF xapAddTimeoutAction, IInv, TypeOK, Registered
  <2>2. TypeOK'
    BY <1>1, <2>1 DEF xapAddTimeoutAction, walkVars, clockVars, IInv, TypeOK
  <2>3. Lateness'
    BY <1>0, <1>1, <2>1 DEF xapAddTimeoutAction, walkVars, clockVars, IInv, TypeOK, Lateness
  <2>4. Spacing'
    <3> SUFFICES ASSUME NEW d \in Registered', ~forced'[d]
                 PROVE  since'[d] + due'[d] >= interval'[d] - L
      BY DEF Spacing
    <3>1. d # c /\ d \in Registered /\ d \in Cells
      BY <1>0, <1>1, <2>1 DEF xapAddTimeoutAction, IInv, TypeOK
    <3>2. forced'[d] = forced[d] /\ since'[d] = since[d] /\ due'[d] = due[d] /\ interval'[d] = interval[d]
      BY <1>1, <3>1 DEF xapAddTimeoutAction, IInv, TypeOK
    <3> QED
      BY <3>1, <3>2 DEF IInv, Spacing
  <2>5. Distinct'
    <3>1. timeoutList \in Seq(Cells) /\ timeoutList' = <<c>> \o timeoutList
      BY <1>1 DEF xapAddTimeoutAction, IInv, TypeOK
    <3>2. /\ Len(timeoutList) \in Nat /\ Len(timeoutList') = 1 + Len(timeoutList)
          /\ \A m \in 1 .. 1 + Len(timeoutList) :
                timeoutList'[m] = IF m <= 1 THEN c ELSE timeoutList[m - 1]
      BY <3>1, PrependElements
    <3>3. \A j \in 1 .. Len(timeoutList) : timeoutList[j] # c
      BY <1>1 DEF xapAddTimeoutAction, Registered, Elements
    <3> SUFFICES ASSUME NEW j \in 1 .. 1 + Len(timeoutList), NEW k \in 1 .. 1 + Len(timeoutList),
                        timeoutList'[j] = timeoutList'[k]
                 PROVE  j = k
      BY <3>2 DEF Distinct
    <3>4. CASE j = 1 \/ k = 1
      BY <3>2, <3>3, <3>4
    <3>5. CASE j # 1 /\ k # 1
      <4>1. /\ j - 1 \in 1 .. Len(timeoutList) /\ timeoutList'[j] = timeoutList[j - 1]
            /\ k - 1 \in 1 .. Len(timeoutList) /\ timeoutList'[k] = timeoutList[k - 1]
        BY <3>2, <3>5
      <4>2. j - 1 = k - 1
        BY <4>1 DEF IInv, Distinct
      <4> QED
        BY <4>2
    <3> QED
      BY <3>4, <3>5
  <2> QED
    BY <1>1, <2>2, <2>3, <2>4, <2>5 DEF xapAddTimeoutAction, walkVars, clockVars, IInv
<1>2. ASSUME NEW c \in Cells, xapTimeoutReset(c) PROVE IInv'
  <2>1. Registered' = Registered
    BY <1>2 DEF xapTimeoutReset, Registered
  <2>2. TypeOK'
    BY <1>2, <1>13 DEF xapTimeoutReset, fields, walkVars, clockVars, IInv, TypeOK
  <2>3. Lateness'
    BY <1>0, <1>13, <1>2, <2>1 DEF xapTimeoutReset, fields, walkVars, clockVars, IInv, TypeOK, Lateness
  <2>4. Spacing'
    BY <1>0, <1>13, <1>2, <2>1 DEF xapTimeoutReset, fields, IInv, TypeOK, Spacing
  <2> QED
    BY <1>2, <2>2, <2>3, <2>4 DEF xapTimeoutReset, walkVars, clockVars, IInv, Distinct
<1>3. ASSUME NEW c \in Cells, xapTimeoutExpire(c) PROVE IInv'
  <2>1. Registered' = Registered
    BY <1>3 DEF xapTimeoutExpire, Registered
  <2>2. TypeOK'
    BY <1>3 DEF xapTimeoutExpire, fields, walkVars, clockVars, IInv, TypeOK
  <2>3. Lateness'
    BY <1>0, <1>3, <2>1 DEF xapTimeoutExpire, fields, walkVars, clockVars, IInv, TypeOK, Lateness
  <2>4. Spacing'
    BY <1>0, <1>3, <2>1 DEF xapTimeoutExpire, fields, IInv, TypeOK, Spacing
  <2> QED
    BY <1>3, <2>2, <2>3, <2>4 DEF xapTimeoutExpire, walkVars, clockVars, IInv, Distinct
<1>4. ASSUME NEW c \in Cells, xapDelTimeoutAction(c) PROVE IInv'
  BY <1>4, DeleteIInv DEF xapDelTimeoutAction
<1>5. ASSUME NEW f \in Funcs, xapDelTimeoutActionByFunc(f) PROVE IInv'
  BY <1>5, DeleteIInv DEF xapDelTimeoutActionByFunc
<1>6. CASE timeoutDispatch
  <2>1. Registered' = Registered
    BY <1>6 DEF timeoutDispatch, Registered
  <2>2. TypeOK'
    BY <1>0, <1>6 DEF timeoutDispatch, fields, IInv, TypeOK
  <2>3. Lateness'
    BY <1>0, <1>6, <2>1 DEF timeoutDispatch, IInv, TypeOK, Lateness
  <2>4. Spacing'
    BY <1>6, <2>1 DEF timeoutDispatch, fields, IInv, Spacing
  <2> QED
    BY <1>6, <2>2, <2>3, <2>4 DEF timeoutDispatch, IInv, Distinct
<1>7. ASSUME NEW c \in Cells, timeoutDispatch_Pass(c) PROVE IInv'
  <2>1. Registered' = Registered
    BY <1>7 DEF timeoutDispatch_Pass, Registered
  <2>2. TypeOK'
    BY <1>7 DEF timeoutDispatch_Pass, Reached, fields, clockVars, IInv, TypeOK
  <2>3. Lateness'
    <3>1. /\ pc = "walk" /\ pc' = pc /\ lag' = lag /\ todo' = todo \ {c} /\ due' = due
          /\ due[c] + lag > 0
      BY <1>7, TimerTypes DEF timeoutDispatch_Pass, Reached, Expired, clockVars, IInv
    <3>2. lag \in Nat /\ due[c] \in Int
      BY TimerTypes DEF IInv
    <3>3. due[c] >= -lag
      BY <3>1, <3>2
    <3> QED
      BY <2>1, <3>1, <3>3 DEF IInv, Lateness
  <2>4. Spacing'
    BY <1>7, <2>1 DEF timeoutDispatch_Pass, fields, IInv, Spacing
  <2> QED
    BY <1>7, <2>2, <2>3, <2>4 DEF timeoutDispatch_Pass, clockVars, IInv, Distinct
<1>8. ASSUME NEW c \in Cells, timeoutDispatch_Fire(c) PROVE IInv'
  <2>1. Registered' = Registered
    BY <1>8 DEF timeoutDispatch_Fire, Registered
  <2>2. TypeOK'
    <3>1. Rearmed(c) \in Int
      BY <1>13, TimerTypes DEF Rearmed, IInv
    <3> QED
      BY <1>8, <3>1 DEF timeoutDispatch_Fire, Reached, fields, clockVars, IInv, TypeOK
  <2>3. Lateness'
    <3>1. Rearmed(c) >= -lag
      BY <1>13, TimerTypes DEF Rearmed, IInv
    <3>2. pc = "walk" /\ pc' = "callback" /\ lag' = lag /\ todo' = todo \ {c}
      BY <1>8 DEF timeoutDispatch_Fire, Reached, clockVars
    <3>3. due' = [due EXCEPT ![c] = Rearmed(c)] /\ due \in [Cells -> Int]
      BY <1>8 DEF timeoutDispatch_Fire, IInv, TypeOK
    <3> QED
      BY <1>0, <2>1, <3>1, <3>2, <3>3 DEF IInv, Lateness
  <2>4. Spacing'
    <3>1. /\ due' = [due EXCEPT ![c] = Rearmed(c)] /\ due \in [Cells -> Int]
          /\ since' = [since EXCEPT ![c] = 0] /\ since \in [Cells -> Nat]
          /\ forced' = [forced EXCEPT ![c] = FALSE] /\ forced \in [Cells -> BOOLEAN]
          /\ interval' = interval
      BY <1>8 DEF timeoutDispatch_Fire, fields, IInv, TypeOK
    <3>2. 0 + Rearmed(c) >= interval[c] - L
      BY <1>13, TimerTypes DEF Rearmed, IInv
    <3> QED
      BY <1>0, <2>1, <3>1, <3>2 DEF IInv, Spacing
  <2> QED
    BY <1>8, <2>2, <2>3, <2>4 DEF timeoutDispatch_Fire, clockVars, IInv, Distinct
<1>9. CASE timeoutDispatch_Return
  <2>1. Registered' = Registered
    BY <1>9 DEF timeoutDispatch_Return, Registered
  <2> QED
    BY <1>9, <2>1 DEF timeoutDispatch_Return, fields, clockVars, IInv, TypeOK, Distinct, Lateness, Spacing
<1>10. CASE timeoutDispatch_End
  <2>1. Registered' = Registered
    BY <1>10 DEF timeoutDispatch_End, Registered
  <2>2. TypeOK'
    BY <1>10 DEF timeoutDispatch_End, fields, IInv, TypeOK
  <2>3. Lateness'
    BY <1>0, <1>10, <2>1 DEF timeoutDispatch_End, IInv, TypeOK, Lateness
  <2>4. Spacing'
    BY <1>10, <2>1 DEF timeoutDispatch_End, fields, IInv, Spacing
  <2> QED
    BY <1>10, <2>2, <2>3, <2>4 DEF timeoutDispatch_End, IInv, Distinct
<1>11. CASE Tick
  <2>1. Registered' = Registered
    BY <1>11 DEF Tick, Registered
  <2>2. TypeOK'
    BY <1>0, <1>11 DEF Tick, fields, walkVars, IInv, TypeOK
  <2>3. Lateness'
    BY <1>0, <1>11, <2>1 DEF Tick, walkVars, IInv, TypeOK, Lateness
  <2>4. Spacing'
    BY <1>0, <1>11, <2>1 DEF Tick, fields, IInv, TypeOK, Spacing
  <2> QED
    BY <1>11, <2>2, <2>3, <2>4 DEF Tick, walkVars, IInv, Distinct
<1>12. CASE UNCHANGED vars
  BY <1>12 DEF vars, fields, walkVars, clockVars, IInv, TypeOK, Distinct, Lateness, Spacing, Registered
<1> QED
  BY <1>1, <1>2, <1>3, <1>4, <1>5, <1>6, <1>7, <1>8, <1>9, <1>10, <1>11, <1>12 DEF Next

LEMMA IInvAlways == Spec => []IInv
BY InitIInv, StepIInv, PTL DEF Spec

(* The variables keep their types; the walk's bounds L and S hold.          *)
THEOREM TypeCorrect == Spec => []TypeOK
<1>1. IInv => TypeOK
  BY DEF IInv
<1> QED
  BY <1>1, IInvAlways, PTL

(* A registered timer is never more than two walks and a pause late,        *)
(* whatever callbacks add, delete, reset and expire meanwhile.              *)
THEOREM LateBound == Spec => []NeverLate
<1>1. IInv => NeverLate
  <2> SUFFICES ASSUME IInv, NEW c \in Registered PROVE due[c] >= -(2 * L + S)
    BY DEF NeverLate
  <2>1. c \in Cells /\ due[c] \in Int /\ lag \in 0 .. L /\ idle \in 0 .. S /\ L \in Nat /\ S \in Nat
    BY TimerTypes DEF IInv, TypeOK
  <2>2. due[c] >= -(L + idle) \/ due[c] >= -(L + S) - lag \/ due[c] >= -lag
    BY DEF IInv, Lateness
  <2> QED
    BY <2>1, <2>2
<1> QED
  BY <1>1, IInvAlways, PTL

(* An armed timer fires no sooner than its interval less one walk.          *)
THEOREM EarlyBound == Spec => NeverEarly
<1>1. ASSUME IInv, NEW c \in Cells, timeoutDispatch_Fire(c), ~forced[c]
      PROVE  since[c] >= interval[c] - L
  <2>1. c \in Registered
    BY <1>1 DEF timeoutDispatch_Fire, Reached, Registered, Elements
  <2> QED
    BY <1>1, <2>1, TimerTypes DEF timeoutDispatch_Fire, Expired, IInv, TypeOK, Spacing
<1>2. IInv => (\A c \in Cells : timeoutDispatch_Fire(c) /\ ~forced[c] => since[c] >= interval[c] - L)
  BY <1>1
<1> QED
  BY <1>2, IInvAlways, PTL DEF NeverEarly
=============================================================================
