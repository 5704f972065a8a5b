-------------------------- MODULE XapSerialProofs ---------------------------
(***************************************************************************)
(* Proofs about XapSerial.  The walk over the listeners, the ports and     *)
(* their files, and the buffers each have an inductive invariant.          *)
(***************************************************************************)
EXTENDS XapSerial, FiniteSetTheorems, SequenceTheorems, TLAPS

\* The descriptors of the ports.
PortFds == {ports[k].fd : k \in DOMAIN ports}

\* A process that is not running has nothing.
DownIsEmpty == ~up => /\ ports = <<>> /\ listeners = <<>> /\ calls = <<>> /\ files = NoFiles
                      /\ cur = None /\ next = None

\* The listener of the xAP socket is the last of the list, the walk is there
\* while the filters' actions run and has nowhere to go from it.
WalkInv ==
    /\ up => Len(listeners) > 0 /\ listeners[Len(listeners)] = XAP
    /\ IsInjective(listeners)
    /\ WalkOnList
    /\ cur \in {XAP, None} => next = None
    /\ calls # <<>> => cur = XAP /\ XAP \notin ready

\* A port is told by its name as well as by its descriptor; the descriptors of
\* the ports are the open files.
Owned ==
    /\ \A j, k \in DOMAIN ports : ports[j].name = ports[k].name => j = k
    /\ \A j, k \in DOMAIN ports : ports[j].fd = ports[k].fd => j = k
    /\ \A k \in DOMAIN ports : /\ ports[k].fd \in DOMAIN files
                               /\ files[ports[k].fd] = DeviceOf[ports[k].name]
                               /\ locks[DeviceOf[ports[k].name]] = ports[k].fd
    /\ IsFiniteSet(DOMAIN files) /\ Cardinality(DOMAIN files) = Len(ports)
    /\ Range(listeners) \ {XAP} \subseteq PortFds

\* A port is closed under its name right before it is opened.
ClosedBeforeOpened ==
    \A j \in DOMAIN calls : calls[j].op = "open" =>
        \/ j > 1 /\ calls[j - 1].op = "close" /\ calls[j - 1].port = calls[j].port
        \/ j = 1 /\ \A k \in DOMAIN ports : ports[k].name # calls[j].port

\* The buffer of a port, which has not outgrown what line can count.
BufferOK(p) ==
    /\ p.sPos < p.sLen /\ p.sLen <= LINE /\ p.sLen > 0
    /\ p.sPos = p.line \/ (p.sLen > LIMIT /\ p.sPos = p.sLen - 1 /\ p.line > p.sPos)

BuffersOK == \A k \in DOMAIN ports : BufferOK(ports[k])

IInv == TypeOK /\ DownIsEmpty /\ WalkInv /\ Owned /\ ClosedBeforeOpened /\ BuffersOK

-----------------------------------------------------------------------------
(***************************************************************************)
(* Numbers, lists and the operators of the model.                          *)
(***************************************************************************)

(* A set of numbers that is not empty has a least element; what is shown by *)
(* induction below is shown with it.                                        *)
LEMMA LeastElement ==
    ASSUME NEW T \in SUBSET Nat, T # {}
    PROVE  \E n \in T : \A m \in T : n <= m
<1> DEFINE R == {ss \in Nat \X Nat : ss[1] < ss[2]}
<1>1. IsWellFoundedOn(R, Nat)
  BY NatLessThanWellFounded DEF OpToRel
<1>2. \A m, n \in Nat : (<<m, n>> \in R) <=> m < n
  OBVIOUS
<1> HIDE DEF R
<1>3. PICK n \in T : \A m \in T : ~(<<m, n>> \in R)
  BY <1>1, WFMin
<1>4. \A m \in T : n <= m
  <2> SUFFICES ASSUME NEW m \in T
               PROVE  n <= m
    OBVIOUS
  <2>1. m \in Nat /\ n \in Nat
    OBVIOUS
  <2>2. ~(m < n)
    BY <1>2, <1>3, <2>1, Zenon
  <2> QED
    BY <2>1, <2>2
<1> QED
  BY <1>4

(* What is left of a list without its i-th element.                         *)
LEMMA RemoveAtProperties ==
    ASSUME NEW S, NEW s \in Seq(S), NEW i \in 1 .. Len(s)
    PROVE  /\ RemoveAt(s, i) \in Seq(S)
           /\ Len(RemoveAt(s, i)) = Len(s) - 1
           /\ \A j \in 1 .. Len(s) - 1 : RemoveAt(s, i)[j] = IF j < i THEN s[j] ELSE s[j + 1]
<1> DEFINE a == SubSeq(s, 1, i - 1)
           b == SubSeq(s, i + 1, Len(s))
<1>1. a \in Seq(S) /\ Len(a) = i - 1 /\ \A j \in 1 .. i - 1 : a[j] = s[j]
  OBVIOUS
<1>2. b \in Seq(S) /\ Len(b) = Len(s) - i /\ \A j \in 1 .. Len(s) - i : b[j] = s[i + j]
  OBVIOUS
<1> HIDE DEF a, b
<1>3. RemoveAt(s, i) = a \o b
  BY DEF RemoveAt, a, b
<1>4. /\ a \o b \in Seq(S) /\ Len(a \o b) = Len(s) - 1
      /\ \A j \in 1 .. Len(s) - 1 : (a \o b)[j] = IF j <= i - 1 THEN a[j] ELSE b[j - (i - 1)]
  <2>1. /\ a \o b \in Seq(S) /\ Len(a \o b) = Len(a) + Len(b)
        /\ \A j \in 1 .. Len(a) + Len(b) : (a \o b)[j] = IF j <= Len(a) THEN a[j] ELSE b[j - Len(a)]
    BY <1>1, <1>2, ConcatProperties
  <2> QED
    BY <2>1, <1>1, <1>2
<1>5. ASSUME NEW j \in 1 .. Len(s) - 1
      PROVE  (a \o b)[j] = IF j < i THEN s[j] ELSE s[j + 1]
  <2>1. (a \o b)[j] = IF j <= i - 1 THEN a[j] ELSE b[j - (i - 1)]
    BY <1>4
  <2>2. CASE j < i
    BY <1>1, <2>1, <2>2
  <2>3. CASE ~(j < i)
    <3>1. j - (i - 1) \in 1 .. Len(s) - i /\ i + (j - (i - 1)) = j + 1 /\ ~(j <= i - 1)
      BY <2>3
    <3>2. b[j - (i - 1)] = s[j + 1]
      BY <1>2, <3>1
    <3> QED
      BY <2>1, <2>3, <3>1, <3>2
  <2> QED
    BY <2>2, <2>3
<1> QED
  BY <1>3, <1>4, <1>5

(* findDevice() finds a port of the name, or there is none.                 *)
LEMMA FindDevice ==
    ASSUME TypeOK, NEW n
    PROVE  \/ findDevice(n) = 0 /\ \A k \in DOMAIN ports : ports[k].name # n
           \/ findDevice(n) \in DOMAIN ports /\ ports[findDevice(n)].name = n
<1> DEFINE I == {i \in 1 .. Len(ports) : ports[i].name = n}
<1>1. DOMAIN ports = 1 .. Len(ports) /\ Len(ports) \in Nat
  BY DEF TypeOK
<1>2. findDevice(n) = IF I # {} THEN Min(I) ELSE 0
  BY DEF findDevice, SelectInSeq
<1>3. CASE I = {}
  BY <1>1, <1>2, <1>3
<1>4. CASE I # {}
  <2>1. I \in SUBSET Nat
    BY <1>1
  <2> HIDE DEF I
  <2>2. \E i \in I : \A j \in I : i <= j
    BY <1>4, <2>1, LeastElement
  <2>3. Min(I) \in I
    BY <2>2 DEF Min
  <2> QED
    BY <1>1, <1>2, <1>4, <2>3 DEF I
<1> QED
  BY <1>3, <1>4

(* The listener after one of the list is on the list, and there is none     *)
(* after the last.                                                          *)
LEMMA AfterOnList ==
    ASSUME TypeOK, IsInjective(listeners), NEW i \in 1 .. Len(listeners)
    PROVE  After(listeners[i]) = IF i < Len(listeners) THEN listeners[i + 1] ELSE None
<1> DEFINE I == {j \in 1 .. Len(listeners) : listeners[j] = listeners[i]}
<1>1. DOMAIN listeners = 1 .. Len(listeners) /\ Len(listeners) \in Nat
  BY DEF TypeOK
<1>2. I = {i}
  BY <1>1 DEF IsInjective
<1>3. Min({i}) = i
  BY <1>1 DEF Min
<1>4. SelectInSeq(listeners, LAMBDA l : l = listeners[i]) = IF I # {} THEN Min(I) ELSE 0
  BY DEF SelectInSeq
<1>5. SelectInSeq(listeners, LAMBDA l : l = listeners[i]) = i
  BY <1>2, <1>3, <1>4
<1> QED
  BY <1>1, <1>5 DEF After

\* struct serialPort
PortType == [name : Names, fd : Fds, sLen : Nat, sPos : Nat, line : Nat, waits : BOOLEAN]

(* One character keeps the buffer as it should be, whatever its size.       *)
LEMMA ReadBuffer ==
    ASSUME NEW p \in PortType, BufferOK(p), NEW ch \in {"c", "n"}
    PROVE  /\ Read(ch, p) \in PortType /\ BufferOK(Read(ch, p))
           /\ Read(ch, p).name = p.name /\ Read(ch, p).fd = p.fd
<1> USE SizeAssumption, LineAssumption
<1>1. CASE ch = "n"
  BY <1>1 DEF PortType, BufferOK, Read
<1>2. CASE ch = "c" /\ p.sPos + 1 < p.sLen
  <2>1. Stored(p) = [p EXCEPT !.sPos = @ + 1]
    BY <1>2 DEF Stored, PortType
  <2>2. p.sPos = p.line /\ p.line < LINE /\ {p.sPos, p.sLen, p.line} \subseteq Nat
    BY <1>2 DEF PortType, BufferOK
  <2>3. Read(ch, p) = [name |-> p.name, fd |-> p.fd, sLen |-> p.sLen,
                       sPos |-> p.sPos + 1, line |-> p.line + 1, waits |-> p.waits]
    BY <1>2, <2>1, <2>2 DEF PortType, Read
  <2>4. /\ Read(ch, p) \in PortType /\ Read(ch, p).name = p.name /\ Read(ch, p).fd = p.fd
        /\ Read(ch, p).sPos = p.sPos + 1 /\ Read(ch, p).line = p.line + 1
        /\ Read(ch, p).sLen = p.sLen
    BY <2>2, <2>3 DEF PortType
  <2>5. BufferOK(Read(ch, p))
    BY <1>2, <2>2, <2>4 DEF BufferOK
  <2> QED
    BY <2>4, <2>5
<1>3. CASE ch = "c" /\ ~(p.sPos + 1 < p.sLen) /\ p.sLen > LIMIT
  <2>1. Stored(p) = p
    BY <1>3 DEF Stored
  <2> QED
    BY <1>3, <2>1 DEF PortType, BufferOK, Read
<1>4. CASE ch = "c" /\ ~(p.sPos + 1 < p.sLen) /\ ~(p.sLen > LIMIT)
  <2>1. Stored(p) = [p EXCEPT !.sPos = @ + 1, !.sLen = 2 * @]
    BY <1>4 DEF Stored
  <2>2. p.sPos = p.line /\ p.line < LINE /\ {p.sPos, p.sLen, p.line} \subseteq Nat
    BY <1>4 DEF PortType, BufferOK
  <2>3. Read(ch, p) = [name |-> p.name, fd |-> p.fd, sLen |-> 2 * p.sLen,
                       sPos |-> p.sPos + 1, line |-> p.line + 1, waits |-> p.waits]
    BY <1>4, <2>1, <2>2 DEF PortType, Read
  <2>4. /\ Read(ch, p) \in PortType /\ Read(ch, p).name = p.name /\ Read(ch, p).fd = p.fd
        /\ Read(ch, p).sPos = p.sPos + 1 /\ Read(ch, p).line = p.line + 1
        /\ Read(ch, p).sLen = 2 * p.sLen
    BY <2>2, <2>3 DEF PortType
  <2>5. BufferOK(Read(ch, p))
    BY <1>4, <2>2, <2>4 DEF BufferOK
  <2> QED
    BY <2>4, <2>5
<1> QED
  BY <1>1, <1>2, <1>3, <1>4

(* So does a whole read(), however many characters it returned: the function *)
(* of ReadAll exists, and all its values are as they should be.              *)
LEMMA ReadAllBuffer ==
    ASSUME NEW p \in PortType, BufferOK(p), NEW chunk \in Seq({"c", "n"})
    PROVE  /\ ReadAll(p, chunk) \in PortType /\ BufferOK(ReadAll(p, chunk))
           /\ ReadAll(p, chunk).name = p.name /\ ReadAll(p, chunk).fd = p.fd
<1> DEFINE Defines(f, m) == f = [i \in 0 .. m |-> IF i = 0 THEN p ELSE Read(chunk[i], f[i - 1])]
           Good(q) == q \in PortType /\ BufferOK(q) /\ q.name = p.name /\ q.fd = p.fd
           n == Len(chunk)
<1>1. n \in Nat /\ \A i \in 1 .. n : chunk[i] \in {"c", "n"}
  OBVIOUS
<1>2. ASSUME NEW m \in 0 .. n
      PROVE  \E f : Defines(f, m)
  <2> DEFINE T == {j \in 0 .. n : ~ \E f : Defines(f, j)}
  <2>1. SUFFICES ASSUME T # {}
                 PROVE  FALSE
    BY <1>1
  <2>2. T \in SUBSET Nat
    BY <1>1
  <2> HIDE DEF T
  <2>3. PICK j \in T : \A k \in T : j <= k
    BY <2>1, <2>2, LeastElement
  <2>4. j \in 0 .. n /\ ~ \E f : Defines(f, j)
    BY <2>3 DEF T
  <2>5. j # 0
    <3>1. Defines([i \in 0 .. 0 |-> p], 0)
      OBVIOUS
    <3> QED
      BY <2>4, <3>1
  <2>6. j - 1 \in 0 .. n /\ j - 1 \notin T
    BY <1>1, <2>2, <2>3, <2>4, <2>5
  <2>7. PICK f : Defines(f, j - 1)
    BY <2>6 DEF T
  <2>8. Defines([i \in 0 .. j |-> IF i = j THEN Read(chunk[j], f[j - 1]) ELSE f[i]], j)
    <3> DEFINE g == [i \in 0 .. j |-> IF i = j THEN Read(chunk[j], f[j - 1]) ELSE f[i]]
    <3>1. DOMAIN f = 0 .. j - 1
      BY <2>7
    <3>2. \A i \in 0 .. j : g[i] = IF i = 0 THEN p ELSE Read(chunk[i], g[i - 1])
      <4> SUFFICES ASSUME NEW i \in 0 .. j
                   PROVE  g[i] = IF i = 0 THEN p ELSE Read(chunk[i], g[i - 1])
        OBVIOUS
      <4>1. CASE i = j
        BY <4>1, <2>4, <2>5
      <4>2. CASE i # j
        <5>1. i \in 0 .. j - 1 /\ g[i] = f[i]
          BY <4>2, <2>4
        <5>2. f[i] = IF i = 0 THEN p ELSE Read(chunk[i], f[i - 1])
          BY <5>1, <2>7
        <5>3. i # 0 => g[i - 1] = f[i - 1]
          BY <5>1, <2>4
        <5> QED
          BY <5>1, <5>2, <5>3
      <4> QED
        BY <4>1, <4>2
    <3> QED
      BY <3>2
  <2> QED
    BY <2>4, <2>8
<1>3. PICK f : Defines(f, n) /\ ReadAll(p, chunk) = f[n]
  <2> DEFINE c == CHOOSE f : Defines(f, n)
  <2>1. Defines(c, n)
    <3>1. \E f : Defines(f, n)
      BY <1>1, <1>2
    <3> HIDE DEF Defines
    <3> QED
      BY <3>1, Zenon
  <2>2. ReadAll(p, chunk) = c[n]
    BY DEF ReadAll
  <2> QED
    BY <2>1, <2>2
<1>4. \A i \in 0 .. n : Good(f[i])
  <2> DEFINE T == {j \in 0 .. n : ~ Good(f[j])}
  <2>1. SUFFICES ASSUME T # {}
                 PROVE  FALSE
    OBVIOUS
  <2>2. T \in SUBSET Nat
    BY <1>1
  <2> HIDE DEF T
  <2>3. PICK j \in T : \A k \in T : j <= k
    BY <2>1, <2>2, LeastElement
  <2>4. j \in 0 .. n /\ ~ Good(f[j])
    BY <2>3 DEF T
  <2>5. j # 0
    BY <1>3, <2>4
  <2>6. j - 1 \in 0 .. n /\ j - 1 \notin T
    BY <1>1, <2>2, <2>3, <2>4, <2>5
  <2>7. Good(f[j - 1])
    BY <2>6 DEF T
  <2>8. f[j] = Read(chunk[j], f[j - 1])
    BY <1>3, <2>4, <2>5
  <2>9. chunk[j] \in {"c", "n"}
    BY <1>1, <2>4, <2>5
  <2>10. Good(f[j])
    BY <2>7, <2>8, <2>9, ReadBuffer
  <2> QED
    BY <2>4, <2>10
<1> QED
  BY <1>1, <1>3, <1>4

\* What the filters' actions have to do.
CallType == [op : {"close", "send", "open"}, port : Names, param : Params \cup {None}]

(* One action less to do.                                                   *)
LEMMA CallsTail ==
    ASSUME TypeOK, calls # <<>>
    PROVE  /\ Head(calls) = calls[1] /\ Head(calls) \in CallType /\ Len(calls) \in Nat \ {0}
           /\ Tail(calls) \in Seq(CallType) /\ Len(Tail(calls)) = Len(calls) - 1
           /\ \A j \in 1 .. Len(calls) - 1 : Tail(calls)[j] = calls[j + 1]
<1>1. calls \in Seq(CallType)
  BY DEF TypeOK, CallType
<1> QED
  BY <1>1

(* Once a port has been closed none has its name, and what is opened next   *)
(* has been closed.                                                         *)
LEMMA NextCall ==
    ASSUME TypeOK, ClosedBeforeOpened, calls # <<>>, calls' = Tail(calls),
           Head(calls).op = "close" => \A k \in DOMAIN ports' : ports'[k].name # Head(calls).port
    PROVE  ClosedBeforeOpened'
<1> SUFFICES ASSUME NEW j \in 1 .. Len(calls) - 1, calls'[j].op = "open"
             PROVE  \/ j > 1 /\ calls'[j - 1].op = "close" /\ calls'[j - 1].port = calls'[j].port
                    \/ j = 1 /\ \A k \in DOMAIN ports' : ports'[k].name # calls'[j].port
  BY CallsTail DEF ClosedBeforeOpened
<1>1. calls \in Seq(CallType) /\ DOMAIN calls = 1 .. Len(calls) /\ j + 1 \in DOMAIN calls
  BY CallsTail DEF TypeOK, CallType
<1>2. calls'[j] = calls[j + 1]
  BY CallsTail
<1>3. calls[j].op = "close" /\ calls[j].port = calls[j + 1].port
  <2>1. j + 1 # 1 /\ (j + 1) - 1 = j /\ calls[j + 1].op = "open"
    BY <1>2
  <2> QED
    BY <1>1, <2>1 DEF ClosedBeforeOpened
<1>4. CASE j = 1
  BY <1>2, <1>3, <1>4, CallsTail
<1>5. CASE j # 1
  <2>1. calls'[j - 1] = calls[j]
    BY <1>5, CallsTail
  <2> QED
    BY <1>2, <1>3, <1>5, <2>1
<1> QED
  BY <1>4, <1>5

(* The list without the listener of a port.                                 *)
LEMMA DelistedProperties ==
    ASSUME TypeOK, IsInjective(listeners), NEW fd \in Fds, Contains(listeners, fd),
           listeners[Len(listeners)] = XAP
    PROVE  /\ Delisted(fd) \in Seq(Fds \cup {XAP}) /\ IsInjective(Delisted(fd))
           /\ Range(Delisted(fd)) = Range(listeners) \ {fd}
           /\ Len(Delisted(fd)) > 0 /\ Delisted(fd)[Len(Delisted(fd))] = XAP
<1> DEFINE n == Len(listeners)
           L == Delisted(fd)
<1>1. listeners \in Seq(Fds \cup {XAP}) /\ n \in Nat /\ DOMAIN listeners = 1 .. n
  BY DEF TypeOK
<1>2. PICK i \in 1 .. n : listeners[i] = fd
  BY DEF Contains
<1>3. {j \in 1 .. n : listeners[j] = fd} = {i}
  BY <1>1, <1>2 DEF IsInjective
<1>4. Min({i}) = i
  BY <1>1 DEF Min
<1>5. L = RemoveAt(listeners, i)
  BY <1>2, <1>3, <1>4 DEF Delisted, RemoveFirst, SelectInSeq
<1>6. i < n /\ n > 1
  BY <1>1, <1>2, FdAssumption DEF XAP
<1> DEFINE from(j) == IF j < i THEN j ELSE j + 1
<1>7. \A j \in 1 .. n - 1 : from(j) \in 1 .. n /\ from(j) # i
  BY <1>1
<1>8. \A j, k \in 1 .. n - 1 : from(j) = from(k) => j = k
  BY <1>1
<1>9. L \in Seq(Fds \cup {XAP}) /\ Len(L) = n - 1 /\ \A j \in 1 .. n - 1 : L[j] = listeners[from(j)]
  <2>1. /\ RemoveAt(listeners, i) \in Seq(Fds \cup {XAP}) /\ Len(RemoveAt(listeners, i)) = n - 1
        /\ \A j \in 1 .. n - 1 : RemoveAt(listeners, i)[j] = IF j < i THEN listeners[j] ELSE listeners[j + 1]
    BY <1>1, RemoveAtProperties
  <2> QED
    BY <1>5, <2>1
<1>10. DOMAIN L = 1 .. n - 1
  BY <1>9
<1>11. L[n - 1] = XAP
  BY <1>1, <1>6, <1>9
<1>12. \A j \in 1 .. n : j # i => \E k \in 1 .. n - 1 : from(k) = j
  <2> SUFFICES ASSUME NEW j \in 1 .. n, j # i
               PROVE  \E k \in 1 .. n - 1 : from(k) = j
    OBVIOUS
  <2>1. CASE j < i
    BY <1>1, <2>1
  <2>2. CASE j > i
    <3>1. j - 1 \in 1 .. n - 1 /\ from(j - 1) = j
      BY <1>1, <2>2
    <3> QED
      BY <3>1
  <2> QED
    BY <1>1, <2>1, <2>2
<1> HIDE DEF from, L
<1>13. IsInjective(L)
  <2> SUFFICES ASSUME NEW j \in 1 .. n - 1, NEW k \in 1 .. n - 1, L[j] = L[k]
               PROVE  j = k
    BY <1>10 DEF IsInjective
  <2>1. from(j) = from(k)
    BY <1>1, <1>7, <1>9 DEF IsInjective
  <2> QED
    BY <1>8, <2>1
<1>14. Range(L) = Range(listeners) \ {fd}
  <2>1. \A j \in 1 .. n - 1 : L[j] \in Range(listeners) \ {fd}
    BY <1>1, <1>2, <1>7, <1>9 DEF Range, IsInjective
  <2>2. \A j \in 1 .. n : listeners[j] # fd => listeners[j] \in Range(L)
    <3> SUFFICES ASSUME NEW j \in 1 .. n, listeners[j] # fd
                 PROVE  listeners[j] \in Range(L)
      OBVIOUS
    <3>1. PICK k \in 1 .. n - 1 : from(k) = j
      BY <1>2, <1>12
    <3> QED
      BY <3>1, <1>9, <1>10 DEF Range
  <2> QED
    BY <1>1, <1>10, <2>1, <2>2 DEF Range
<1> QED
  BY <1>6, <1>9, <1>11, <1>13, <1>14 DEF L

(* open() finds the lowest of the free descriptors.                         *)
LEMMA LowestIsFree ==
    ASSUME Free # {}
    PROVE  Lowest \in Fds \ DOMAIN files
<1>1. Free \in SUBSET Nat
  BY FdAssumption DEF Free
<1>2. \E fd \in Free : \A f \in Free : fd <= f
  BY <1>1, LeastElement
<1> QED
  BY <1>2 DEF Lowest, Free

-----------------------------------------------------------------------------
(***************************************************************************)
(* The invariant, action by action.                                        *)
(***************************************************************************)

LEMMA InitIInv == Init => IInv
<1> SUFFICES ASSUME Init
             PROVE  IInv
  OBVIOUS
<1> USE FdAssumption, SizeAssumption DEF Init, XAP
<1>1. TypeOK
  BY DEF TypeOK, NoFiles
<1>2. WalkInv
  BY DEF WalkInv, WalkOnList, IsInjective, Range
<1>3. Owned
  <2>1. DOMAIN files = {} /\ Len(ports) = 0 /\ DOMAIN ports = {}
    BY DEF NoFiles
  <2>2. Range(listeners) \ {XAP} = {}
    BY DEF Range
  <2> QED
    BY <2>1, <2>2, FS_EmptySet DEF Owned
<1> QED
  BY <1>1, <1>2, <1>3 DEF IInv, DownIsEmpty, ClosedBeforeOpened, BuffersOK

(* The steps of the walk that call nobody.                                  *)
LEMMA WalkSteps ==
    ASSUME IInv, (\E R \in SUBSET Range(listeners) : select(R)) \/ readSockets_Next
    PROVE  IInv'
<1> USE FdAssumption DEF XAP
<1>1. /\ listeners \in Seq(Fds \cup {XAP}) /\ Len(listeners) \in Nat
      /\ DOMAIN listeners = 1 .. Len(listeners) /\ TypeOK /\ IsInjective(listeners)
      /\ Range(listeners) \subseteq Fds \cup {XAP}
  BY DEF IInv, TypeOK, WalkInv, Range
<1>2. up /\ Len(listeners) > 0 /\ listeners[Len(listeners)] = XAP
  BY DEF IInv, WalkInv, select, readSockets_Next
<1>3. \A i \in 1 .. Len(listeners) :
         /\ After(listeners[i]) \in Range(listeners) \cup {None}
         /\ listeners[i] = XAP => After(listeners[i]) = None
  BY <1>1, <1>2, AfterOnList DEF Range, IsInjective
<1>4. UNCHANGED <<up, ports, listeners, files, locks, calls, tries>>
  BY DEF select, readSockets_Next
<1>5. CASE \E R \in SUBSET Range(listeners) : select(R)
  <2>1. /\ cur = None /\ cur' = listeners[1] /\ next' = After(listeners[1])
        /\ ready' \subseteq Range(listeners)
    BY <1>5 DEF select
  <2>2. calls = <<>>
    BY <2>1 DEF IInv, WalkInv
  <2>3. cur' \in Fds \cup {XAP} /\ next' \in Range(listeners) \cup {None} /\ (cur' = XAP => next' = None)
    BY <1>1, <1>2, <1>3, <2>1
  <2>4. TypeOK' /\ WalkInv'
    BY <1>1, <1>4, <2>1, <2>2, <2>3 DEF IInv, TypeOK, WalkInv, WalkOnList, Calls
  <2> QED
    BY <1>2, <1>4, <2>4 DEF IInv, DownIsEmpty, Owned, PortFds, ClosedBeforeOpened, BuffersOK
<1>6. CASE readSockets_Next
  <2>1. /\ calls = <<>> /\ cur' = next /\ next \in Range(listeners) \cup {None}
        /\ next' = IF next = None THEN None ELSE After(next)
        /\ ready' \subseteq ready
    BY <1>6 DEF readSockets_Next, IInv, WalkInv, WalkOnList
  <2>2. next # None => \E i \in 1 .. Len(listeners) : next = listeners[i]
    BY <1>1, <2>1 DEF Range
  <2>3. next' \in Range(listeners) \cup {None} /\ (cur' \in {XAP, None} => next' = None)
    BY <1>3, <2>1, <2>2
  <2>4. TypeOK' /\ WalkInv'
    BY <1>1, <1>4, <2>1, <2>3 DEF IInv, TypeOK, WalkInv, WalkOnList, Calls
  <2> QED
    BY <1>2, <1>4, <2>4 DEF IInv, DownIsEmpty, Owned, PortFds, ClosedBeforeOpened, BuffersOK
<1> QED
  BY <1>5, <1>6

LEMMA RxStep ==
    ASSUME IInv, NEW chunk \in Chunks, xapSerialRx(chunk)
    PROVE  IInv'
<1> USE FdAssumption DEF XAP
<1>1. /\ up /\ cur # XAP /\ calls = <<>> /\ ready' \subseteq ready
      /\ UNCHANGED <<up, listeners, files, locks, cur, next, calls, tries>>
  BY DEF xapSerialRx, IInv, WalkInv
<1>2. /\ ports \in Seq(PortType) /\ DOMAIN ports = 1 .. Len(ports) /\ Len(ports) \in Nat
      /\ \A k \in DOMAIN ports : ports[k] \in PortType /\ BufferOK(ports[k])
  <2>1. ports \in Seq(PortType) /\ BuffersOK
    BY DEF IInv, TypeOK, PortType
  <2> QED
    BY <2>1 DEF BuffersOK
<1>3. DOMAIN ports' = DOMAIN ports
  BY DEF xapSerialRx
<1>4. \A k \in DOMAIN ports : /\ ports'[k] \in PortType /\ BufferOK(ports'[k])
                              /\ ports'[k].name = ports[k].name /\ ports'[k].fd = ports[k].fd
  <2> SUFFICES ASSUME NEW k \in DOMAIN ports
               PROVE  /\ ports'[k] \in PortType /\ BufferOK(ports'[k])
                      /\ ports'[k].name = ports[k].name /\ ports'[k].fd = ports[k].fd
    OBVIOUS
  <2>1. ports'[k] = IF ports[k].fd = cur THEN ReadAll(ports[k], chunk) ELSE ports[k]
    BY DEF xapSerialRx
  <2>2. chunk \in Seq({"c", "n"})
    BY ChunkAssumption
  <2>3. ports[k].fd = cur => /\ ReadAll(ports[k], chunk) \in PortType /\ BufferOK(ReadAll(ports[k], chunk))
                             /\ ReadAll(ports[k], chunk).name = ports[k].name
                             /\ ReadAll(ports[k], chunk).fd = ports[k].fd
    BY <1>2, <2>2, ReadAllBuffer
  <2> QED
    BY <1>2, <2>1, <2>3
<1>5. ports' \in Seq(PortType) /\ Len(ports') = Len(ports)
  <2>1. ports' = [k \in 1 .. Len(ports) |-> ports'[k]]
    BY <1>2 DEF xapSerialRx
  <2> QED
    BY <1>2, <1>4, <2>1
<1>6. TypeOK'
  BY <1>1, <1>5 DEF IInv, TypeOK, Calls, PortType
<1>7. WalkInv'
  BY <1>1 DEF IInv, WalkInv, WalkOnList
<1>8. PortFds' = PortFds
  BY <1>3, <1>4 DEF PortFds
<1>9. Owned'
  BY <1>1, <1>3, <1>4, <1>5, <1>8 DEF IInv, Owned
<1> QED
  BY <1>1, <1>3, <1>4, <1>6, <1>7, <1>9 DEF IInv, DownIsEmpty, ClosedBeforeOpened, BuffersOK

(* A message: each section gives its action, and that of a port's settings   *)
(* closes the port first.                                                   *)
LEMMA PacketStep ==
    ASSUME IInv, NEW close \in Names \cup {None}, NEW send \in Names \cup {None},
           NEW setup \in Names \cup {None}, NEW param \in Params,
           handleXapPacket(close, send, setup, param)
    PROVE  IInv'
<1> USE FdAssumption, NameAssumption DEF XAP
<1> DEFINE call(op, n, x) == IF n = None THEN <<>> ELSE <<[op |-> op, port |-> n, param |-> x]>>
           a == call("close", close, None)
           b == call("send", send, None)
           c == call("close", setup, None)
           d == call("open", setup, param)
<1>1. /\ up /\ cur = XAP /\ XAP \in ready /\ ready' = ready \ {XAP}
      /\ UNCHANGED <<up, ports, listeners, files, locks, cur, next, tries>>
      /\ calls' = ((a \o b) \o c) \o d
  BY DEF handleXapPacket
<1>2. calls = <<>> /\ tries = 0
  BY <1>1 DEF IInv, WalkInv, TypeOK, Calls
<1>3. ASSUME NEW op \in {"close", "send", "open"}, NEW n \in Names \cup {None},
             NEW x \in Params \cup {None}
      PROVE  /\ call(op, n, x) \in Seq(CallType)
             /\ n = None => call(op, n, x) = <<>> /\ Len(call(op, n, x)) = 0
             /\ n # None => /\ Len(call(op, n, x)) = 1
                            /\ call(op, n, x)[1].op = op /\ call(op, n, x)[1].port = n
  <2>1. CASE n = None
    BY <2>1
  <2>2. CASE n # None
    <3>1. [op |-> op, port |-> n, param |-> x] \in CallType
      BY <2>2 DEF CallType
    <3> QED
      BY <2>2, <3>1
  <2> QED
    BY <2>1, <2>2
<1> HIDE DEF call
<1>4. /\ a \in Seq(CallType) /\ \A j \in 1 .. Len(a) : a[j].op # "open"
      /\ b \in Seq(CallType) /\ \A j \in 1 .. Len(b) : b[j].op # "open"
  <2>1. a \in Seq(CallType) /\ (Len(a) = 0 \/ (Len(a) = 1 /\ a[1].op = "close"))
    BY <1>3
  <2>2. b \in Seq(CallType) /\ (Len(b) = 0 \/ (Len(b) = 1 /\ b[1].op = "send"))
    BY <1>3
  <2> HIDE DEF a, b
  <2> QED
    BY <2>1, <2>2
<1>5. /\ c \in Seq(CallType) /\ d \in Seq(CallType)
      /\ (c = <<>> /\ d = <<>>)
         \/ (Len(c) = 1 /\ Len(d) = 1 /\ c[1].op = "close" /\ c[1].port = d[1].port)
  BY <1>3
<1> HIDE DEF a, b, c, d
<1> DEFINE s == a \o b
<1>6. s \in Seq(CallType) /\ Len(s) \in Nat /\ \A j \in 1 .. Len(s) : s[j].op # "open"
  BY <1>4, ConcatProperties
<1> HIDE DEF s
<1>7. calls' = (s \o c) \o d
  BY <1>1 DEF s
<1>8. calls' \in Seq(CallType)
  BY <1>5, <1>6, <1>7
<1>9. ClosedBeforeOpened'
  <2>1. CASE c = <<>> /\ d = <<>>
    <3>1. calls' = s
      BY <1>6, <1>7, <2>1
    <3> QED
      BY <1>6, <3>1 DEF ClosedBeforeOpened
  <2>2. CASE Len(c) = 1 /\ Len(d) = 1 /\ c[1].op = "close" /\ c[1].port = d[1].port
    <3>1. s \o c \in Seq(CallType) /\ Len(s \o c) = Len(s) + 1
      <4>1. s \o c \in Seq(CallType) /\ Len(s \o c) = Len(s) + Len(c)
        BY <1>5, <1>6, ConcatProperties
      <4> QED
        BY <2>2, <4>1
    <3>2. \A j \in 1 .. Len(s) + 1 : (s \o c)[j] = IF j <= Len(s) THEN s[j] ELSE c[j - Len(s)]
      BY <1>5, <1>6, <2>2, ConcatProperties
    <3>3. Len(calls') = Len(s) + 2 /\ DOMAIN calls' = 1 .. Len(s) + 2
      BY <1>5, <1>6, <1>7, <2>2, <3>1
    <3>4. \A j \in 1 .. Len(s) + 2 : calls'[j] = IF j <= Len(s) + 1 THEN (s \o c)[j] ELSE d[j - (Len(s) + 1)]
      <4>1. \A j \in 1 .. Len(s \o c) + Len(d) :
               ((s \o c) \o d)[j] = IF j <= Len(s \o c) THEN (s \o c)[j] ELSE d[j - Len(s \o c)]
        BY <1>5, <3>1, ConcatProperties
      <4>2. Len(s \o c) + Len(d) = Len(s) + 2
        BY <1>6, <2>2, <3>1
      <4> QED
        BY <1>7, <3>1, <4>1, <4>2
    <3>5. calls'[Len(s) + 1] = c[1] /\ calls'[Len(s) + 2] = d[1]
      <4>2. (s \o c)[Len(s) + 1] = c[1]
        <5> DEFINE k == Len(s) + 1
        <5>1. k \in 1 .. Len(s) + 1 /\ ~(k <= Len(s)) /\ k - Len(s) = 1
          BY <1>6
        <5> HIDE DEF k
        <5>2. (s \o c)[k] = c[k - Len(s)]
          BY <3>2, <5>1
        <5> QED
          BY <5>1, <5>2 DEF k
      <4>3. calls'[Len(s) + 2] = d[1]
        <5> DEFINE k == Len(s) + 2
        <5>1. k \in 1 .. Len(s) + 2 /\ ~(k <= Len(s) + 1) /\ k - (Len(s) + 1) = 1
          BY <1>6
        <5> HIDE DEF k
        <5>2. calls'[k] = d[k - (Len(s) + 1)]
          BY <3>4, <5>1
        <5> QED
          BY <5>1, <5>2 DEF k
      <4>4. calls'[Len(s) + 1] = (s \o c)[Len(s) + 1]
        <5> DEFINE k == Len(s) + 1
        <5>1. k \in 1 .. Len(s) + 2 /\ k <= Len(s) + 1
          BY <1>6
        <5> HIDE DEF k
        <5>2. calls'[k] = (s \o c)[k]
          BY <3>4, <5>1
        <5> QED
          BY <5>2 DEF k
      <4> QED
        BY <4>2, <4>3, <4>4
    <3>6. \A j \in 1 .. Len(s) : calls'[j].op # "open"
      BY <1>6, <3>2, <3>4
    <3> SUFFICES ASSUME NEW j \in 1 .. Len(s) + 2, calls'[j].op = "open"
                 PROVE  j > 1 /\ calls'[j - 1].op = "close" /\ calls'[j - 1].port = calls'[j].port
      BY <3>3 DEF ClosedBeforeOpened
    <3>7. j = Len(s) + 2
      BY <1>6, <2>2, <3>5, <3>6
    <3>8. j - 1 = Len(s) + 1 /\ j > 1
      BY <1>6, <3>7
    <3> QED
      BY <2>2, <3>5, <3>7, <3>8
  <2> QED
    BY <1>5, <2>1, <2>2
<1>10. TypeOK'
  BY <1>1, <1>2, <1>8 DEF IInv, TypeOK, Calls, CallType
<1>11. WalkInv'
  BY <1>1 DEF IInv, WalkInv, WalkOnList
<1> QED
  BY <1>1, <1>9, <1>10, <1>11 DEF IInv, DownIsEmpty, Owned, PortFds, BuffersOK

(* Actions that only strike themselves off, and the writing to a port.      *)
LEMMA QuietCalls ==
    ASSUME IInv,
           \/ closeSerialPort_None \/ xapSerialSetup_Fails \/ xapSerialTx_None
           \/ sendSerialMsg_Return \/ sendSerialMsg_Released
    PROVE  IInv'
<1> USE FdAssumption, SizeAssumption DEF XAP
<1> DEFINE Ends == sendSerialMsg_Return \/ sendSerialMsg_Released
<1>1. Ends => /\ Calls("send") /\ tries' = 0 /\ calls' = Tail(calls)
              /\ UNCHANGED <<up, ports, listeners, files, locks, ready, cur, next>>
  BY DEF IInv, TypeOK, sendSerialMsg_Return, sendSerialMsg_Released, Held, Returns, loop
<1>2. TypeOK /\ calls # <<>> /\ calls' = Tail(calls)
      /\ UNCHANGED <<up, ports, listeners, files, locks, ready, cur, next>>
  BY <1>1 DEF IInv, TypeOK, closeSerialPort_None, xapSerialSetup_Fails, xapSerialTx_None, Calls, loop
<1>3. Head(calls).op = "close" => \A k \in DOMAIN ports' : ports'[k].name # Head(calls).port
  <2>1. CASE closeSerialPort_None
    <3>1. findDevice(Head(calls).port) = 0 /\ ports' = ports
      BY <2>1 DEF closeSerialPort_None
    <3>2. 0 \notin DOMAIN ports
      BY <1>2 DEF TypeOK
    <3> QED
      BY <1>2, <3>1, <3>2, FindDevice
  <2>2. CASE xapSerialSetup_Fails \/ xapSerialTx_None \/ Ends
    BY <1>1, <2>2 DEF xapSerialSetup_Fails, xapSerialTx_None, Calls
  <2> QED
    BY <2>1, <2>2
<1>4. ClosedBeforeOpened'
  BY <1>2, <1>3, NextCall DEF IInv
<1>5. TypeOK'
  <2>1. calls' \in Seq(CallType)
    BY <1>2, CallsTail
  <2>2. tries' = 0
    BY <1>2, <1>1 DEF TypeOK, closeSerialPort_None, xapSerialSetup_Fails, xapSerialTx_None, Calls
  <2> QED
    BY <1>2, <2>1, <2>2 DEF TypeOK, Calls, CallType
<1>6. WalkInv'
  BY <1>2 DEF IInv, WalkInv, WalkOnList
<1>7. up
  BY <1>2 DEF IInv, DownIsEmpty
<1> QED
  BY <1>2, <1>4, <1>5, <1>6, <1>7 DEF IInv, DownIsEmpty, Owned, PortFds, BuffersOK

LEMMA SendSteps ==
    ASSUME IInv, xapSerialTx \/ sendSerialMsg_Again \/ sendSerialMsg_Written
    PROVE  IInv'
<1>1. /\ UNCHANGED <<up, ports, listeners, files, locks, ready, cur, next, calls>>
      /\ tries' \in 0 .. RETRIES /\ Calls("send")
  BY SizeAssumption DEF IInv, TypeOK, xapSerialTx, sendSerialMsg_Again, sendSerialMsg_Written, loop
<1>2. TypeOK'
  BY <1>1 DEF IInv, TypeOK, Calls
<1> QED
  BY <1>1, <1>2 DEF IInv, DownIsEmpty, WalkInv, WalkOnList, Owned, PortFds, ClosedBeforeOpened, BuffersOK

(* A port that is closed takes its file, its lock and its listener with it. *)
LEMMA CloseStep ==
    ASSUME IInv, closeSerialPort
    PROVE  IInv'
<1> USE FdAssumption, NameAssumption DEF XAP
<1> DEFINE n == Len(ports)
<1>1. PICK k : /\ k = findDevice(Head(calls).port) /\ k # 0
               /\ Contains(listeners, ports[k].fd)
               /\ locks' = Unlocked(ports[k].fd)
               /\ files' = [f \in DOMAIN files \ {ports[k].fd} |-> files[f]]
               /\ listeners' = Delisted(ports[k].fd)
               /\ ports' = RemoveAt(ports, k)
  BY DEF closeSerialPort
<1>2. /\ TypeOK /\ up /\ calls # <<>> /\ calls' = Tail(calls) /\ Head(calls).op = "close"
      /\ UNCHANGED <<up, ready, cur, next, tries>> /\ tries = 0
  BY DEF IInv, TypeOK, closeSerialPort, Calls, loop
<1>3. /\ ports \in Seq(PortType) /\ n \in Nat /\ DOMAIN ports = 1 .. n
      /\ locks \in [Devices -> Fds \cup {Other, None}]
  BY <1>2 DEF TypeOK, PortType
<1>4. k \in 1 .. n /\ ports[k].name = Head(calls).port
  BY <1>1, <1>2, <1>3, FindDevice
<1> DEFINE fd == ports[k].fd
<1>5. fd \in Fds /\ fd \in DOMAIN files
  <2>1. ports[k] \in PortType
    BY <1>3, <1>4
  <2> QED
    BY <1>3, <1>4, <2>1 DEF PortType, IInv, Owned
<1>6. cur = XAP /\ XAP \notin ready /\ next = None
  BY <1>2 DEF IInv, WalkInv
<1>7. /\ listeners' \in Seq(Fds \cup {XAP}) /\ IsInjective(listeners')
      /\ Range(listeners') = Range(listeners) \ {fd}
      /\ Len(listeners') > 0 /\ listeners'[Len(listeners')] = XAP
  BY <1>1, <1>2, <1>5, DelistedProperties DEF IInv, WalkInv
<1> DEFINE from(j) == IF j < k THEN j ELSE j + 1
<1>8. \A j \in 1 .. n - 1 : from(j) \in 1 .. n /\ from(j) # k
  BY <1>3, <1>4
<1>9. \A i, j \in 1 .. n - 1 : from(i) = from(j) => i = j
  BY <1>3, <1>4
<1>10. /\ ports' \in Seq(PortType) /\ Len(ports') = n - 1 /\ DOMAIN ports' = 1 .. n - 1
       /\ \A j \in 1 .. n - 1 : ports'[j] = ports[from(j)]
  <2>1. /\ RemoveAt(ports, k) \in Seq(PortType) /\ Len(RemoveAt(ports, k)) = n - 1
        /\ \A j \in 1 .. n - 1 : RemoveAt(ports, k)[j] = IF j < k THEN ports[j] ELSE ports[j + 1]
    BY <1>3, <1>4, RemoveAtProperties
  <2>2. /\ ports' \in Seq(PortType) /\ Len(ports') = n - 1
        /\ \A j \in 1 .. n - 1 : ports'[j] = ports[from(j)]
    BY <1>1, <2>1
  <2> QED
    BY <2>2
<1>11. \A j \in 1 .. n : j # k => \E i \in 1 .. n - 1 : from(i) = j
  <2> SUFFICES ASSUME NEW j \in 1 .. n, j # k
               PROVE  \E i \in 1 .. n - 1 : from(i) = j
    OBVIOUS
  <2>1. CASE j < k
    BY <1>3, <1>4, <2>1
  <2>2. CASE j > k
    <3>1. j - 1 \in 1 .. n - 1 /\ from(j - 1) = j
      BY <1>3, <1>4, <2>2
    <3> QED
      BY <3>1
  <2> QED
    BY <1>3, <1>4, <2>1, <2>2
<1> HIDE DEF from, n
<1>12. Owned'
  <2>1. \A i, j \in 1 .. n : (ports[i].name = ports[j].name \/ ports[i].fd = ports[j].fd) => i = j
    BY <1>3 DEF IInv, Owned
  <2>2. \A i, j \in 1 .. n - 1 :
           (ports'[i].name = ports'[j].name \/ ports'[i].fd = ports'[j].fd) => i = j
    BY <1>8, <1>9, <1>10, <2>1
  <2>3. \A j \in 1 .. n - 1 : /\ ports'[j].fd \in DOMAIN files'
                              /\ files'[ports'[j].fd] = DeviceOf[ports'[j].name]
                              /\ locks'[DeviceOf[ports'[j].name]] = ports'[j].fd
    <3> SUFFICES ASSUME NEW j \in 1 .. n - 1
                 PROVE  /\ ports'[j].fd \in DOMAIN files'
                        /\ files'[ports'[j].fd] = DeviceOf[ports'[j].name]
                        /\ locks'[DeviceOf[ports'[j].name]] = ports'[j].fd
      OBVIOUS
    <3>1. PICK i \in 1 .. n : ports'[j] = ports[i] /\ i # k
      BY <1>8, <1>10
    <3>2. /\ ports[i].fd # fd /\ ports[i].fd \in DOMAIN files
          /\ files[ports[i].fd] = DeviceOf[ports[i].name]
          /\ locks[DeviceOf[ports[i].name]] = ports[i].fd
      BY <1>3, <1>4, <2>1, <3>1 DEF IInv, Owned
    <3>3. DeviceOf[ports[i].name] \in Devices
      <4>1. ports[i] \in PortType
        BY <1>3
      <4> QED
        BY <4>1 DEF PortType
    <3> QED
      BY <1>1, <3>1, <3>2, <3>3 DEF Unlocked
  <2>4. IsFiniteSet(DOMAIN files') /\ Cardinality(DOMAIN files') = n - 1
    <3>1. DOMAIN files' = DOMAIN files \ {fd}
      BY <1>1
    <3>2. IsFiniteSet(DOMAIN files) /\ Cardinality(DOMAIN files) = n
      BY DEF IInv, Owned, n
    <3> QED
      BY <1>5, <3>1, <3>2, FS_RemoveElement
  <2>5. Range(listeners') \ {XAP} \subseteq PortFds'
    <3> SUFFICES ASSUME NEW f \in Range(listeners), f # fd, f # XAP
                 PROVE  f \in PortFds'
      BY <1>7
    <3>1. PICK i \in 1 .. n : f = ports[i].fd
      BY <1>3 DEF IInv, Owned, PortFds
    <3>2. PICK j \in 1 .. n - 1 : from(j) = i
      BY <1>11, <3>1
    <3> QED
      BY <1>10, <3>1, <3>2 DEF PortFds
  <2> QED
    BY <1>10, <2>2, <2>3, <2>4, <2>5 DEF Owned
<1>13. ClosedBeforeOpened'
  <2>1. \A j \in DOMAIN ports' : ports'[j].name # Head(calls).port
    <3>1. \A i \in 1 .. n : i # k => ports[i].name # Head(calls).port
      BY <1>3, <1>4 DEF IInv, Owned
    <3> QED
      BY <1>8, <1>10, <3>1
  <2> QED
    BY <1>2, <2>1, NextCall DEF IInv
<1>14. TypeOK'
  <2>1. calls' \in Seq(CallType)
    BY <1>2, CallsTail
  <2>2. locks' \in [Devices -> Fds \cup {Other, None}]
    BY <1>1, <1>3 DEF Unlocked
  <2>3. DOMAIN files' \subseteq Fds /\ files' \in [DOMAIN files' -> Devices]
    BY <1>1, <1>2 DEF TypeOK
  <2> QED
    BY <1>2, <1>7, <1>10, <2>1, <2>2, <2>3 DEF TypeOK, CallType, PortType
<1>15. WalkInv'
  BY <1>2, <1>6, <1>7 DEF WalkInv, WalkOnList
<1>16. BuffersOK'
  BY <1>3, <1>8, <1>10 DEF IInv, BuffersOK
<1> QED
  BY <1>2, <1>12, <1>13, <1>14, <1>15, <1>16 DEF IInv, DownIsEmpty

(* A process that goes down, or comes up again, has no ports.               *)
LEMMA DownSteps ==
    ASSUME IInv, closeSerialPort_Crash \/ Restart
    PROVE  IInv'
<1> USE FdAssumption, SizeAssumption DEF XAP
<1>1. /\ ports' = <<>> /\ files' = NoFiles /\ calls' = <<>> /\ cur' = None /\ next' = None
      /\ listeners' = <<>> \/ listeners' = <<XAP>>
      /\ up' \in BOOLEAN /\ (up' => listeners' = <<XAP>>) /\ (~up' => listeners' = <<>>)
      /\ locks' \in [Devices -> Fds \cup {Other, None}] /\ ready' \subseteq ready
      /\ tries' = tries
  BY DEF closeSerialPort_Crash, Restart, IInv, DownIsEmpty, TypeOK, loop
<1>2. tries = 0
  BY DEF closeSerialPort_Crash, Restart, IInv, TypeOK, Calls
<1>3. DOMAIN files' = {} /\ DOMAIN ports' = {} /\ Len(ports') = 0 /\ DOMAIN calls' = {}
  BY <1>1 DEF NoFiles
<1>4. Range(listeners') \subseteq {XAP} /\ IsInjective(listeners')
  BY <1>1 DEF Range, IsInjective
<1>5. TypeOK'
  <2>1. listeners' \in Seq(Fds \cup {XAP}) /\ up' \in BOOLEAN
    <3>1. <<XAP>> \in Seq(Fds \cup {XAP}) /\ <<>> \in Seq(Fds \cup {XAP})
      OBVIOUS
    <3> QED
      BY <1>1, <3>1, Zenon
  <2>2. DOMAIN files' \subseteq Fds /\ files' \in [DOMAIN files' -> Devices]
    BY <1>1 DEF NoFiles
  <2>3. ports' \in Seq(PortType) /\ calls' \in Seq(CallType)
    BY <1>1
  <2>4. ready' \subseteq Fds \cup {XAP} /\ tries' = 0
    BY <1>1, <1>2 DEF IInv, TypeOK
  <2> QED
    BY <1>1, <2>1, <2>2, <2>3, <2>4 DEF TypeOK, PortType, CallType
<1>6. WalkInv'
  <2>1. up' => Len(listeners') > 0 /\ listeners'[Len(listeners')] = XAP
    <3>1. Len(<<XAP>>) > 0 /\ <<XAP>>[Len(<<XAP>>)] = XAP
      OBVIOUS
    <3> QED
      BY <1>1, <3>1, Zenon
  <2> QED
    BY <1>1, <1>4, <2>1 DEF WalkInv, WalkOnList
<1>7. Owned'
  BY <1>3, <1>4, FS_EmptySet DEF Owned
<1> QED
  BY <1>1, <1>3, <1>5, <1>6, <1>7 DEF IInv, DownIsEmpty, ClosedBeforeOpened, BuffersOK

LEMMA OtherStep ==
    ASSUME IInv, NEW d \in Devices, OtherProgram(d)
    PROVE  IInv'
<1> USE FdAssumption, NameAssumption
<1>1. /\ UNCHANGED <<up, ports, listeners, files, ready, cur, next, calls, tries>>
      /\ locks[d] \in {None, Other}
      /\ locks' = [locks EXCEPT ![d] = IF @ = None THEN Other ELSE None]
  BY DEF OtherProgram, loop
<1>2. TypeOK'
  BY <1>1 DEF IInv, TypeOK, Calls
<1>3. \A k \in DOMAIN ports : locks'[DeviceOf[ports[k].name]] = ports[k].fd
  <2> SUFFICES ASSUME NEW k \in DOMAIN ports
               PROVE  locks'[DeviceOf[ports[k].name]] = ports[k].fd
    OBVIOUS
  <2>1. ports \in Seq(PortType) /\ locks \in [Devices -> Fds \cup {Other, None}]
    BY DEF IInv, TypeOK, PortType
  <2>2. ports[k] \in PortType
    BY <2>1
  <2>3. DeviceOf[ports[k].name] \in Devices /\ ports[k].fd \in Fds
    BY <2>2 DEF PortType
  <2>4. locks[DeviceOf[ports[k].name]] = ports[k].fd
    BY DEF IInv, Owned
  <2> QED
    BY <1>1, <2>1, <2>3, <2>4
<1>4. Owned'
  BY <1>1, <1>3 DEF IInv, Owned, PortFds
<1> QED
  BY <1>1, <1>2, <1>4 DEF IInv, DownIsEmpty, WalkInv, WalkOnList, ClosedBeforeOpened, BuffersOK

(* A port that is opened has a file and a name that no other port has.      *)
LEMMA OpenStep ==
    ASSUME IInv, xapSerialSetup
    PROVE  IInv'
<1> USE FdAssumption, NameAssumption, SizeAssumption DEF XAP
<1> DEFINE n == Len(ports)
           nm == Head(calls).port
           d == DeviceOf[nm]
           p == Port(nm, Lowest, Head(calls).param)
<1>1. /\ Free # {} /\ locks[d] = None
      /\ files' = [f \in DOMAIN files \cup {Lowest} |-> IF f = Lowest THEN d ELSE files[f]]
      /\ locks' = [locks EXCEPT ![d] = Lowest]
      /\ ports' = Append(ports, p)
      /\ listeners' = <<Lowest>> \o listeners \/ listeners' = listeners
  BY DEF xapSerialSetup, Registered
<1>2. /\ TypeOK /\ up /\ calls # <<>> /\ calls' = Tail(calls) /\ Head(calls).op = "open"
      /\ UNCHANGED <<up, ready, cur, next, tries>> /\ tries = 0
  BY DEF IInv, TypeOK, xapSerialSetup, Calls, loop
<1>3. /\ ports \in Seq(PortType) /\ n \in Nat /\ DOMAIN ports = 1 .. n
      /\ locks \in [Devices -> Fds \cup {Other, None}]
      /\ DOMAIN files \subseteq Fds /\ files \in [DOMAIN files -> Devices]
      /\ listeners \in Seq(Fds \cup {XAP})
  BY <1>2 DEF TypeOK, PortType
<1>4. Lowest \in Fds \ DOMAIN files
  BY <1>1, LowestIsFree
<1>5. nm \in Names /\ d \in Devices
  BY <1>2, CallsTail DEF CallType
<1>6. p \in PortType /\ p.name = nm /\ p.fd = Lowest /\ BufferOK(p)
  BY <1>4, <1>5, LineAssumption DEF Port, PortType, BufferOK
<1>7. \A k \in 1 .. n : ports[k].name # nm
  <2>1. calls[1].op = "open" /\ calls[1].port = nm /\ 1 \in DOMAIN calls
    BY <1>2, CallsTail DEF TypeOK
  <2>2. ~(1 > 1)
    OBVIOUS
  <2> QED
    BY <1>3, <2>1, <2>2 DEF IInv, ClosedBeforeOpened
<1>8. \A k \in 1 .. n : /\ ports[k] \in PortType
                        /\ ports[k].fd \in DOMAIN files /\ ports[k].fd # Lowest
                        /\ files[ports[k].fd] = DeviceOf[ports[k].name]
                        /\ locks[DeviceOf[ports[k].name]] = ports[k].fd
  BY <1>3, <1>4 DEF IInv, Owned
<1>9. \A k \in 1 .. n : DeviceOf[ports[k].name] \in Devices /\ DeviceOf[ports[k].name] # d
  BY <1>1, <1>3, <1>8 DEF PortType
<1> HIDE DEF p, n, d, nm
<1>10. /\ ports' \in Seq(PortType) /\ Len(ports') = n + 1 /\ DOMAIN ports' = 1 .. n + 1
       /\ \A k \in 1 .. n : ports'[k] = ports[k]
       /\ ports'[n + 1] = p
  BY <1>1, <1>3, <1>6 DEF n
<1>11. cur = XAP /\ XAP \notin ready /\ next = None
  BY <1>2 DEF IInv, WalkInv
<1>12. /\ listeners' \in Seq(Fds \cup {XAP}) /\ IsInjective(listeners')
       /\ Range(listeners') \subseteq Range(listeners) \cup {Lowest}
       /\ Len(listeners') > 0 /\ listeners'[Len(listeners')] = XAP
  <2> DEFINE m == Len(listeners)
  <2>1. IsInjective(listeners) /\ m > 0 /\ m \in Nat /\ listeners[m] = XAP /\ DOMAIN listeners = 1 .. m
    BY <1>2, <1>3 DEF IInv, WalkInv
  <2>2. CASE listeners' = listeners
    BY <1>3, <2>1, <2>2
  <2>3. CASE listeners' = <<Lowest>> \o listeners
    <3>1. <<Lowest>> \in Seq(Fds \cup {XAP}) /\ Len(<<Lowest>>) = 1 /\ <<Lowest>>[1] = Lowest
      BY <1>4
    <3>2. /\ listeners' \in Seq(Fds \cup {XAP}) /\ Len(listeners') = 1 + m
          /\ DOMAIN listeners' = 1 .. 1 + m
          /\ \A i \in 1 .. 1 + m : listeners'[i] = IF i <= 1 THEN Lowest ELSE listeners[i - 1]
      BY <1>3, <2>1, <2>3, <3>1, ConcatProperties
    <3>3. \A i \in 1 .. m : listeners[i] # Lowest
      <4> SUFFICES ASSUME NEW i \in 1 .. m, listeners[i] = Lowest
                   PROVE  FALSE
        OBVIOUS
      <4>1. Lowest \in Range(listeners) \ {XAP}
        BY <1>4, <2>1 DEF Range
      <4>2. Lowest \in PortFds
        BY <4>1 DEF IInv, Owned
      <4> QED
        BY <1>3, <1>8, <4>2 DEF PortFds
    <3> HIDE DEF m
    <3>4. \A i, j \in 1 .. 1 + m : listeners'[i] = listeners'[j] => i = j
      <4> SUFFICES ASSUME NEW i \in 1 .. 1 + m, NEW j \in 1 .. 1 + m, listeners'[i] = listeners'[j]
                   PROVE  i = j
        OBVIOUS
      <4>1. CASE i = 1 \/ j = 1
        BY <2>1, <3>2, <3>3, <4>1
      <4>2. CASE i # 1 /\ j # 1
        <5>1. i - 1 \in 1 .. m /\ j - 1 \in 1 .. m /\ listeners[i - 1] = listeners[j - 1]
          BY <2>1, <3>2, <4>2
        <5>2. i - 1 = j - 1
          BY <2>1, <5>1 DEF IsInjective
        <5> QED
          BY <2>1, <5>2
      <4> QED
        BY <4>1, <4>2
    <3>5. \A i \in 1 .. 1 + m : listeners'[i] \in Range(listeners) \cup {Lowest}
      <4> SUFFICES ASSUME NEW i \in 1 .. 1 + m, i # 1
                   PROVE  listeners'[i] \in Range(listeners)
        BY <2>1, <3>2
      <4>1. i - 1 \in 1 .. m /\ listeners'[i] = listeners[i - 1]
        BY <2>1, <3>2
      <4> QED
        BY <2>1, <4>1 DEF Range
    <3>6. listeners'[1 + m] = listeners[m]
      BY <2>1, <3>2
    <3> QED
      BY <2>1, <3>2, <3>4, <3>5, <3>6 DEF IsInjective, Range
  <2> QED
    BY <1>1, <2>2, <2>3
<1>13. Owned'
  <2>1. \A i, j \in 1 .. n : (ports[i].name = ports[j].name \/ ports[i].fd = ports[j].fd) => i = j
    BY <1>3 DEF IInv, Owned, n
  <2>2. \A i, j \in 1 .. n + 1 :
           (ports'[i].name = ports'[j].name \/ ports'[i].fd = ports'[j].fd) => i = j
    <3> SUFFICES ASSUME NEW i \in 1 .. n + 1, NEW j \in 1 .. n + 1,
                        ports'[i].name = ports'[j].name \/ ports'[i].fd = ports'[j].fd
                 PROVE  i = j
      OBVIOUS
    <3>1. CASE i \in 1 .. n /\ j \in 1 .. n
      BY <1>10, <2>1, <3>1
    <3>2. CASE i \in 1 .. n /\ j = n + 1
      BY <1>6, <1>7, <1>8, <1>10, <3>2
    <3>3. CASE i = n + 1 /\ j \in 1 .. n
      BY <1>6, <1>7, <1>8, <1>10, <3>3
    <3> QED
      BY <1>3, <3>1, <3>2, <3>3 DEF n
  <2>3. \A k \in 1 .. n + 1 : /\ ports'[k].fd \in DOMAIN files'
                              /\ files'[ports'[k].fd] = DeviceOf[ports'[k].name]
                              /\ locks'[DeviceOf[ports'[k].name]] = ports'[k].fd
    <3> SUFFICES ASSUME NEW k \in 1 .. n + 1
                 PROVE  /\ ports'[k].fd \in DOMAIN files'
                        /\ files'[ports'[k].fd] = DeviceOf[ports'[k].name]
                        /\ locks'[DeviceOf[ports'[k].name]] = ports'[k].fd
      OBVIOUS
    <3>1. CASE k \in 1 .. n
      <4>1. ports'[k] = ports[k] /\ ports[k].fd \in DOMAIN files /\ ports[k].fd # Lowest
        BY <1>8, <1>10, <3>1
      <4>2. DeviceOf[ports[k].name] \in Devices /\ DeviceOf[ports[k].name] # d
        BY <1>9, <3>1
      <4>3. /\ files[ports[k].fd] = DeviceOf[ports[k].name]
            /\ locks[DeviceOf[ports[k].name]] = ports[k].fd
        BY <1>8, <3>1
      <4> QED
        BY <1>1, <1>3, <4>1, <4>2, <4>3
    <3>2. CASE k = n + 1
      <4>1. ports'[k].fd = Lowest /\ DeviceOf[ports'[k].name] = d
        BY <1>6, <1>10, <3>2 DEF d
      <4> QED
        BY <1>1, <1>3, <1>5, <4>1
    <3>3. k \in 1 .. n \/ k = n + 1
      BY <1>3 DEF n
    <3> QED
      BY <3>1, <3>2, <3>3, Zenon
  <2>4. IsFiniteSet(DOMAIN files') /\ Cardinality(DOMAIN files') = n + 1
    <3>1. DOMAIN files' = DOMAIN files \cup {Lowest}
      BY <1>1
    <3>2. IsFiniteSet(DOMAIN files) /\ Cardinality(DOMAIN files) = n
      BY DEF IInv, Owned, n
    <3> QED
      BY <1>4, <3>1, <3>2, FS_AddElement
  <2>5. Range(listeners') \ {XAP} \subseteq PortFds'
    <3>1. Lowest \in PortFds'
      <4>1. n + 1 \in DOMAIN ports' /\ ports'[n + 1].fd = Lowest
        BY <1>3, <1>6, <1>10 DEF n
      <4> QED
        BY <4>1 DEF PortFds
    <3>2. PortFds \subseteq PortFds'
      <4> SUFFICES ASSUME NEW k \in 1 .. n
                   PROVE  ports[k].fd \in PortFds'
        BY <1>3 DEF PortFds, n
      <4>1. k \in DOMAIN ports' /\ ports'[k] = ports[k]
        BY <1>3, <1>10 DEF n
      <4> QED
        BY <4>1 DEF PortFds
    <3>3. Range(listeners) \ {XAP} \subseteq PortFds
      BY DEF IInv, Owned
    <3> QED
      BY <1>12, <3>1, <3>2, <3>3
  <2> QED
    BY <1>10, <2>2, <2>3, <2>4, <2>5 DEF Owned
<1>14. ClosedBeforeOpened'
  BY <1>2, NextCall DEF IInv
<1>15. TypeOK'
  <2>1. calls' \in Seq(CallType)
    BY <1>2, CallsTail
  <2>2. locks' \in [Devices -> Fds \cup {Other, None}]
    BY <1>1, <1>3, <1>4
  <2>3. DOMAIN files' \subseteq Fds /\ files' \in [DOMAIN files' -> Devices]
    BY <1>1, <1>3, <1>4, <1>5
  <2> QED
    BY <1>2, <1>10, <1>12, <2>1, <2>2, <2>3 DEF TypeOK, CallType, PortType
<1>16. WalkInv'
  BY <1>2, <1>11, <1>12 DEF WalkInv, WalkOnList
<1>17. BuffersOK'
  <2>1. \A k \in 1 .. n : BufferOK(ports[k])
    BY <1>3 DEF IInv, BuffersOK, n
  <2> QED
    BY <1>3, <1>6, <1>10, <2>1 DEF BuffersOK, n
<1> QED
  BY <1>2, <1>13, <1>14, <1>15, <1>16, <1>17 DEF IInv, DownIsEmpty

(* Every step keeps the invariant.                                          *)
LEMMA StepIInv == IInv /\ [Next]_vars => IInv'
<1> SUFFICES ASSUME IInv, [Next]_vars
             PROVE  IInv'
  OBVIOUS
<1>1. CASE \E R \in SUBSET Range(listeners) : select(R)
  BY <1>1, WalkSteps
<1>2. CASE Process
  <2>1. CASE readSockets_Next
    BY <2>1, WalkSteps
  <2>2. CASE \E chunk \in Chunks : xapSerialRx(chunk)
    BY <2>2, RxStep
  <2>3. CASE \E close, send, setup \in Names \cup {None}, param \in Params :
                handleXapPacket(close, send, setup, param)
    BY <2>3, PacketStep
  <2>4. CASE closeSerialPort_None \/ xapSerialSetup_Fails \/ xapSerialTx_None \/ sendSerialMsg_Return
    BY <2>4, QuietCalls
  <2>5. CASE closeSerialPort
    BY <2>5, CloseStep
  <2>6. CASE closeSerialPort_Crash
    BY <2>6, DownSteps
  <2>7. CASE xapSerialSetup
    BY <2>7, OpenStep
  <2>8. CASE xapSerialTx \/ sendSerialMsg_Again \/ sendSerialMsg_Written
    BY <2>8, SendSteps
  <2> QED
    BY <1>2, <2>1, <2>2, <2>3, <2>4, <2>5, <2>6, <2>7, <2>8 DEF Process
<1>3. CASE sendSerialMsg_Released
  BY <1>3, QuietCalls
<1>4. CASE Restart
  BY <1>4, DownSteps
<1>5. CASE \E d \in Devices : OtherProgram(d)
  BY <1>5, OtherStep
<1>6. CASE UNCHANGED vars
  BY <1>6 DEF vars, IInv, TypeOK, DownIsEmpty, WalkInv, WalkOnList, Owned, PortFds,
              ClosedBeforeOpened, BuffersOK, Calls
<1> QED
  BY <1>1, <1>2, <1>4, <1>5, <1>6, <1>3 DEF Next

LEMMA IInvHolds == Spec => []IInv
<1> QED
  BY InitIInv, StepIInv, PTL DEF Spec

-----------------------------------------------------------------------------
(***************************************************************************)
(* The theorems.                                                           *)
(***************************************************************************)

(* The variables of xap-serial keep their types, the counter of the         *)
(* attempts of sendSerialMsg() and the records of struct serialPort with    *)
(* them.  serial.c                                                          *)
THEOREM TypeCorrect == Spec => []TypeOK
<1>1. IInv => TypeOK
  BY DEF IInv
<1> QED
  BY <1>1, IInvHolds, PTL

(* The listener saved by the walk of readSockets() has not been freed when  *)
(* the walk comes to it, whatever ports the callback of the xAP socket has  *)
(* opened and closed.  rx.c: readSockets(), serial.c: closeSerialPort()     *)
THEOREM WalkStaysOnList == Spec => []WalkOnList
<1>1. IInv => WalkOnList
  BY DEF IInv, WalkInv
<1> QED
  BY <1>1, IInvHolds, PTL

(* Every open file belongs to one listed port, which holds the lock of its  *)
(* device and is the one its name leads to, and every listener of a port is *)
(* that of a listed one: for any number of names, devices and descriptors.  *)
(* serial.c: xapSerialSetup(), closeSerialPort()                            *)
THEOREM FilesHavePorts == Spec => []PortsOwnFiles
<1>1. IInv => PortsOwnFiles
  <2> SUFFICES ASSUME IInv
               PROVE  PortsOwnFiles
    OBVIOUS
  <2>1. \A k \in DOMAIN ports : findDevice(ports[k].name) = k
    <3> SUFFICES ASSUME NEW k \in DOMAIN ports
                 PROVE  findDevice(ports[k].name) = k
      OBVIOUS
    <3>1. TypeOK
      BY DEF IInv
    <3>2. \/ findDevice(ports[k].name) = 0 /\ \A j \in DOMAIN ports : ports[j].name # ports[k].name
          \/ /\ findDevice(ports[k].name) \in DOMAIN ports
             /\ ports[findDevice(ports[k].name)].name = ports[k].name
      BY <3>1, FindDevice
    <3> QED
      BY <3>2 DEF IInv, Owned
  <2> QED
    BY <2>1 DEF IInv, Owned, WalkInv, PortsOwnFiles, PortFds
<1> QED
  BY <1>1, IInvHolds, PTL

(* A character read from a port has a place in its buffer, and the buffer   *)
(* holds the line as far as it fits, for every first size, every limit and  *)
(* however the line is cut up by reads.  serial.c: xapSerialRx()            *)
THEOREM LinesFitBuffers == Spec => []BufferHoldsLine
<1>1. IInv => BufferHoldsLine
  BY DEF IInv, BuffersOK, BufferOK, BufferHoldsLine
<1> QED
  BY <1>1, IInvHolds, PTL
=============================================================================
