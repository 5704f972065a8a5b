--------------------------- MODULE IServerProofs ----------------------------
(***************************************************************************)
(* Proofs about IServer: for any number of clients, names and filters.     *)
(***************************************************************************)
EXTENDS IServer, FiniteSetTheorems, SequenceTheorems, TLAPS

\* The listeners main() registers.
Fixed == {"web", "policy", "server", "udp"}

\* A listener is in the list once; they are those of main() and of the clients.
Listed ==
    /\ IsInjective(connectionList)
    /\ Elements(connectionList) = clientList \cup Fixed
    /\ IsFiniteSet(clientList) /\ Len(connectionList) = 4 + Cardinality(clientList)

\* A filter's client has not been freed.
FiltersOwned == \A f \in Elements(filterList) : f.client \in clientList

\* The walk, which is at a client in use and not about to go on with it while
\* that client's callback runs.
Walk == WalkOnList /\ (pc = "client" => at \in clientList /\ tmp # at)

\* A client has a source filter for what it asked for; a cell that is not in use
\* has asked for nothing.
Sources ==
    /\ \A c \in Cells \ clientList : wanted[c] = {}
    /\ \A c \in clientList, n \in Names \cup {Empty} :
          n \in wanted[c] <=> [client |-> c, key |-> "source", value |-> n] \in Elements(filterList)

\* A client has a target filter once it has said who it is.
Targets ==
    \A c \in clientList :
        client[c].firstMessage <=> ~\E f \in Elements(filterList) : f.client = c /\ f.key = "target"

\* Of two such filters a client must not have both.
Same(f, g) ==
    /\ f.client = g.client /\ f.key = g.key
    /\ f.key = "target" \/ (f.key = "source" /\ f.value = g.value)

Unique(s) == \A i, j \in 1 .. Len(s) : Same(s[i], s[j]) => i = j

IInv == TypeOK /\ Listed /\ FiltersOwned /\ Walk /\ Sources /\ Targets /\ Unique(filterList)

-----------------------------------------------------------------------------
(***************************************************************************)
(* Numbers and lists.                                                      *)
(***************************************************************************)

(* A set of numbers that is not empty has a least element; what is shown by *)
(* induction below is shown with it.                                        *)
LEMMA LeastElement ==
    ASSUME NEW T \in SUBSET Nat, T # {}
    PROVE  \E n \in T : \A m \in T : n <= m
<1> DEFINE R == {ss \in Nat \X Nat : ss[1] < ss[2]}
<1>1. IsWellFoundedOn(R, Nat)
  BY NatLessThanWellFounded DEF OpToRel
<1>2. \A m, n \in Nat : (<<m, n>> \in R) <=> m < n
  OBVIOUS
<1> HIDE DEF R
<1>3. PICK n \in T : \A m \in T : ~(<<m, n>> \in R)
  BY <1>1, WFMin
<1>4. \A m \in T : n <= m
  <2> SUFFICES ASSUME NEW m \in T
               PROVE  n <= m
    OBVIOUS
  <2>1. m \in Nat /\ n \in Nat
    OBVIOUS
  <2>2. ~(m < n)
    BY <1>2, <1>3, <2>1, Zenon
  <2> QED
    BY <2>1, <2>2
<1> QED
  BY <1>4

(* What is left of a list without its i-th element.                         *)
LEMMA RemoveAtProperties ==
    ASSUME NEW S, NEW s \in Seq(S), NEW i \in 1 .. Len(s)
    PROVE  /\ RemoveAt(s, i) \in Seq(S)
           /\ Len(RemoveAt(s, i)) = Len(s) - 1
           /\ \A j \in 1 .. Len(s) - 1 : RemoveAt(s, i)[j] = IF j < i THEN s[j] ELSE s[j + 1]
<1> DEFINE a == SubSeq(s, 1, i - 1)
           b == SubSeq(s, i + 1, Len(s))
<1>1. a \in Seq(S) /\ Len(a) = i - 1 /\ \A j \in 1 .. i - 1 : a[j] = s[j]
  OBVIOUS
<1>2. b \in Seq(S) /\ Len(b) = Len(s) - i /\ \A j \in 1 .. Len(s) - i : b[j] = s[i + j]
  OBVIOUS
<1> HIDE DEF a, b
<1>3. RemoveAt(s, i) = a \o b
  BY DEF RemoveAt, a, b
<1>4. /\ a \o b \in Seq(S) /\ Len(a \o b) = Len(s) - 1
      /\ \A j \in 1 .. Len(s) - 1 : (a \o b)[j] = IF j <= i - 1 THEN a[j] ELSE b[j - (i - 1)]
  <2>1. /\ a \o b \in Seq(S) /\ Len(a \o b) = Len(a) + Len(b)
        /\ \A j \in 1 .. Len(a) + Len(b) : (a \o b)[j] = IF j <= Len(a) THEN a[j] ELSE b[j - Len(a)]
    BY <1>1, <1>2, ConcatProperties
  <2> QED
    BY <2>1, <1>1, <1>2
<1>5. \A j \in 1 .. Len(s) - 1 : (a \o b)[j] = IF j < i THEN s[j] ELSE s[j + 1]
  BY <1>1, <1>2, <1>4
<1> QED
  BY <1>3, <1>4, <1>5

\* h finds the elements of t, which are those of the first m of s that are not
\* in D, in s.
Embeds(h, t, s, D, m) ==
    /\ h \in [1 .. Len(t) -> 1 .. m]
    /\ \A j, k \in 1 .. Len(t) : h[j] = h[k] => j = k
    /\ \A j \in 1 .. Len(t) : t[j] = s[h[j]] /\ t[j] \notin D
    /\ \A i \in 1 .. m : s[i] \notin D => \E j \in 1 .. Len(t) : h[j] = i

(* One element more, which is deleted or kept.                              *)
LEMMA EmbedsNext ==
    ASSUME NEW S, NEW s \in Seq(S), NEW D, NEW m \in 1 .. Len(s), NEW t \in Seq(S),
           NEW h, Embeds(h, t, s, D, m - 1)
    PROVE  LET t2 == IF s[m] \in D THEN t ELSE Append(t, s[m])
           IN  t2 \in Seq(S) /\ \E h2 : Embeds(h2, t2, s, D, m)
<1> DEFINE n == Len(t)
<1>1. n \in Nat /\ m \in Nat /\ m - 1 \in Nat
  OBVIOUS
<1>2. CASE s[m] \in D
  <2>1. Embeds(h, t, s, D, m)
    BY <1>1, <1>2 DEF Embeds
  <2> QED
    BY <1>2, <2>1
<1>3. CASE s[m] \notin D
  <2> DEFINE t2 == Append(t, s[m])
             h2 == [j \in 1 .. n + 1 |-> IF j = n + 1 THEN m ELSE h[j]]
  <2>1. /\ t2 \in Seq(S) /\ Len(t2) = n + 1 /\ t2[n + 1] = s[m]
        /\ \A j \in 1 .. n : t2[j] = t[j]
    OBVIOUS
  <2>2. /\ \A j \in 1 .. n : h2[j] = h[j] /\ h[j] \in 1 .. m - 1 /\ h[j] # m
        /\ h2[n + 1] = m /\ DOMAIN h2 = 1 .. n + 1
    BY <1>1 DEF Embeds
  <2> HIDE DEF t2, h2
  <2>3. h2 \in [1 .. n + 1 -> 1 .. m]
    <3>1. \A j \in 1 .. n + 1 : h2[j] \in 1 .. m
      BY <1>1, <2>2
    <3> QED
      BY <3>1 DEF h2
  <2>4. \A j, k \in 1 .. n + 1 : h2[j] = h2[k] => j = k
    <3> SUFFICES ASSUME NEW j \in 1 .. n + 1, NEW k \in 1 .. n + 1, h2[j] = h2[k]
                 PROVE  j = k
      OBVIOUS
    <3>1. CASE j \in 1 .. n /\ k \in 1 .. n
      <4>1. h[j] = h[k]
        BY <2>2, <3>1
      <4> QED
        BY <3>1, <4>1 DEF Embeds
    <3>2. CASE j = n + 1 /\ k \in 1 .. n
      BY <2>2, <3>2
    <3>3. CASE j \in 1 .. n /\ k = n + 1
      BY <2>2, <3>3
    <3> QED
      BY <1>1, <3>1, <3>2, <3>3
  <2>5. \A j \in 1 .. n + 1 : t2[j] = s[h2[j]] /\ t2[j] \notin D
    <3> SUFFICES ASSUME NEW j \in 1 .. n + 1
                 PROVE  t2[j] = s[h2[j]] /\ t2[j] \notin D
      OBVIOUS
    <3>1. CASE j \in 1 .. n
      BY <2>1, <2>2, <3>1 DEF Embeds
    <3>2. CASE j = n + 1
      BY <1>3, <2>1, <2>2, <3>2
    <3> QED
      BY <1>1, <3>1, <3>2
  <2>6. \A i \in 1 .. m : s[i] \notin D => \E j \in 1 .. n + 1 : h2[j] = i
    <3> SUFFICES ASSUME NEW i \in 1 .. m, s[i] \notin D
                 PROVE  \E j \in 1 .. n + 1 : h2[j] = i
      OBVIOUS
    <3>1. CASE i = m
      BY <1>1, <2>2, <3>1
    <3>2. CASE i # m
      <4>1. i \in 1 .. m - 1
        BY <1>1, <3>2
      <4>2. PICK j \in 1 .. n : h[j] = i
        BY <4>1 DEF Embeds
      <4>3. j \in 1 .. n + 1 /\ h2[j] = i
        BY <1>1, <2>2, <4>2
      <4> QED
        BY <4>3
    <3> QED
      BY <3>1, <3>2
  <2>7. Embeds(h2, t2, s, D, m)
    BY <2>1, <2>3, <2>4, <2>5, <2>6 DEF Embeds
  <2> QED
    BY <1>3, <2>1, <2>7 DEF t2
<1> QED
  BY <1>2, <1>3

(* What is left of a list, in terms of the places in it: the function of    *)
(* Without exists, and each of its values is found in the list.             *)
LEMMA WithoutEmbeds ==
    ASSUME NEW S, NEW s \in Seq(S), NEW D
    PROVE  Without(s, D) \in Seq(S) /\ \E h : Embeds(h, Without(s, D), s, D, Len(s))
<1> DEFINE Defines(f, m) == f = [i \in 0 .. m |->
                IF i = 0 THEN <<>> ELSE IF s[i] \in D THEN f[i - 1] ELSE Append(f[i - 1], s[i])]
           n == Len(s)
<1>1. n \in Nat
  OBVIOUS
<1>2. ASSUME NEW m \in 0 .. n
      PROVE  \E f : Defines(f, m)
  <2> DEFINE T == {j \in 0 .. n : ~ \E f : Defines(f, j)}
  <2>1. SUFFICES ASSUME T # {}
                 PROVE  FALSE
    BY <1>1
  <2>2. T \in SUBSET Nat
    BY <1>1
  <2> HIDE DEF T
  <2>3. PICK j \in T : \A k \in T : j <= k
    BY <2>1, <2>2, LeastElement
  <2>4. j \in 0 .. n /\ ~ \E f : Defines(f, j)
    BY <2>3 DEF T
  <2>5. j # 0
    <3>1. Defines([i \in 0 .. 0 |-> <<>>], 0)
      OBVIOUS
    <3> QED
      BY <2>4, <3>1
  <2>6. j - 1 \in 0 .. n /\ j - 1 \notin T
    BY <1>1, <2>2, <2>3, <2>4, <2>5
  <2>7. PICK f : Defines(f, j - 1)
    BY <2>6 DEF T
  <2> DEFINE new == IF s[j] \in D THEN f[j - 1] ELSE Append(f[j - 1], s[j])
             g == [i \in 0 .. j |-> IF i = j THEN new ELSE f[i]]
  <2>8. \A i \in 0 .. j : g[i] = IF i = 0 THEN <<>> ELSE IF s[i] \in D THEN g[i - 1]
                                ELSE Append(g[i - 1], s[i])
    <3> SUFFICES ASSUME NEW i \in 0 .. j
                 PROVE  g[i] = IF i = 0 THEN <<>> ELSE IF s[i] \in D THEN g[i - 1]
                               ELSE Append(g[i - 1], s[i])
      OBVIOUS
    <3>1. CASE i = j
      <4>1. g[i] = new /\ g[i - 1] = f[j - 1]
        BY <2>4, <2>5, <3>1
      <4> QED
        BY <2>5, <3>1, <4>1
    <3>2. CASE i # j
      <4>1. i \in 0 .. j - 1 /\ g[i] = f[i]
        BY <2>4, <3>2
      <4>2. f[i] = IF i = 0 THEN <<>> ELSE IF s[i] \in D THEN f[i - 1] ELSE Append(f[i - 1], s[i])
        BY <2>7, <4>1
      <4>3. i # 0 => g[i - 1] = f[i - 1]
        BY <2>4, <4>1
      <4> QED
        BY <4>1, <4>2, <4>3
    <3> QED
      BY <3>1, <3>2
  <2>9. Defines(g, j)
    BY <2>8
  <2> QED
    BY <2>4, <2>9
<1>3. PICK f : Defines(f, n) /\ Without(s, D) = f[n]
  <2> DEFINE c == CHOOSE f : Defines(f, n)
  <2>1. Defines(c, n)
    <3>1. \E f : Defines(f, n)
      <4>1. n \in 0 .. n
        BY <1>1
      <4> HIDE DEF n, Defines
      <4> QED
        BY <1>2, <4>1
    <3> HIDE DEF Defines
    <3> QED
      BY <3>1, Zenon
  <2>2. Without(s, D) = c[n]
    BY DEF Without
  <2> QED
    BY <2>1, <2>2
<1>4. \A i \in 0 .. n : f[i] \in Seq(S) /\ \E h : Embeds(h, f[i], s, D, i)
  <2> DEFINE Good(i) == f[i] \in Seq(S) /\ \E h : Embeds(h, f[i], s, D, i)
             T == {j \in 0 .. n : ~ Good(j)}
  <2>1. SUFFICES ASSUME T # {}
                 PROVE  FALSE
    OBVIOUS
  <2>2. T \in SUBSET Nat
    BY <1>1
  <2> HIDE DEF T
  <2>3. PICK j \in T : \A k \in T : j <= k
    BY <2>1, <2>2, LeastElement
  <2>4. j \in 0 .. n /\ ~ Good(j)
    BY <2>3 DEF T
  <2>5. j # 0
    <3> SUFFICES ASSUME j = 0
                 PROVE  FALSE
      OBVIOUS
    <3>1. f[0] = <<>>
      BY <1>1, <1>3
    <3>2. Embeds(<<>>, <<>>, s, D, 0) /\ <<>> \in Seq(S)
      BY DEF Embeds
    <3> QED
      BY <2>4, <3>1, <3>2
  <2>6. j - 1 \in 0 .. n /\ j - 1 \notin T
    BY <1>1, <2>2, <2>3, <2>4, <2>5
  <2>7. Good(j - 1)
    BY <2>6 DEF T
  <2>8. f[j] = IF s[j] \in D THEN f[j - 1] ELSE Append(f[j - 1], s[j])
    BY <1>3, <2>4, <2>5
  <2>9. j \in 1 .. n
    BY <2>4, <2>5
  <2>10. PICK h : f[j - 1] \in Seq(S) /\ Embeds(h, f[j - 1], s, D, j - 1)
    BY <2>7
  <2> DEFINE t == f[j - 1]
  <2>11. t \in Seq(S) /\ Embeds(h, t, s, D, j - 1) /\ f[j] = IF s[j] \in D THEN t ELSE Append(t, s[j])
    BY <2>8, <2>10
  <2> HIDE DEF t
  <2>12. f[j] \in Seq(S) /\ \E h2 : Embeds(h2, f[j], s, D, j)
    BY <2>9, <2>11, EmbedsNext
  <2> QED
    BY <2>4, <2>12
<1> QED
  BY <1>1, <1>3, <1>4

-----------------------------------------------------------------------------
(***************************************************************************)
(* The walk and the frame counters.                                        *)
(***************************************************************************)

(* What follows a listener is another one of the list, or nothing.          *)
LEMMA AfterOnList ==
    ASSUME TypeOK, IsInjective(connectionList), NEW l \in Elements(connectionList)
    PROVE  After(l) \in Elements(connectionList) \cup {None} /\ After(l) # l
<1> DEFINE n == Len(connectionList)
<1>1. /\ connectionList \in Seq(Listeners) /\ n \in Nat /\ DOMAIN connectionList = 1 .. n
      /\ None \notin Listeners
  <2>1. connectionList \in Seq(Listeners)
    BY DEF TypeOK
  <2>2. None \notin Listeners
    BY CellAssumption DEF Listeners
  <2> QED
    BY <2>1, <2>2
<1>2. PICK i \in 1 .. n : connectionList[i] = l
  BY DEF Elements
<1>3. \A j \in 1 .. n : connectionList[j] = l => j = i
  BY <1>1, <1>2 DEF IsInjective
<1> DEFINE first == CHOOSE j \in 1 .. n : connectionList[j] = l
<1>4. After(l) = IF first = n THEN None ELSE connectionList[first + 1]
  BY DEF After
<1> HIDE DEF n
<1>5. After(l) = IF i = n THEN None ELSE connectionList[i + 1]
  <2>1. first \in 1 .. n /\ connectionList[first] = l
    BY <1>2
  <2> HIDE DEF first
  <2>2. first = i
    BY <1>3, <2>1
  <2> QED
    BY <1>4, <2>2
<1>6. CASE i = n
  <2>1. l \in Listeners
    BY <1>1, <1>2
  <2> QED
    BY <1>1, <1>5, <1>6, <2>1
<1>7. CASE i # n
  <2>1. i + 1 \in 1 .. n /\ i + 1 # i
    BY <1>1, <1>7
  <2>2. connectionList[i + 1] \in Elements(connectionList) /\ connectionList[i + 1] # l
    BY <1>3, <2>1 DEF Elements, n
  <2> QED
    BY <1>5, <1>7, <2>2
<1> QED
  BY <1>6, <1>7

(* A frame counter stays within its width.                                  *)
LEMMA FrameInRange ==
    ASSUME NEW a \in Nat
    PROVE  a % FRAMES \in 0 .. FRAMES - 1
<1> QED
  BY BoundAssumption

\* struct _client
ClientType == [connected : BOOLEAN, firstMessage : BOOLEAN, state : States,
               ident : Names \cup {Empty}, rxFrame : 0 .. FRAMES - 1, txFrame : 0 .. FRAMES - 1]

(* Sending to a client changes its frame counter and its mark.              *)
LEMMA SendTyped ==
    ASSUME NEW r \in ClientType, NEW n \in Nat, NEW ok \in BOOLEAN
    PROVE  /\ sendToClient(r, n, ok) \in ClientType
           /\ sendToClient(r, n, ok).firstMessage = r.firstMessage
<1>1. r.rxFrame + n \in Nat /\ (r.rxFrame + n) % FRAMES \in 0 .. FRAMES - 1
  <2>1. r.rxFrame \in Nat
    BY BoundAssumption DEF ClientType
  <2> QED
    BY <2>1, FrameInRange
<1>2. (r.connected /\ ok) \in BOOLEAN
  BY DEF ClientType
<1> QED
  BY <1>1, <1>2 DEF sendToClient, ClientType

LEMMA ZeroTyped == Zero \in ClientType /\ Zero.firstMessage = FALSE
<1> QED
  BY BoundAssumption DEF Zero, ClientType, States

LEMMA InitIInv == Init => IInv
<1> SUFFICES ASSUME Init
             PROVE  IInv
  OBVIOUS
<1>1. TypeOK
  <2>1. connectionList \in Seq(Listeners)
    BY DEF Init, Listeners
  <2>2. client \in [Cells -> ClientType]
    BY ZeroTyped DEF Init
  <2>3. txOwn \in [Cells -> 0 .. FRAMES - 1]
    BY BoundAssumption DEF Init
  <2> QED
    BY <2>1, <2>2, <2>3 DEF Init, TypeOK, ClientType
<1>2. Listed
  <2>1. DOMAIN connectionList = 1 .. 4 /\ Len(connectionList) = 4
    BY DEF Init
  <2>2. /\ connectionList[1] = "web" /\ connectionList[2] = "policy"
        /\ connectionList[3] = "server" /\ connectionList[4] = "udp"
    BY DEF Init
  <2>3. IsInjective(connectionList)
    BY <2>1, <2>2 DEF IsInjective
  <2>4. Elements(connectionList) = Fixed
    <3>1. 1 .. 4 = {1, 2, 3, 4}
      OBVIOUS
    <3> QED
      BY <2>1, <2>2, <3>1 DEF Elements, Fixed
  <2> QED
    BY <2>1, <2>3, <2>4, FS_EmptySet DEF Init, Listed
<1> QED
  BY <1>1, <1>2 DEF Init, IInv, FiltersOwned, Walk, WalkOnList, Sources, Targets, Unique, Elements

(* A step that leaves the clients and the filters alone.                    *)
LEMMA QuietKeeps ==
    ASSUME IInv, UNCHANGED <<clientVars, wanted>>
    PROVE  Listed' /\ FiltersOwned' /\ Sources' /\ Targets' /\ Unique(filterList)'
<1> QED
  BY DEF IInv, clientVars, Listed, FiltersOwned, Sources, Targets, Elements

(* The steps of the walk, and of callbacks that do not change the clients.  *)
LEMMA WalkSteps ==
    ASSUME IInv,
           \/ select \/ readSockets_Skip \/ readSockets_End \/ addClient_Fails
           \/ (\E h \in {"web", "policy"} : webServerHandler(h)) \/ webServerHandler_Read
           \/ incomingXapPacket
           \/ (\E c \in Cells : clientListener(c)) \/ clientListener_Return
    PROVE  IInv'
<1>1. UNCHANGED <<clientVars, wanted, txq, p, txOwn>>
  BY DEF select, readSockets_Skip, readSockets_End, addClient_Fails, webServerHandler,
         webServerHandler_Read, incomingXapPacket, clientListener, clientListener_Return, histVars
<1>2. /\ TypeOK /\ IsInjective(connectionList) /\ Elements(connectionList) = clientList \cup Fixed
      /\ Len(connectionList) \in Nat /\ Len(connectionList) > 0
      /\ Elements(connectionList) \subseteq Listeners /\ clientList \subseteq Cells
  <2>1. IsFiniteSet(clientList) /\ Len(connectionList) = 4 + Cardinality(clientList)
    BY DEF IInv, Listed
  <2>2. Cardinality(clientList) \in Nat
    BY <2>1, FS_CardinalityType
  <2> QED
    BY <2>1, <2>2 DEF IInv, Listed, TypeOK, Elements
<1>3. \A l \in Elements(connectionList) :
         After(l) \in Elements(connectionList) \cup {None} /\ After(l) # l
  BY <1>2, AfterOnList
<1>4. peer' \in [Cells -> {"open", "closing", "closed", "reset"}]
  <2>1. peer \in [Cells -> {"open", "closing", "closed", "reset"}]
    BY DEF IInv, TypeOK
  <2>2. CASE clientListener_Return
    BY <2>1, <2>2 DEF clientListener_Return
  <2>3. CASE ~clientListener_Return
    BY <2>1, <2>3 DEF select, readSockets_Skip, readSockets_End, addClient_Fails, webServerHandler,
         webServerHandler_Read, incomingXapPacket, clientListener
  <2> QED
    BY <2>2, <2>3
<1>5. Walk' /\ pc' \in {"select", "walk", "client", "blocked"}
      /\ at' \in Listeners \cup {None} /\ tmp' \in Listeners \cup {None}
  <2> USE <1>1, <1>2, <1>3, CellAssumption DEF IInv, TypeOK, Walk, WalkOnList, clientVars, Fixed
  <2>1. CASE select
    <3>1. connectionList[1] \in Elements(connectionList)
      BY DEF Elements
    <3> QED
      BY <2>1, <3>1 DEF select
  <2>2. CASE readSockets_Skip
    BY <2>2 DEF readSockets_Skip
  <2>3. CASE readSockets_End
    BY <2>3 DEF readSockets_End
  <2>4. CASE addClient_Fails
    BY <2>4 DEF addClient_Fails, CallAndReturn
  <2>5. CASE \E h \in {"web", "policy"} : webServerHandler(h)
    BY <2>5 DEF webServerHandler, CallBack
  <2>6. CASE webServerHandler_Read
    BY <2>6 DEF webServerHandler_Read, Return
  <2>7. CASE \E c \in Cells : clientListener(c)
    BY <2>7 DEF clientListener, CallBack
  <2>8. CASE clientListener_Return
    BY <2>8 DEF clientListener_Return, recv_Empty, Return
  <2>9. CASE incomingXapPacket
    BY <2>9 DEF incomingXapPacket, CallBack
  <2> QED
    BY <2>1, <2>2, <2>3, <2>4, <2>5, <2>6, <2>7, <2>8, <2>9
<1>6. TypeOK'
  BY <1>1, <1>4, <1>5 DEF IInv, TypeOK, clientVars
<1> QED
  BY <1>1, <1>5, <1>6, QuietKeeps DEF IInv

(* The peers, and the queue.                                                *)
LEMMA OutsideSteps ==
    ASSUME IInv, (\E c \in Cells : PeerCloses(c) \/ PeerDrained(c)) \/ txLoop_Pop
    PROVE  IInv'
<1>1. UNCHANGED <<mainVars, clientVars, histVars>>
  BY DEF PeerCloses, PeerDrained, txLoop_Pop
<1>2. /\ peer' \in [Cells -> {"open", "closing", "closed", "reset"}]
      /\ txq' \in Seq(Packet) /\ p' \in Packet \cup {None}
  <2>1. CASE \E c \in Cells : PeerCloses(c) \/ PeerDrained(c)
    BY <2>1 DEF IInv, TypeOK, PeerCloses, PeerDrained
  <2>2. CASE txLoop_Pop
    BY <2>2 DEF IInv, TypeOK, txLoop_Pop
  <2> QED
    BY <2>1, <2>2
<1>3. TypeOK'
  BY <1>1, <1>2 DEF IInv, TypeOK, mainVars, clientVars, histVars
<1>4. Walk'
  BY <1>1 DEF IInv, Walk, WalkOnList, mainVars, clientVars
<1> QED
  BY <1>1, <1>3, <1>4, QuietKeeps DEF IInv, histVars

-----------------------------------------------------------------------------
(***************************************************************************)
(* The filters.                                                            *)
(***************************************************************************)

(* One filter more, unlike those that are there.                            *)
LEMMA PrependFilter ==
    ASSUME NEW s \in Seq(Filter), Unique(s), NEW f \in Filter, \A g \in Elements(s) : ~Same(f, g)
    PROVE  /\ <<f>> \o s \in Seq(Filter) /\ Elements(<<f>> \o s) = Elements(s) \cup {f}
           /\ Unique(<<f>> \o s)
<1> DEFINE t == <<f>> \o s
           n == Len(s)
<1>1. <<f>> \in Seq(Filter) /\ Len(<<f>>) = 1 /\ <<f>>[1] = f /\ n \in Nat
  OBVIOUS
<1>2. /\ t \in Seq(Filter) /\ Len(t) = 1 + n
      /\ \A i \in 1 .. 1 + n : t[i] = IF i <= 1 THEN f ELSE s[i - 1]
  BY <1>1, ConcatProperties
<1> HIDE DEF t
<1>3. t[1] = f
  BY <1>1, <1>2
<1>4. \A i \in 1 .. n : i + 1 \in 1 .. 1 + n /\ t[i + 1] = s[i]
  BY <1>1, <1>2
<1>5. \A i \in 1 .. 1 + n : i = 1 \/ (i - 1 \in 1 .. n /\ t[i] = s[i - 1] /\ s[i - 1] \in Elements(s))
  BY <1>1, <1>2 DEF Elements
<1>6. Elements(t) = Elements(s) \cup {f}
  <2>1. Elements(t) \subseteq Elements(s) \cup {f}
    <3>1. \A i \in 1 .. 1 + n : t[i] \in Elements(s) \cup {f}
      BY <1>3, <1>5
    <3> QED
      BY <1>2, <3>1 DEF Elements
  <2>2. f \in Elements(t)
    BY <1>1, <1>2, <1>3 DEF Elements
  <2>3. \A i \in 1 .. n : s[i] \in Elements(t)
    BY <1>2, <1>4 DEF Elements
  <2>4. Elements(s) \subseteq Elements(t)
    BY <2>3 DEF Elements
  <2> QED
    BY <2>1, <2>2, <2>4
<1>7. Unique(t)
  <2> SUFFICES ASSUME NEW i \in 1 .. 1 + n, NEW j \in 1 .. 1 + n, Same(t[i], t[j])
               PROVE  i = j
    BY <1>2 DEF Unique
  <2>1. CASE i = 1 \/ j = 1
    <3>1. \A g \in Elements(s) : ~Same(f, g) /\ ~Same(g, f)
      BY DEF Same
    <3> QED
      BY <1>3, <1>5, <2>1, <3>1
  <2>2. CASE i # 1 /\ j # 1
    <3>1. i - 1 \in 1 .. n /\ j - 1 \in 1 .. n /\ Same(s[i - 1], s[j - 1])
      BY <1>5, <2>2
    <3>2. i - 1 = j - 1
      BY <3>1 DEF Unique
    <3> QED
      BY <1>1, <3>2
  <2> QED
    BY <2>1, <2>2
<1> QED
  BY <1>2, <1>6, <1>7 DEF t

(* Filters that are deleted take no others with them.                       *)
LEMMA WithoutFilters ==
    ASSUME NEW s \in Seq(Filter), Unique(s), NEW D
    PROVE  /\ Without(s, D) \in Seq(Filter) /\ Elements(Without(s, D)) = Elements(s) \ D
           /\ Unique(Without(s, D))
<1> DEFINE t == Without(s, D)
<1>1. PICK h : t \in Seq(Filter) /\ Embeds(h, t, s, D, Len(s))
  BY WithoutEmbeds
<1> HIDE DEF t
<1>2. \A j \in 1 .. Len(t) : h[j] \in 1 .. Len(s) /\ t[j] = s[h[j]] /\ t[j] \notin D
  BY <1>1 DEF Embeds
<1>3. Elements(t) \subseteq Elements(s) \ D
  BY <1>2 DEF Elements
<1>4. \A i \in 1 .. Len(s) : s[i] \notin D => s[i] \in Elements(t)
  <2> SUFFICES ASSUME NEW i \in 1 .. Len(s), s[i] \notin D
               PROVE  s[i] \in Elements(t)
    OBVIOUS
  <2>1. PICK j \in 1 .. Len(t) : h[j] = i
    BY <1>1 DEF Embeds
  <2> QED
    BY <1>2, <2>1 DEF Elements
<1>5. Elements(s) \ D \subseteq Elements(t)
  BY <1>4 DEF Elements
<1>6. Unique(t)
  <2> SUFFICES ASSUME NEW j \in 1 .. Len(t), NEW k \in 1 .. Len(t), Same(t[j], t[k])
               PROVE  j = k
    BY DEF Unique
  <2>1. h[j] = h[k]
    BY <1>2 DEF Unique
  <2> QED
    BY <1>1, <2>1 DEF Embeds
<1> QED
  BY <1>1, <1>3, <1>5, <1>6 DEF t

(* A step that leaves the filters alone and marks no first message.         *)
LEMMA ClientsKeep ==
    ASSUME IInv, UNCHANGED <<connectionList, clientList, filterList, wanted>>,
           \A c \in clientList : client'[c].firstMessage = client[c].firstMessage
    PROVE  Listed' /\ FiltersOwned' /\ Sources' /\ Targets' /\ Unique(filterList)'
<1> QED
  BY DEF IInv, Listed, FiltersOwned, Sources, Targets, Elements

(* The transmit thread counts a frame.                                      *)
LEMMA SendStep ==
    ASSUME IInv, txLoop_Send
    PROVE  IInv'
<1>1. /\ p \in Packet /\ p.client \in Cells /\ client \in [Cells -> ClientType]
      /\ txOwn \in [Cells -> 0 .. FRAMES - 1]
  BY DEF IInv, TypeOK, txLoop_Send, Packet, ClientType
<1>2. \A n \in 0 .. FRAMES - 1 : Bump(n) \in 0 .. FRAMES - 1
  BY BoundAssumption, FrameInRange DEF Bump
<1>3. client' \in [Cells -> ClientType] /\ \A c \in Cells : client'[c].firstMessage = client[c].firstMessage
  <2> DEFINE new == IF p.client \in clientList THEN Bump(client[p.client].txFrame)
                    ELSE client[p.client].txFrame
  <2>1. client[p.client] \in ClientType
    BY <1>1
  <2>2. new \in 0 .. FRAMES - 1
    BY <1>2, <2>1 DEF ClientType
  <2>3. client' = [client EXCEPT ![p.client] = [@ EXCEPT !.txFrame = new]]
    BY DEF txLoop_Send
  <2> HIDE DEF new
  <2>4. /\ [client[p.client] EXCEPT !.txFrame = new] \in ClientType
        /\ [client[p.client] EXCEPT !.txFrame = new].firstMessage = client[p.client].firstMessage
    BY <2>1, <2>2 DEF ClientType
  <2> QED
    BY <1>1, <2>3, <2>4
<1>4. txOwn' \in [Cells -> 0 .. FRAMES - 1]
  BY <1>1, <1>2 DEF txLoop_Send
<1>5. UNCHANGED <<mainVars, connectionList, clientList, filterList, peer, txq, wanted>> /\ p' = None
  BY DEF txLoop_Send
<1>6. TypeOK'
  BY <1>3, <1>4, <1>5 DEF IInv, TypeOK, ClientType, mainVars
<1>7. Walk'
  BY <1>5 DEF IInv, Walk, WalkOnList, mainVars
<1>8. clientList \subseteq Cells
  BY DEF IInv, TypeOK
<1> QED
  BY <1>3, <1>5, <1>6, <1>7, <1>8, ClientsKeep DEF IInv

(* A packet from the network has gone to the clients.                       *)
LEMMA PacketStep ==
    ASSUME IInv, NEW m, NEW failed \in SUBSET clientList, incomingXapPacket_Sent(m, failed)
    PROVE  IInv'
<1> DEFINE Times(c) == Cardinality({i \in 1 .. Len(filterList) :
                          /\ filterList[i].client = c
                          /\ <<filterList[i].key, filterList[i].value>> \in m})
<1>1. /\ TypeOK /\ client \in [Cells -> ClientType] /\ filterList \in Seq(Filter)
      /\ clientList \subseteq Cells /\ pc = "blocked" /\ at = "udp"
  BY DEF IInv, TypeOK, ClientType, incomingXapPacket_Sent
<1>2. \A c \in Cells : Times(c) \in Nat
  <2> SUFFICES ASSUME NEW c \in Cells
               PROVE  Times(c) \in Nat
    OBVIOUS
  <2>1. Len(filterList) \in Nat
    BY <1>1
  <2>2. IsFiniteSet(1 .. Len(filterList))
    BY <2>1, FS_Interval
  <2> QED
    BY <2>2, FS_Subset, FS_CardinalityType
<1>3. client' = [c \in Cells |-> sendToClient(client[c], Times(c), c \notin failed)]
  BY DEF incomingXapPacket_Sent
<1> HIDE DEF Times
<1>4. client' \in [Cells -> ClientType] /\ \A c \in Cells : client'[c].firstMessage = client[c].firstMessage
  <2>1. \A c \in Cells : /\ sendToClient(client[c], Times(c), c \notin failed) \in ClientType
                         /\ sendToClient(client[c], Times(c), c \notin failed).firstMessage
                                = client[c].firstMessage
    BY <1>1, <1>2, SendTyped
  <2> QED
    BY <1>3, <2>1
<1>5. /\ UNCHANGED <<connectionList, clientList, filterList, peer, txq, p, wanted, txOwn>>
      /\ pc' = "walk" /\ at' = tmp /\ tmp' = None
  BY DEF incomingXapPacket_Sent, Return
<1>7. at' \in Elements(connectionList) \cup {None} /\ Elements(connectionList) \subseteq Listeners
  <2>1. tmp \in Elements(connectionList) \cup {None}
    BY <1>1 DEF IInv, Walk, WalkOnList
  <2>2. Elements(connectionList) \subseteq Listeners
    BY <1>1 DEF TypeOK, Elements
  <2> QED
    BY <1>5, <2>1, <2>2
<1>8. TypeOK'
  BY <1>4, <1>5, <1>7 DEF IInv, TypeOK, ClientType
<1>9. Walk'
  BY <1>1, <1>5, <1>7 DEF IInv, Walk, WalkOnList, Elements
<1> QED
  BY <1>1, <1>4, <1>5, <1>8, <1>9, ClientsKeep DEF IInv

-----------------------------------------------------------------------------
(***************************************************************************)
(* What clients send.                                                      *)
(***************************************************************************)

(* The parser runs for a client in use, and the walk stays where it is.     *)
LEMMA Parsing ==
    ASSUME IInv, yylex
    PROVE  /\ at \in clientList /\ at \in Cells /\ clientList \subseteq Cells
           /\ client \in [Cells -> ClientType] /\ client[at] \in ClientType
           /\ filterList \in Seq(Filter) /\ Unique(filterList)
           /\ wanted \in [Cells -> SUBSET (Names \cup {Empty})]
           /\ Listed' /\ Walk' /\ UNCHANGED <<mainVars, connectionList, clientList, peer, p, txOwn>>
<1>1. UNCHANGED <<mainVars, connectionList, clientList, peer, p, txOwn>> /\ pc = "client"
  BY DEF yylex
<1>2. /\ at \in clientList /\ clientList \subseteq Cells /\ client \in [Cells -> ClientType]
      /\ filterList \in Seq(Filter) /\ Unique(filterList)
      /\ wanted \in [Cells -> SUBSET (Names \cup {Empty})]
  BY <1>1 DEF IInv, Walk, TypeOK, ClientType
<1>3. Listed' /\ Walk'
  BY <1>1 DEF IInv, Listed, Walk, WalkOnList, Elements, mainVars
<1> QED
  BY <1>1, <1>2, <1>3

(* The variables have their types after a step of the parser, if those it   *)
(* changes have.                                                            *)
LEMMA ParsingTyped ==
    ASSUME IInv, UNCHANGED <<mainVars, connectionList, clientList, peer, p, txOwn>>,
           client' \in [Cells -> ClientType], filterList' \in Seq(Filter), txq' \in Seq(Packet),
           wanted' \in [Cells -> SUBSET (Names \cup {Empty})]
    PROVE  TypeOK'
<1> QED
  BY DEF IInv, TypeOK, ClientType, mainVars

LEMMA WaitingTyped ==
    ASSUME NEW r \in ClientType
    PROVE  /\ Waiting(r) \in ClientType /\ Waiting(r).firstMessage = r.firstMessage
           /\ [Waiting(r) EXCEPT !.firstMessage = FALSE] \in ClientType
           /\ [Waiting(r) EXCEPT !.firstMessage = FALSE].firstMessage = FALSE
<1> QED
  BY DEF Waiting, ClientType, States

(* Text, tags and a login leave the filters alone.                          *)
LEMMA TextSteps ==
    ASSUME IInv,
           \/ \E n \in Names : parseText(n)
           \/ \E t \in Tokens : parseTag(t)
           \/ \E t \in Tokens, authorized, ok \in BOOLEAN : login(t, authorized, ok)
    PROVE  IInv'
<1>1. yylex /\ UNCHANGED <<filterList, txq, wanted>>
  BY DEF parseText, parseTag, login, Complete
<1> DEFINE r == client[at]
<1>2. PICK new \in ClientType : client' = [client EXCEPT ![at] = new] /\ new.firstMessage = r.firstMessage
  <2>1. r \in ClientType /\ Garbled \in Names
    BY <1>1, Parsing, NameAssumption
  <2>2. CASE \E n \in Names : parseText(n)
    <3>1. PICK n \in Names : parseText(n)
      BY <2>2
    <3> DEFINE i == IF r.state \in Collecting THEN Concat(r.ident, n) ELSE r.ident
               st == IF r.state = "CMD" THEN "WAIT_FOR_MESSAGE" ELSE r.state
    <3>2. i \in Names \cup {Empty} /\ st \in States
      BY <2>1 DEF ClientType, Concat, States
    <3>3. client' = [client EXCEPT ![at] = [@ EXCEPT !.ident = i, !.state = st]]
      BY <3>1 DEF parseText
    <3> HIDE DEF i, st
    <3>4. /\ [r EXCEPT !.ident = i, !.state = st] \in ClientType
          /\ [r EXCEPT !.ident = i, !.state = st].firstMessage = r.firstMessage
      BY <2>1, <3>2 DEF ClientType
    <3> QED
      BY <3>3, <3>4
  <2>3. CASE \E t \in Tokens : parseTag(t)
    <3>1. PICK t \in Tokens : parseTag(t)
      BY <2>3
    <3> DEFINE i == IF r.state = "WAIT_FOR_MESSAGE" /\ t \in DOMAIN Opens THEN Empty ELSE r.ident
               st == IF r.state = "WAIT_FOR_MESSAGE" /\ t \in DOMAIN Opens THEN Opens[t]
                     ELSE IF r.state = "CMD" /\ t \in DOMAIN Selects THEN Selects[t]
                     ELSE "WAIT_FOR_MESSAGE"
    <3>2. i \in Names \cup {Empty}
      BY <2>1 DEF ClientType
    <3>3. st \in States
      <4>1. t \in DOMAIN Opens => Opens[t] \in States
        BY DEF Opens, States
      <4>2. t \in DOMAIN Selects => Selects[t] \in States
        BY DEF Selects, States
      <4> QED
        BY <4>1, <4>2 DEF States
    <3>4. client' = [client EXCEPT ![at] = [@ EXCEPT !.ident = i, !.state = st]]
      BY <3>1 DEF parseTag
    <3> HIDE DEF i, st
    <3>5. /\ [r EXCEPT !.ident = i, !.state = st] \in ClientType
          /\ [r EXCEPT !.ident = i, !.state = st].firstMessage = r.firstMessage
      BY <2>1, <3>2, <3>3 DEF ClientType
    <3> QED
      BY <3>4, <3>5
  <2>4. CASE \E t \in Tokens, authorized, ok \in BOOLEAN : login(t, authorized, ok)
    <3>1. PICK t \in Tokens, authorized \in BOOLEAN, ok \in BOOLEAN : login(t, authorized, ok)
      BY <2>4
    <3> DEFINE q == IF authorized THEN sendToClient(r, 1, ok) ELSE r
    <3>2. q \in ClientType /\ q.firstMessage = r.firstMessage
      BY <2>1, SendTyped
    <3>3. client' = [client EXCEPT ![at] = Waiting(q)]
      BY <3>1 DEF login
    <3> HIDE DEF q
    <3> QED
      BY <3>2, <3>3, WaitingTyped
  <2> QED
    BY <2>2, <2>3, <2>4
<1>3. client' \in [Cells -> ClientType] /\ \A c \in clientList : client'[c].firstMessage = client[c].firstMessage
  BY <1>1, <1>2, Parsing
<1>4. TypeOK'
  <2>1. filterList' \in Seq(Filter) /\ txq' \in Seq(Packet) /\ wanted' \in [Cells -> SUBSET (Names \cup {Empty})]
    BY <1>1 DEF IInv, TypeOK
  <2> QED
    BY <1>1, <1>3, <2>1, Parsing, ParsingTyped
<1> QED
  BY <1>1, <1>3, <1>4, Parsing, ClientsKeep DEF IInv

(* broadcastPacket() puts packets of the client on the queue.               *)
LEMMA QueueTyped ==
    ASSUME TypeOK, NEW c \in Cells, NEW n \in Nat, broadcastPacket(c, n)
    PROVE  txq' \in Seq(Packet)
<1> DEFINE new == [i \in 1 .. n |-> [client |-> c, own |-> TRUE]]
<1>1. new \in Seq(Packet)
  <2>1. [client |-> c, own |-> TRUE] \in Packet
    BY DEF Packet
  <2> QED
    BY <2>1
<1> HIDE DEF new
<1>2. txq \in Seq(Packet) /\ txq' = txq \o new
  BY DEF TypeOK, broadcastPacket, new
<1> QED
  BY <1>1, <1>2

(* A filter is added unless the client has a source filter of that value.   *)
LEMMA AddFilterStep ==
    ASSUME IInv, NEW t \in Tokens, NEW key \in {"source", "class"}, addFilter(t, key)
    PROVE  IInv'
<1> DEFINE n == client[at].ident
           f == [client |-> at, key |-> key, value |-> n]
<1>1. yylex
  BY DEF addFilter, Complete
<1>2. /\ at \in clientList /\ at \in Cells /\ clientList \subseteq Cells
      /\ client \in [Cells -> ClientType] /\ client[at] \in ClientType
      /\ filterList \in Seq(Filter) /\ Unique(filterList)
      /\ wanted \in [Cells -> SUBSET (Names \cup {Empty})]
      /\ Listed' /\ Walk' /\ UNCHANGED <<mainVars, connectionList, clientList, peer, p, txOwn>>
  BY <1>1, Parsing
<1>3. n \in Names \cup {Empty}
  BY <1>2 DEF ClientType
<1>4. /\ filterList' = IF uniqueFilter(n, at) THEN <<f>> \o filterList ELSE filterList
      /\ client' = [client EXCEPT ![at] = Waiting(@)]
      /\ wanted' = IF key = "source" THEN [wanted EXCEPT ![at] = @ \cup {n}] ELSE wanted
  BY DEF addFilter, AddFilterAction
<1>5. txq' \in Seq(Packet)
  <2>1. sendBscQuery(key, n) \in Nat /\ broadcastPacket(at, sendBscQuery(key, n)) /\ TypeOK
    BY DEF addFilter, sendBscQuery, IInv
  <2> QED
    BY <1>2, <2>1, QueueTyped
<1>6. client' \in [Cells -> ClientType] /\ \A c \in Cells : client'[c].firstMessage = client[c].firstMessage
  BY <1>2, <1>4, WaitingTyped
<1>7. wanted' \in [Cells -> SUBSET (Names \cup {Empty})]
  BY <1>2, <1>3, <1>4
<1>8. f \in Filter /\ f.client = at /\ f.key = key /\ f.value = n
  BY <1>2, <1>3 DEF Filter
<1> DEFINE src == [client |-> at, key |-> "source", value |-> n]
<1>9. uniqueFilter(n, at) <=> src \notin Elements(filterList)
  <2>1. \A i \in 1 .. Len(filterList) :
           (filterList[i].client = at /\ filterList[i].key = "source" /\ filterList[i].value = n)
               <=> filterList[i] = src
    <3>1. \A i \in 1 .. Len(filterList) : filterList[i] \in Filter
      BY <1>2
    <3> QED
      BY <3>1 DEF Filter
  <2> QED
    BY <2>1 DEF uniqueFilter, Elements
<1> HIDE DEF n
<1>10. \/ /\ filterList' \in Seq(Filter) /\ Elements(filterList') = Elements(filterList) \cup {f}
          /\ Unique(filterList') /\ src \notin Elements(filterList)
       \/ filterList' = filterList /\ src \in Elements(filterList)
  <2>1. CASE src \notin Elements(filterList)
    <3>1. \A g \in Elements(filterList) : g \in Filter
      BY <1>2 DEF Elements
    <3>2. \A g \in Elements(filterList) : ~Same(f, g)
      BY <1>8, <2>1, <3>1 DEF Same, Filter
    <3> QED
      BY <1>2, <1>4, <1>8, <1>9, <2>1, <3>2, PrependFilter
  <2>2. CASE src \in Elements(filterList)
    BY <1>4, <1>9, <2>2
  <2> QED
    BY <2>1, <2>2
<1>11. filterList' \in Seq(Filter) /\ Unique(filterList)'
  BY <1>2, <1>10
<1>12. FiltersOwned'
  BY <1>2, <1>8, <1>10 DEF IInv, FiltersOwned
<1>13. Sources'
  <2>1. \A c \in Cells \ clientList : wanted'[c] = {}
    BY <1>2, <1>4 DEF IInv, Sources
  <2>2. ASSUME NEW c \in clientList, NEW v \in Names \cup {Empty}
        PROVE  v \in wanted'[c] <=> [client |-> c, key |-> "source", value |-> v] \in Elements(filterList')
    <3> DEFINE g == [client |-> c, key |-> "source", value |-> v]
    <3>1. v \in wanted[c] <=> g \in Elements(filterList)
      BY DEF IInv, Sources
    <3>2. (g = f) <=> (c = at /\ key = "source" /\ v = n)
      OBVIOUS
    <3>3. (g = src) <=> (c = at /\ v = n)
      OBVIOUS
    <3>4. v \in wanted'[c] <=> v \in wanted[c] \/ (key = "source" /\ c = at /\ v = n)
      BY <1>2, <1>4
    <3> HIDE DEF g, f, src
    <3> QED
      BY <1>10, <3>1, <3>2, <3>3, <3>4 DEF g
  <2> QED
    BY <1>2, <2>1, <2>2 DEF Sources
<1>14. Targets'
  <2>1. \A g \in Elements(filterList') : g.key = "target" => g \in Elements(filterList)
    BY <1>8, <1>10
  <2>2. Elements(filterList) \subseteq Elements(filterList')
    BY <1>10
  <2> QED
    BY <1>2, <1>6, <2>1, <2>2 DEF IInv, Targets
<1>15. TypeOK'
  BY <1>2, <1>5, <1>6, <1>7, <1>11, ParsingTyped
<1> QED
  BY <1>2, <1>11, <1>12, <1>13, <1>14, <1>15 DEF IInv

(* A filter is deleted, and it alone.                                       *)
LEMMA DelFilterStep ==
    ASSUME IInv, NEW t \in Tokens, NEW key \in {"source", "class"}, delFilter(t, key)
    PROVE  IInv'
<1> DEFINE n == client[at].ident
           f == [client |-> at, key |-> key, value |-> n]
<1>1. yylex
  BY DEF delFilter, Complete
<1>2. /\ at \in clientList /\ at \in Cells /\ clientList \subseteq Cells
      /\ client \in [Cells -> ClientType] /\ client[at] \in ClientType
      /\ filterList \in Seq(Filter) /\ Unique(filterList)
      /\ wanted \in [Cells -> SUBSET (Names \cup {Empty})]
      /\ Listed' /\ Walk' /\ UNCHANGED <<mainVars, connectionList, clientList, peer, p, txOwn>>
  BY <1>1, Parsing
<1>3. /\ filterList' = Without(filterList, {f})
      /\ client' = [client EXCEPT ![at] = Waiting(@)]
      /\ wanted' = IF key = "source" THEN [wanted EXCEPT ![at] = @ \ {n}] ELSE wanted
      /\ txq' = txq
  BY DEF delFilter
<1>4. txq' \in Seq(Packet)
  BY <1>3 DEF IInv, TypeOK
<1>5. client' \in [Cells -> ClientType] /\ \A c \in Cells : client'[c].firstMessage = client[c].firstMessage
  BY <1>2, <1>3, WaitingTyped
<1>6. wanted' \in [Cells -> SUBSET (Names \cup {Empty})]
  BY <1>2, <1>3
<1>7. f.key # "target"
  OBVIOUS
<1> HIDE DEF n
<1>8. /\ filterList' \in Seq(Filter) /\ Elements(filterList') = Elements(filterList) \ {f}
      /\ Unique(filterList')
  BY <1>2, <1>3, WithoutFilters
<1>9. FiltersOwned'
  BY <1>2, <1>8 DEF IInv, FiltersOwned
<1>10. Sources'
  <2>1. \A c \in Cells \ clientList : wanted'[c] = {}
    BY <1>2, <1>3 DEF IInv, Sources
  <2>2. ASSUME NEW c \in clientList, NEW v \in Names \cup {Empty}
        PROVE  v \in wanted'[c] <=> [client |-> c, key |-> "source", value |-> v] \in Elements(filterList')
    <3> DEFINE g == [client |-> c, key |-> "source", value |-> v]
    <3>1. v \in wanted[c] <=> g \in Elements(filterList)
      BY DEF IInv, Sources
    <3>2. (g = f) <=> (c = at /\ key = "source" /\ v = n)
      OBVIOUS
    <3>3. v \in wanted'[c] <=> v \in wanted[c] /\ ~(key = "source" /\ c = at /\ v = n)
      BY <1>2, <1>3
    <3> HIDE DEF g, f
    <3> QED
      BY <1>8, <3>1, <3>2, <3>3 DEF g
  <2> QED
    BY <1>2, <2>1, <2>2 DEF Sources
<1>11. Targets'
  <2>1. \A g \in Elements(filterList) : g.key = "target" => g \in Elements(filterList')
    BY <1>7, <1>8
  <2>2. Elements(filterList') \subseteq Elements(filterList)
    BY <1>8
  <2> QED
    BY <1>2, <1>5, <2>1, <2>2 DEF IInv, Targets
<1>12. TypeOK'
  BY <1>2, <1>4, <1>5, <1>6, <1>8, ParsingTyped
<1> QED
  BY <1>2, <1>8, <1>9, <1>10, <1>11, <1>12 DEF IInv

(* The first message with a source registers the client as a target.        *)
LEMMA XapMessageStep ==
    ASSUME IInv, NEW t \in Tokens, xapMessage(t)
    PROVE  IInv'
<1> DEFINE n == client[at].ident
           f == [client |-> at, key |-> "target", value |-> n]
           first == client[at].firstMessage /\ n \in Sourced
           r == Waiting([client[at] EXCEPT !.firstMessage = client[at].firstMessage /\ ~first])
<1>1. yylex
  BY DEF xapMessage, Complete
<1>2. /\ at \in clientList /\ at \in Cells /\ clientList \subseteq Cells
      /\ client \in [Cells -> ClientType] /\ client[at] \in ClientType
      /\ filterList \in Seq(Filter) /\ Unique(filterList)
      /\ wanted \in [Cells -> SUBSET (Names \cup {Empty})]
      /\ Listed' /\ Walk' /\ UNCHANGED <<mainVars, connectionList, clientList, peer, p, txOwn>>
  BY <1>1, Parsing
<1>3. n \in Names \cup {Empty}
  BY <1>2 DEF ClientType
<1>4. /\ filterList' = IF first THEN <<f>> \o filterList ELSE filterList
      /\ client' = [client EXCEPT ![at] = r]
      /\ wanted' = wanted
  <2>1. firstClientMessage(at, n) /\ wanted' = wanted
    BY DEF xapMessage
  <2>2. filterList' = IF first THEN <<f>> \o filterList ELSE filterList
    BY <2>1 DEF firstClientMessage, AddFilterAction
  <2>3. client' = [client EXCEPT ![at] = r]
    BY <2>1, Zenon DEF firstClientMessage
  <2> QED
    BY <2>1, <2>2, <2>3
<1>5. txq' \in Seq(Packet)
  <2>1. broadcastPacket(at, 1) /\ TypeOK
    BY DEF xapMessage, IInv
  <2> QED
    BY <1>2, <2>1, QueueTyped
<1>6. r \in ClientType /\ r.firstMessage = (client[at].firstMessage /\ ~first)
  BY <1>2 DEF ClientType, Waiting, States
<1>7. f \in Filter /\ f.client = at /\ f.key = "target"
  BY <1>2, <1>3 DEF Filter
<1>8. CASE first
  <2>1. client[at].firstMessage /\ ~r.firstMessage
    BY <1>6, <1>8
  <2> HIDE DEF n, f, r, first
  <2>2. \A g \in Elements(filterList) : ~Same(f, g)
    BY <1>2, <1>7, <2>1 DEF IInv, Targets, Same
  <2>3. /\ filterList' \in Seq(Filter) /\ Elements(filterList') = Elements(filterList) \cup {f}
        /\ Unique(filterList')
    BY <1>2, <1>4, <1>7, <1>8, <2>2, PrependFilter
  <2>4. FiltersOwned'
    BY <1>2, <1>7, <2>3 DEF IInv, FiltersOwned
  <2>5. Sources'
    <3>1. \A c, v : [client |-> c, key |-> "source", value |-> v] # f
      BY <1>7
    <3> QED
      BY <1>2, <1>4, <2>3, <3>1 DEF IInv, Sources
  <2>6. Targets'
    BY <1>2, <1>4, <1>7, <2>1, <2>3 DEF IInv, Targets
  <2>7. client' \in [Cells -> ClientType]
    BY <1>2, <1>4, <1>6
  <2>8. TypeOK'
    BY <1>2, <1>4, <1>5, <2>3, <2>7, ParsingTyped
  <2> QED
    BY <1>2, <2>3, <2>4, <2>5, <2>6, <2>8 DEF IInv
<1>9. CASE ~first
  <2>1. r.firstMessage = client[at].firstMessage
    BY <1>2, <1>6, <1>9 DEF ClientType
  <2> HIDE DEF n, f, r, first
  <2>2. filterList' = filterList
    BY <1>4, <1>9
  <2>3. client' \in [Cells -> ClientType] /\ \A c \in clientList : client'[c].firstMessage = client[c].firstMessage
    BY <1>2, <1>4, <1>6, <2>1
  <2>4. TypeOK'
    BY <1>2, <1>4, <1>5, <2>2, <2>3, ParsingTyped
  <2> QED
    BY <1>2, <1>4, <2>2, <2>3, <2>4, ClientsKeep DEF IInv
<1> QED
  BY <1>8, <1>9

-----------------------------------------------------------------------------
(***************************************************************************)
(* Clients come and go.                                                    *)
(***************************************************************************)

(* A client that comes is put in front of the listeners.                    *)
LEMMA AddClientStep ==
    ASSUME IInv, NEW c \in Cells, addClient(c)
    PROVE  IInv'
<1> DEFINE r == sendToClient([Zero EXCEPT !.connected = TRUE, !.firstMessage = TRUE], 1, TRUE)
           n == Len(connectionList)
<1>1. /\ pc = "walk" /\ at = "server" /\ at' = After("server") /\ pc' = pc /\ tmp' = tmp
      /\ c \notin clientList /\ clientList' = clientList \cup {c}
      /\ connectionList' = <<c>> \o connectionList
      /\ client' = [client EXCEPT ![c] = r]
      /\ UNCHANGED <<filterList, peer, txq, p, wanted, txOwn>>
  BY DEF addClient, CallAndReturn, histVars
<1>2. /\ TypeOK /\ client \in [Cells -> ClientType] /\ clientList \subseteq Cells
      /\ connectionList \in Seq(Listeners) /\ n \in Nat
      /\ IsInjective(connectionList) /\ Elements(connectionList) = clientList \cup Fixed
      /\ IsFiniteSet(clientList) /\ n = 4 + Cardinality(clientList)
  BY DEF IInv, TypeOK, Listed, ClientType
<1>3. r \in ClientType /\ r.firstMessage = TRUE
  <2> DEFINE z == [Zero EXCEPT !.connected = TRUE, !.firstMessage = TRUE]
  <2>1. z \in ClientType /\ z.firstMessage = TRUE
    <3>1. z \in ClientType
      BY ZeroTyped DEF ClientType
    <3>2. z.firstMessage = TRUE
      BY ZeroTyped DEF ClientType
    <3> QED
      BY <3>1, <3>2
  <2> HIDE DEF z
  <2>2. r = sendToClient(z, 1, TRUE)
    BY DEF z
  <2> QED
    BY <2>1, <2>2, SendTyped
<1> HIDE DEF r
<1>4. client' \in [Cells -> ClientType] /\ client'[c].firstMessage = TRUE
      /\ \A d \in Cells : d # c => client'[d] = client[d]
  BY <1>1, <1>2, <1>3
<1>5. c \in Listeners /\ c \notin Elements(connectionList)
  BY <1>1, <1>2, CellAssumption DEF Listeners, Fixed
<1>6. /\ connectionList' \in Seq(Listeners) /\ Len(connectionList') = 1 + n
      /\ DOMAIN connectionList' = 1 .. 1 + n
      /\ \A i \in 1 .. 1 + n : connectionList'[i] = IF i <= 1 THEN c ELSE connectionList[i - 1]
  <2>1. <<c>> \in Seq(Listeners) /\ Len(<<c>>) = 1 /\ <<c>>[1] = c
    BY <1>5
  <2> DEFINE L == <<c>> \o connectionList
  <2>2. /\ L \in Seq(Listeners) /\ Len(L) = 1 + n
        /\ \A i \in 1 .. 1 + n : L[i] = IF i <= 1 THEN c ELSE connectionList[i - 1]
    BY <1>2, <2>1, ConcatProperties
  <2> HIDE DEF L
  <2>3. connectionList' = L
    BY <1>1 DEF L
  <2> QED
    BY <2>2, <2>3
<1> HIDE DEF n
<1>7. connectionList'[1] = c /\ 1 \in 1 .. 1 + n
  BY <1>2, <1>6
<1>8. \A i \in 1 .. 1 + n : i = 1 \/ (i - 1 \in 1 .. n /\ connectionList'[i] = connectionList[i - 1]
                                       /\ connectionList[i - 1] \in Elements(connectionList))
  <2>1. n = Len(connectionList)
    BY DEF n
  <2> QED
    BY <1>2, <1>6, <2>1 DEF Elements
<1>9. \A i \in 1 .. n : i + 1 \in 1 .. 1 + n /\ connectionList'[i + 1] = connectionList[i]
  BY <1>2, <1>6
<1>10. Elements(connectionList') = Elements(connectionList) \cup {c}
  <2>1. Elements(connectionList') \subseteq Elements(connectionList) \cup {c}
    <3>1. \A i \in 1 .. 1 + n : connectionList'[i] \in Elements(connectionList) \cup {c}
      BY <1>7, <1>8
    <3> QED
      BY <1>6, <3>1 DEF Elements
  <2>2. \A i \in 1 .. n : connectionList[i] \in Elements(connectionList')
    BY <1>6, <1>9 DEF Elements
  <2>3. Elements(connectionList) \subseteq Elements(connectionList')
    BY <2>2 DEF Elements, n
  <2>4. c \in Elements(connectionList')
    BY <1>6, <1>7 DEF Elements
  <2> QED
    BY <2>1, <2>3, <2>4
<1>11. Listed'
  <2>1. IsInjective(connectionList')
    <3> SUFFICES ASSUME NEW i \in 1 .. 1 + n, NEW j \in 1 .. 1 + n, connectionList'[i] = connectionList'[j]
                 PROVE  i = j
      BY <1>6 DEF IsInjective
    <3>1. CASE i = 1 \/ j = 1
      BY <1>5, <1>7, <1>8, <3>1
    <3>2. CASE i # 1 /\ j # 1
      <4>1. i - 1 \in 1 .. n /\ j - 1 \in 1 .. n /\ connectionList[i - 1] = connectionList[j - 1]
        BY <1>8, <3>2
      <4>2. DOMAIN connectionList = 1 .. n
        BY <1>2 DEF n
      <4>3. i - 1 = j - 1
        BY <1>2, <4>1, <4>2 DEF IsInjective
      <4> QED
        BY <1>2, <4>3
    <3> QED
      BY <3>1, <3>2
  <2>2. IsFiniteSet(clientList') /\ Cardinality(clientList') = Cardinality(clientList) + 1
    BY <1>1, <1>2, FS_AddElement
  <2>3. Len(connectionList') = 4 + Cardinality(clientList')
    <3>1. Cardinality(clientList) \in Nat
      BY <1>2, FS_CardinalityType
    <3> QED
      BY <1>2, <1>6, <2>2, <3>1
  <2>4. Elements(connectionList') = clientList' \cup Fixed
    BY <1>1, <1>2, <1>10
  <2> QED
    BY <2>1, <2>2, <2>3, <2>4 DEF Listed, Fixed
<1>12. FiltersOwned' /\ Unique(filterList)'
  BY <1>1 DEF IInv, FiltersOwned
<1>13. \A f \in Elements(filterList) : f.client # c
  BY <1>1 DEF IInv, FiltersOwned
<1>14. Sources'
  <2>1. wanted[c] = {}
    BY <1>1 DEF IInv, Sources
  <2>2. \A v : [client |-> c, key |-> "source", value |-> v] \notin Elements(filterList)
    BY <1>13
  <2> QED
    BY <1>1, <2>1, <2>2 DEF IInv, Sources
<1>15. Targets'
  BY <1>1, <1>2, <1>4, <1>13 DEF IInv, Targets
<1>16. at' \in Elements(connectionList) \cup {None} /\ Elements(connectionList) \subseteq Listeners
  <2>1. "server" \in Elements(connectionList)
    BY <1>2 DEF Fixed
  <2>2. After("server") \in Elements(connectionList) \cup {None}
    BY <1>2, <2>1, AfterOnList
  <2> QED
    BY <1>1, <1>2, <2>2 DEF Elements
<1>17. Walk'
  BY <1>1, <1>10, <1>16 DEF Walk, WalkOnList
<1>18. TypeOK'
  BY <1>1, <1>4, <1>6, <1>16 DEF IInv, TypeOK, ClientType
<1> QED
  BY <1>11, <1>12, <1>14, <1>15, <1>17, <1>18 DEF IInv

(* The listener of a client that goes is taken out of the list.             *)
LEMMA RemoveListener ==
    ASSUME connectionList \in Seq(Listeners), IsInjective(connectionList),
           NEW c \in Elements(connectionList)
    PROVE  LET L == RemoveFirst(connectionList, c)
           IN  /\ L \in Seq(Listeners) /\ IsInjective(L) /\ Len(L) = Len(connectionList) - 1
               /\ Elements(L) = Elements(connectionList) \ {c}
<1> DEFINE n == Len(connectionList)
           L == RemoveFirst(connectionList, c)
<1>1. n \in Nat /\ DOMAIN connectionList = 1 .. n
  OBVIOUS
<1>2. PICK i \in 1 .. n : connectionList[i] = c
  BY DEF Elements
<1>3. {j \in 1 .. n : connectionList[j] = c} = {i}
  BY <1>1, <1>2 DEF IsInjective
<1>4. Min({i}) = i
  BY <1>1 DEF Min
<1>5. L = RemoveAt(connectionList, i)
  BY <1>2, <1>3, <1>4 DEF RemoveFirst, SelectInSeq
<1> DEFINE from(j) == IF j < i THEN j ELSE j + 1
<1>6. \A j \in 1 .. n - 1 : from(j) \in 1 .. n /\ from(j) # i
  BY <1>1
<1>7. \A j, k \in 1 .. n - 1 : from(j) = from(k) => j = k
  BY <1>1
<1>8. /\ L \in Seq(Listeners) /\ Len(L) = n - 1 /\ DOMAIN L = 1 .. n - 1
      /\ \A j \in 1 .. n - 1 : L[j] = connectionList[from(j)]
  <2>1. /\ RemoveAt(connectionList, i) \in Seq(Listeners) /\ Len(RemoveAt(connectionList, i)) = n - 1
        /\ \A j \in 1 .. n - 1 : RemoveAt(connectionList, i)[j]
                                   = IF j < i THEN connectionList[j] ELSE connectionList[j + 1]
    BY <1>1, RemoveAtProperties
  <2>2. L \in Seq(Listeners) /\ Len(L) = n - 1 /\ \A j \in 1 .. n - 1 : L[j] = connectionList[from(j)]
    BY <1>5, <2>1
  <2> HIDE DEF L
  <2> QED
    BY <2>2
<1>9. \A j \in 1 .. n : j # i => \E k \in 1 .. n - 1 : from(k) = j
  <2> SUFFICES ASSUME NEW j \in 1 .. n, j # i
               PROVE  \E k \in 1 .. n - 1 : from(k) = j
    OBVIOUS
  <2>1. CASE j < i
    BY <1>1, <2>1
  <2>2. CASE j > i
    <3>1. j - 1 \in 1 .. n - 1 /\ from(j - 1) = j
      BY <1>1, <2>2
    <3> QED
      BY <3>1
  <2> QED
    BY <1>1, <2>1, <2>2
<1> HIDE DEF from, L
<1>10. IsInjective(L)
  <2> SUFFICES ASSUME NEW j \in 1 .. n - 1, NEW k \in 1 .. n - 1, L[j] = L[k]
               PROVE  j = k
    BY <1>8 DEF IsInjective
  <2>1. from(j) = from(k)
    BY <1>1, <1>6, <1>8 DEF IsInjective
  <2> QED
    BY <1>7, <2>1
<1>11. Elements(L) = Elements(connectionList) \ {c}
  <2>1. \A j \in 1 .. n - 1 : L[j] \in Elements(connectionList) \ {c}
    BY <1>1, <1>2, <1>6, <1>8 DEF Elements, IsInjective
  <2>2. \A j \in 1 .. n : connectionList[j] # c => connectionList[j] \in Elements(L)
    <3> SUFFICES ASSUME NEW j \in 1 .. n, connectionList[j] # c
                 PROVE  connectionList[j] \in Elements(L)
      OBVIOUS
    <3>1. PICK k \in 1 .. n - 1 : from(k) = j
      BY <1>2, <1>9
    <3> QED
      BY <3>1, <1>8 DEF Elements
  <2>3. Elements(L) \subseteq Elements(connectionList) \ {c}
    BY <1>8, <2>1 DEF Elements
  <2>4. Elements(connectionList) \ {c} \subseteq Elements(L)
    BY <2>2 DEF Elements
  <2> QED
    BY <2>3, <2>4
<1> QED
  BY <1>8, <1>10, <1>11 DEF L

(* What is queued for a client that goes stays a packet.                    *)
LEMMA DisownTyped ==
    ASSUME NEW e \in Packet, NEW c
    PROVE  Disown(e, c) \in Packet
<1>1. (e.own /\ e.client # c) \in BOOLEAN
  OBVIOUS
<1> QED
  BY <1>1 DEF Disown, Packet

(* A client that goes takes its listener and its filters with it, and the   *)
(* walk goes on with another listener.                                      *)
LEMMA DelClientStep ==
    ASSUME IInv, clientListener_Delete
    PROVE  IInv'
<1> DEFINE c == at
           D == {f \in Elements(filterList) : f.client = c}
           n == Len(txq)
<1>1. pc = "client" /\ pc' = "walk" /\ at' = tmp /\ tmp' = None
  BY DEF clientListener_Delete, recv_Empty, Return
<1>2. /\ connectionList' = RemoveFirst(connectionList, c) /\ filterList' = Without(filterList, D)
      /\ clientList' = clientList \ {c} /\ client' = [client EXCEPT ![c] = Zero]
      /\ peer' = [peer EXCEPT ![c] = "open"]
      /\ txq' = [i \in 1 .. n |-> Disown(txq[i], c)]
      /\ p' = IF p = None THEN None ELSE Disown(p, c)
      /\ wanted' = [wanted EXCEPT ![c] = {}] /\ txOwn' = [txOwn EXCEPT ![c] = 0]
  BY DEF clientListener_Delete, delClient, FiltersWithout
<1>3. /\ c \in clientList /\ clientList \subseteq Cells /\ tmp # c
      /\ tmp \in Elements(connectionList) \cup {None}
  BY <1>1 DEF IInv, TypeOK, Walk, WalkOnList
<1>4. /\ connectionList \in Seq(Listeners) /\ IsInjective(connectionList)
      /\ Elements(connectionList) = clientList \cup Fixed
      /\ IsFiniteSet(clientList) /\ Len(connectionList) = 4 + Cardinality(clientList)
  BY DEF IInv, TypeOK, Listed
<1>5. /\ client \in [Cells -> ClientType] /\ filterList \in Seq(Filter) /\ Unique(filterList)
      /\ peer \in [Cells -> {"open", "closing", "closed", "reset"}]
      /\ txq \in Seq(Packet) /\ n \in Nat /\ p \in Packet \cup {None}
      /\ wanted \in [Cells -> SUBSET (Names \cup {Empty})] /\ txOwn \in [Cells -> 0 .. FRAMES - 1]
  BY DEF IInv, TypeOK, ClientType
<1>6. /\ connectionList' \in Seq(Listeners) /\ IsInjective(connectionList')
      /\ Len(connectionList') = Len(connectionList) - 1
      /\ Elements(connectionList') = Elements(connectionList) \ {c}
  BY <1>2, <1>3, <1>4, RemoveListener
<1>7. /\ filterList' \in Seq(Filter) /\ Elements(filterList') = Elements(filterList) \ D
      /\ Unique(filterList')
  BY <1>2, <1>5, WithoutFilters
<1>8. \A f : f \in Elements(filterList') <=> f \in Elements(filterList) /\ f.client # c
  BY <1>7
<1> HIDE DEF c, D
<1>9. Listed'
  <2>1. IsFiniteSet(clientList') /\ Cardinality(clientList') = Cardinality(clientList) - 1
    BY <1>2, <1>3, <1>4, FS_RemoveElement
  <2>2. Cardinality(clientList) \in Nat /\ Len(connectionList') = 4 + Cardinality(clientList')
    <3>1. Cardinality(clientList) \in Nat
      BY <1>4, FS_CardinalityType
    <3> QED
      BY <1>4, <1>6, <2>1, <3>1
  <2>3. c \notin Fixed
    BY <1>3, CellAssumption DEF Fixed
  <2>4. Elements(connectionList') = clientList' \cup Fixed
    BY <1>2, <1>4, <1>6, <2>3
  <2> QED
    BY <1>6, <2>1, <2>2, <2>4 DEF Listed, Fixed
<1>10. FiltersOwned'
  BY <1>2, <1>8 DEF IInv, FiltersOwned
<1>11. Walk'
  BY <1>1, <1>3, <1>6 DEF Walk, WalkOnList
<1>12. Sources'
  <2>1. \A d \in Cells \ clientList' : wanted'[d] = {}
    BY <1>2, <1>3, <1>5 DEF IInv, Sources
  <2>2. ASSUME NEW d \in clientList', NEW v \in Names \cup {Empty}
        PROVE  v \in wanted'[d] <=> [client |-> d, key |-> "source", value |-> v] \in Elements(filterList')
    <3>1. d \in clientList /\ d # c /\ wanted'[d] = wanted[d]
      BY <1>2, <1>3, <1>5
    <3> DEFINE g == [client |-> d, key |-> "source", value |-> v]
    <3>2. g.client = d
      OBVIOUS
    <3>3. v \in wanted[d] <=> g \in Elements(filterList)
      BY <3>1 DEF IInv, Sources
    <3> HIDE DEF g
    <3>4. v \in wanted'[d] <=> g \in Elements(filterList')
      BY <1>8, <3>1, <3>2, <3>3
    <3> QED
      BY <3>4 DEF g
  <2> QED
    BY <2>1, <2>2 DEF Sources
<1>13. Targets'
  <2> SUFFICES ASSUME NEW d \in clientList'
               PROVE  client'[d].firstMessage
                         <=> ~\E f \in Elements(filterList') : f.client = d /\ f.key = "target"
    BY DEF Targets
  <2>1. d \in clientList /\ d # c /\ client'[d] = client[d]
    BY <1>2, <1>3, <1>5
  <2> QED
    BY <1>8, <2>1 DEF IInv, Targets
<1>14. TypeOK'
  <2>1. client' \in [Cells -> ClientType]
    BY <1>2, <1>5, ZeroTyped
  <2>2. txq' \in Seq(Packet) /\ p' \in Packet \cup {None}
    <3>1. \A i \in 1 .. n : Disown(txq[i], c) \in Packet
      BY <1>5, DisownTyped
    <3>2. txq' \in Seq(Packet)
      BY <1>2, <1>5, <3>1
    <3> QED
      BY <1>2, <1>5, <3>2, DisownTyped
  <2>3. /\ peer' \in [Cells -> {"open", "closing", "closed", "reset"}]
        /\ wanted' \in [Cells -> SUBSET (Names \cup {Empty})] /\ txOwn' \in [Cells -> 0 .. FRAMES - 1]
    <3>1. peer' \in [Cells -> {"open", "closing", "closed", "reset"}]
      BY <1>2, <1>5
    <3>2. wanted' \in [Cells -> SUBSET (Names \cup {Empty})]
      BY <1>2, <1>5
    <3>3. 0 \in 0 .. FRAMES - 1
      BY BoundAssumption
    <3>4. txOwn' \in [Cells -> 0 .. FRAMES - 1]
      BY <1>2, <1>5, <3>3
    <3> QED
      BY <3>1, <3>2, <3>4
  <2>4. at' \in Listeners \cup {None} /\ clientList' \subseteq Cells
    BY <1>1, <1>2 DEF IInv, TypeOK
  <2> QED
    BY <1>1, <1>6, <1>7, <2>1, <2>2, <2>3, <2>4 DEF TypeOK, ClientType
<1> QED
  BY <1>7, <1>9, <1>10, <1>11, <1>12, <1>13, <1>14 DEF IInv

-----------------------------------------------------------------------------
(***************************************************************************)
(* The theorems.                                                           *)
(***************************************************************************)

LEMMA StepIInv == IInv /\ [Next]_vars => IInv'
<1> SUFFICES ASSUME IInv, [Next]_vars
             PROVE  IInv'
  OBVIOUS
<1>1. CASE Parse \/ \E t \in Tokens, authorized, ok \in BOOLEAN : login(t, authorized, ok)
  BY <1>1, TextSteps, AddFilterStep, DelFilterStep, XapMessageStep DEF Parse
<1>2. CASE Main /\ ~Parse
  BY <1>2, WalkSteps, AddClientStep, DelClientStep DEF Main
<1>3. CASE Awaited
  BY <1>1, <1>3, WalkSteps, PacketStep DEF Awaited
<1>4. CASE txLoop_Pop \/ \E c \in Cells : PeerCloses(c) \/ PeerDrained(c)
  BY <1>4, OutsideSteps
<1>5. CASE txLoop_Send
  BY <1>5, SendStep
<1>6. CASE UNCHANGED vars
  <2>1. UNCHANGED <<pc, at, tmp, connectionList, clientList, client, filterList, peer, txq, p, wanted, txOwn>>
    BY <1>6 DEF vars, mainVars, clientVars, histVars
  <2>2. TypeOK'
    BY <2>1 DEF IInv, TypeOK
  <2>3. Walk'
    BY <2>1 DEF IInv, Walk, WalkOnList
  <2> QED
    BY <2>1, <2>2, <2>3, ClientsKeep DEF IInv
<1> QED
  BY <1>1, <1>2, <1>3, <1>4, <1>5, <1>6 DEF Next

LEMMA IInvHolds == Spec => []IInv
<1> QED
  BY InitIInv, StepIInv, PTL DEF Spec

(* The variables have their types at every moment: among others, a frame    *)
(* counter stays within its width.  main.c: struct _client, sendToClient(). *)
THEOREM TypeCorrect == Spec => []TypeOK
<1>1. IInv => TypeOK
  BY DEF IInv
<1> QED
  BY <1>1, IInvHolds, PTL

(* However clients come, filter and go, no filter and no listener is left   *)
(* for a client that has been freed.  main.c: delClient(), addClient().     *)
THEOREM FreedClientsAreForgotten == Spec => []NoDanglingClient
<1>1. IInv => NoDanglingClient
  <2> SUFFICES ASSUME IInv
               PROVE  NoDanglingClient
    OBVIOUS
  <2>1. Elements(connectionList) \cap Cells = clientList
    BY CellAssumption DEF IInv, TypeOK, Listed, Fixed
  <2> QED
    BY <2>1 DEF IInv, Listed, FiltersOwned, NoDanglingClient
<1> QED
  BY <1>1, IInvHolds, PTL

(* The walk never stands on a freed listener, nor has it saved one, though  *)
(* callbacks add and delete listeners.  rx.c: readSockets().                *)
THEOREM WalkStaysOnList == Spec => []WalkOnList
<1>1. IInv => WalkOnList
  BY DEF IInv, Walk
<1> QED
  BY <1>1, IInvHolds, PTL

(* A client has one source filter for each source it added and did not      *)
(* delete, and one target filter once it has said who it is, whatever the   *)
(* others do.  main.c: uniqueFilter(), parseiServerMsg(),                   *)
(* firstClientMessage(), delClient().                                       *)
THEOREM ClientsGetWhatTheyAskFor == Spec => []FiltersFollowRequests
<1>1. IInv => FiltersFollowRequests
  <2> SUFFICES ASSUME IInv, NEW c \in clientList
               PROVE  LET Of(key) == {i \in 1 .. Len(filterList) :
                                         filterList[i].client = c /\ filterList[i].key = key}
                      IN  /\ {filterList[i].value : i \in Of("source")} = wanted[c]
                          /\ Cardinality(Of("source")) = Cardinality(wanted[c])
                          /\ Cardinality(Of("target")) = IF client[c].firstMessage THEN 0 ELSE 1
    BY DEF FiltersFollowRequests
  <2> DEFINE n == Len(filterList)
             Of(key) == {i \in 1 .. n : filterList[i].client = c /\ filterList[i].key = key}
             S == Of("source")
             T == Of("target")
             W == wanted[c]
             value == [i \in S |-> filterList[i].value]
  <2>1. /\ filterList \in Seq(Filter) /\ n \in Nat /\ W \in SUBSET (Names \cup {Empty})
        /\ Unique(filterList) /\ IsFiniteSet(1 .. n)
    <3>1. filterList \in Seq(Filter) /\ clientList \subseteq Cells
          /\ wanted \in [Cells -> SUBSET (Names \cup {Empty})] /\ Unique(filterList)
      BY DEF IInv, TypeOK
    <3>2. n \in Nat
      BY <3>1
    <3> QED
      BY <3>1, <3>2, FS_Interval
  <2>2. IsFiniteSet(S)
    BY <2>1, FS_Subset
  <2>3. \A i \in 1 .. n : /\ filterList[i] \in Filter /\ filterList[i] \in Elements(filterList)
    BY <2>1 DEF Elements
  <2>4. \A i \in S : value[i] \in W
    <3> SUFFICES ASSUME NEW i \in S
                 PROVE  filterList[i].value \in W
      OBVIOUS
    <3>1. /\ i \in 1 .. n /\ filterList[i] \in Filter /\ filterList[i] \in Elements(filterList)
          /\ filterList[i].client = c /\ filterList[i].key = "source"
      BY <2>3
    <3> DEFINE v == filterList[i].value
    <3>2. v \in Names \cup {Empty} /\ filterList[i] = [client |-> c, key |-> "source", value |-> v]
      BY <3>1 DEF Filter
    <3> QED
      BY <3>1, <3>2 DEF IInv, Sources
  <2>5. \A v \in W : \E i \in S : value[i] = v
    <3> SUFFICES ASSUME NEW v \in W
                 PROVE  \E i \in S : filterList[i].value = v
      OBVIOUS
    <3>1. [client |-> c, key |-> "source", value |-> v] \in Elements(filterList)
      BY <2>1 DEF IInv, Sources
    <3>2. PICK i \in 1 .. n : filterList[i] = [client |-> c, key |-> "source", value |-> v]
      BY <3>1 DEF Elements
    <3> QED
      BY <3>2
  <2>6. \A i, j \in S : value[i] = value[j] => i = j
    BY <2>1 DEF Unique, Same
  <2>7. {filterList[i].value : i \in S} = W
    <3>1. \A i \in S : value[i] = filterList[i].value
      OBVIOUS
    <3> HIDE DEF S, value, W
    <3> QED
      BY <2>4, <2>5, <3>1
  <2>8. Cardinality(S) = Cardinality(W)
    <3>1. DOMAIN value = S /\ value \in [S -> W]
      BY <2>4
    <3> HIDE DEF value, S, W
    <3>2. value \in Bijection(S, W)
      BY <2>5, <2>6, <3>1 DEF Bijection, Injection, Surjection, IsInjective
    <3>3. ExistsBijection(S, W)
      BY <3>2 DEF ExistsBijection
    <3> QED
      BY <2>2, <3>3, FS_Bijection
  <2>9. Cardinality(T) = IF client[c].firstMessage THEN 0 ELSE 1
    <3>1. CASE client[c].firstMessage
      <4>1. T = {}
        BY <2>3, <3>1 DEF IInv, Targets
      <4> QED
        BY <3>1, <4>1, FS_EmptySet
    <3>2. CASE ~client[c].firstMessage
      <4>1. PICK f \in Elements(filterList) : f.client = c /\ f.key = "target"
        BY <3>2 DEF IInv, Targets
      <4>2. PICK i \in 1 .. n : filterList[i] = f
        BY DEF Elements
      <4>3. \A j \in T : j = i
        BY <2>1, <4>1, <4>2 DEF Unique, Same
      <4>4. T = {i}
        BY <4>1, <4>2, <4>3
      <4> QED
        BY <3>2, <4>4, FS_Singleton
    <3> QED
      BY <3>1, <3>2
  <2> QED
    BY <2>7, <2>8, <2>9
<1> QED
  BY <1>1, IInvHolds, PTL
=============================================================================
