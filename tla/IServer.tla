------------------------------ MODULE IServer ------------------------------
(***************************************************************************)
(* The iServer (iServer/main.c): TCP clients that put xAP messages on the  *)
(* UDP network and receive those their filters select.                     *)
(*                                                                         *)
(* The main thread is the xaplib2 event loop: it walks the list of socket  *)
(* listeners and calls back those that are ready.  The transmit thread     *)
(* empties the queue the main thread fills; the queue is first-in,         *)
(* first-out, as TxQueue shows.  A step of the main thread ends where the  *)
(* other thread or a peer can make a difference.                           *)
(*                                                                         *)
(* A client is the heap cell of its struct.  What peers send is chosen     *)
(* when the parser gets to it, one token at a time; names are abstract,    *)
(* and a packet from the network matches an arbitrary set of filters.      *)
(***************************************************************************)
EXTENDS Integers, Sequences, SequencesExt, FiniteSets

CONSTANTS
    Cells,          \* heap cells for struct _client: a bound on the clients
    Names,          \* what a client can send between two tags
    Garbled,        \* the name that stands for all run-together ones
    Empty,          \* the name that nothing was sent for
    SubAddressed,   \* the names with a ':' in them
    Sourced,        \* the names that parse as a message with a source
    Tokens,         \* the tags peers send
    QMAX, FMAX,     \* bounds on the transmit queue and on the filter list
    FRAMES,         \* frame counters are unsigned: they count modulo FRAMES
    None            \* no listener, no packet

Tags == {"sequence", "start_cmd", "end_cmd", "start_xap", "end_xap", "login",
         "add_source", "add_source_e", "add_class", "add_class_e",
         "del_source", "del_source_e", "del_class", "del_class_e"}

ASSUME NameAssumption ==
    /\ Garbled \in Names /\ Empty \notin Names
    /\ SubAddressed \subseteq Names /\ Sourced \subseteq Names
ASSUME TokenAssumption == Tokens \subseteq Tags
ASSUME BoundAssumption == QMAX \in Nat /\ FMAX \in Nat /\ FRAMES \in Nat \ {0}
ASSUME CellAssumption ==
    LET fixed == {"web", "policy", "server", "udp"} IN None \notin Cells \cup fixed /\ Cells \cap fixed = {}

VARIABLES
    pc,             \* "select", "walk", or the callback that is running
    at,             \* the listener the walk is at, None at its end
    tmp,            \* the listener the walk continues with
    connectionList, \* gXAP->connectionList, first to last
    clientList,     \* the clients in use
    client,         \* client[c]: the struct, all zero when c is not in use
    peer,           \* the other end: "open" and perhaps sending, "closing" (it has
                    \* closed and not all it sent is read), "closed", "reset"
    filterList,     \* gXAP->filterList, first to last
    txq,            \* tx_queue, oldest first
    p,              \* the packet the transmit thread works on
    wanted,         \* history: the source filters c added and did not delete
    txOwn           \* history: c's packets transmitted, modulo FRAMES

mainVars == <<pc, at, tmp>>
clientVars == <<connectionList, clientList, client, filterList>>
histVars == <<wanted, txOwn>>
vars == <<mainVars, clientVars, peer, txq, p, histVars>>

States == {"WAIT_FOR_MESSAGE", "CMD", "ADD_SOURCE_FILTER", "ADD_CLASS_FILTER",
           "XAP", "LOGIN", "DEL_SOURCE_FILTER", "DEL_CLASS_FILTER"}

Zero == [connected |-> FALSE, firstMessage |-> FALSE, state |-> "WAIT_FOR_MESSAGE",
         ident |-> Empty, rxFrame |-> 0, txFrame |-> 0]

\* main(): each listener is prepended, the clients' too.
Init ==
    /\ pc = "select" /\ at = None /\ tmp = None
    /\ connectionList = <<"web", "policy", "server", "udp">>
    /\ clientList = {}
    /\ client = [c \in Cells |-> Zero]
    /\ peer = [c \in Cells |-> "open"]
    /\ filterList = <<>>
    /\ txq = <<>>
    /\ p = None
    /\ wanted = [c \in Cells |-> {}]
    /\ txOwn = [c \in Cells |-> 0]

Elements(s) == {s[i] : i \in 1 .. Len(s)}

\* LL_FOREACH_SAFE that deletes the elements in D.
Without(s, D) ==
    LET kept[i \in 0 .. Len(s)] ==
            IF i = 0 THEN <<>> ELSE IF s[i] \in D THEN kept[i - 1] ELSE Append(kept[i - 1], s[i])
    IN  kept[Len(s)]

Bump(n) == (n + 1) % FRAMES

-----------------------------------------------------------------------------
(***************************************************************************)
(* The other ends of the connections.                                      *)
(***************************************************************************)

\* The peer closes, or the connection is reset and what was unread is lost.
PeerCloses(c) ==
    /\ c \in clientList
    /\ peer[c] = "open"
    /\ \E e \in {"closing", "reset"} : peer' = [peer EXCEPT ![c] = e]
    /\ UNCHANGED <<mainVars, clientVars, txq, p, histVars>>

\* The last that a peer sent before it closed has been read.
PeerDrained(c) ==
    /\ peer[c] = "closing"
    /\ peer' = [peer EXCEPT ![c] = "closed"]
    /\ UNCHANGED <<mainVars, clientVars, txq, p, histVars>>

-----------------------------------------------------------------------------
(***************************************************************************)
(* The event loop: xapProcess(), readSockets().                            *)
(***************************************************************************)

\* The listener after l, None after the last one.
After(l) ==
    LET i == CHOOSE j \in 1 .. Len(connectionList) : connectionList[j] = l
    IN  IF i = Len(connectionList) THEN None ELSE connectionList[i + 1]

\* select() returns and readSockets() starts.
select ==
    /\ pc = "select"
    /\ pc' = "walk"
    /\ at' = connectionList[1]
    /\ UNCHANGED <<tmp, clientVars, peer, txq, p, histVars>>

\* A connection that has ended is ready to be read, and stays it.
MustServe(l) == l \in Cells /\ peer[l] # "open"

readSockets_Skip ==
    /\ pc = "walk"
    /\ at # None
    /\ ~MustServe(at)
    /\ at' = After(at)
    /\ UNCHANGED <<pc, tmp, clientVars, peer, txq, p, histVars>>

readSockets_End ==
    /\ pc = "walk"
    /\ at = None
    /\ pc' = "select"
    /\ UNCHANGED <<at, tmp, clientVars, peer, txq, p, histVars>>

\* A callback starts: LL_FOREACH_SAFE has looked up the next listener.
CallBack(l, name) ==
    /\ pc = "walk"
    /\ at = l
    /\ pc' = name
    /\ tmp' = After(l)
    /\ UNCHANGED at

\* Fault: LL_FOREACH, the walk looks for what follows the listener it called.
Return_Unsafe ==
    /\ pc' = "walk"
    /\ at' = IF at \in Cells THEN at ELSE tmp
    /\ tmp' = None

Return ==
    /\ pc' = "walk"
    /\ at' = tmp
    /\ tmp' = None

\* A callback that no other thread or peer can come between.
CallAndReturn(l) ==
    /\ pc = "walk"
    /\ at = l
    /\ at' = After(l)
    /\ UNCHANGED <<pc, tmp>>

-----------------------------------------------------------------------------
(***************************************************************************)
(* The transmit queue and thread.                                          *)
(***************************************************************************)

\* broadcastPacket(): n packets of c are queued.  own is history: c has not
\* been freed since.
broadcastPacket(c, n) ==
    txq' = txq \o [i \in 1 .. n |-> [client |-> c, own |-> TRUE]]

\* txLoop(): queue_pop().
txLoop_Pop ==
    /\ p = None
    /\ txq # <<>>
    /\ p' = Head(txq)
    /\ txq' = Tail(txq)
    /\ UNCHANGED <<mainVars, clientVars, peer, histVars>>

\* txLoop(): the frame is counted in the client's struct and sent.  By then
\* the cell may have been freed, and a write to it goes unnoticed, or have
\* become another client's.
txLoop_Send ==
    /\ p # None
    /\ client' = [client EXCEPT ![p.client].txFrame =
                     IF p.client \in clientList THEN Bump(@) ELSE @]
    /\ txOwn' = [txOwn EXCEPT ![p.client] = IF p.own THEN Bump(@) ELSE @]
    /\ p' = None
    /\ UNCHANGED <<mainVars, connectionList, clientList, filterList, peer, txq, wanted>>

-----------------------------------------------------------------------------
(***************************************************************************)
(* Sending to clients.                                                     *)
(***************************************************************************)

\* sendAll() can find out that the peer is gone only when it is.
MayFail(c) == peer[c] # "open"

\* sendToClient(), n times: the struct afterwards.  A send that fails because
\* the peer is gone marks the client; others leave it alone.  The sockets
\* block: with its buffers full, a peer that does not read holds the sender.
sendToClient(r, n, ok) == [r EXCEPT !.rxFrame = (@ + n) % FRAMES, !.connected = @ /\ ok]

Filter == [client : Cells, key : {"source", "class", "target"}, value : Names \cup {Empty}]

\* incomingXapPacket(): a packet that some filter matches is sent on, in the
\* main thread, which stands still until the clients have taken it.  One that
\* no filter matches is as if it had not come.
incomingXapPacket ==
    /\ filterList # <<>>
    /\ CallBack("udp", "blocked")
    /\ UNCHANGED <<clientVars, peer, txq, p, histVars>>

\* filterDispatch(), xAPtoClient(): the packet matched the filters m and has
\* gone to the client of each, once for each.
incomingXapPacket_Sent(m, failed) ==
    LET Times(c) == Cardinality({i \in 1 .. Len(filterList) :
                        /\ filterList[i].client = c
                        /\ <<filterList[i].key, filterList[i].value>> \in m})
    IN  /\ pc = "blocked"
        /\ at = "udp"
        /\ Return
        /\ failed \subseteq {c \in clientList : Times(c) > 0 /\ MayFail(c)}
        /\ client' = [c \in Cells |-> sendToClient(client[c], Times(c), c \notin failed)]
        /\ UNCHANGED <<connectionList, clientList, filterList, peer, txq, p, wanted, txOwn>>

-----------------------------------------------------------------------------
(***************************************************************************)
(* Clients come.                                                           *)
(***************************************************************************)

\* serverListener(), addClient(): malloc() may hand out a cell that packets
\* of an earlier client still refer to.
addClient(c) ==
    /\ CallAndReturn("server")
    /\ c \notin clientList
    /\ clientList' = clientList \cup {c}
    /\ connectionList' = <<c>> \o connectionList
    /\ client' = [client EXCEPT ![c] =
                     sendToClient([Zero EXCEPT !.connected = TRUE, !.firstMessage = TRUE], 1, TRUE)]
    /\ UNCHANGED <<filterList, peer, txq, p, histVars>>

\* accept() fails, or the <ACL></ACL>, which fits an empty buffer, cannot be
\* sent and the client is deleted again.
addClient_Fails ==
    /\ CallAndReturn("server")
    /\ UNCHANGED <<clientVars, peer, txq, p, histVars>>

\* webServerHandler(), flashPolicyServerHandler(): the loop stands still until
\* the peer has sent its request and taken the answer, or given up.  What a
\* failed read leaves behind is not modelled: webServerHandler() returns with
\* the descriptor open, flashPolicyServerHandler() writes to buf[-1].
webServerHandler(h) ==
    /\ CallBack(h, "blocked")
    /\ UNCHANGED <<clientVars, peer, txq, p, histVars>>

webServerHandler_Read ==
    /\ pc = "blocked"
    /\ at \in {"web", "policy"}
    /\ Return
    /\ UNCHANGED <<clientVars, peer, txq, p, histVars>>

-----------------------------------------------------------------------------
(***************************************************************************)
(* Clients are heard: clientListener(), parseiServerMsg().                 *)
(***************************************************************************)

clientListener(c) ==
    /\ CallBack(c, "client")
    /\ UNCHANGED <<clientVars, peer, txq, p, histVars>>

\* The parser takes the next token of the client whose callback is running.
yylex ==
    /\ pc = "client"
    /\ client[at].connected
    /\ peer[at] \in {"open", "closing"}
    /\ UNCHANGED <<mainVars, connectionList, clientList, peer, p, txOwn>>

Collecting == {"LOGIN", "ADD_SOURCE_FILTER", "ADD_CLASS_FILTER",
               "DEL_SOURCE_FILTER", "DEL_CLASS_FILTER", "XAP"}

\* strlcat()
Concat(a, b) == IF a = Empty THEN b ELSE Garbled

\* Text: collected where an argument is expected, otherwise an error.
parseText(n) ==
    /\ yylex
    /\ client' = [client EXCEPT
                     ![at].ident = IF client[at].state \in Collecting THEN Concat(@, n) ELSE @,
                     ![at].state = IF @ = "CMD" THEN "WAIT_FOR_MESSAGE" ELSE @]
    /\ UNCHANGED <<filterList, txq, wanted>>

Opens == [start_cmd |-> "CMD", start_xap |-> "XAP"]
Selects == [login |-> "LOGIN", add_source |-> "ADD_SOURCE_FILTER",
            add_class |-> "ADD_CLASS_FILTER", del_source |-> "DEL_SOURCE_FILTER",
            del_class |-> "DEL_CLASS_FILTER"]

\* The tags that complete what the parser is in the middle of.
Completes(s) ==
    CASE s = "LOGIN" -> {"end_cmd"}
      [] s \in {"ADD_SOURCE_FILTER", "ADD_CLASS_FILTER"} -> {"add_source_e", "add_class_e", "end_cmd"}
      [] s \in {"DEL_SOURCE_FILTER", "DEL_CLASS_FILTER"} -> {"del_source_e", "del_class_e", "end_cmd"}
      [] s = "XAP" -> {"end_xap"}
      [] OTHER -> {}

\* A tag that completes nothing: it opens a message, selects a command, or
\* drops what there was.
parseTag(t) ==
    LET s == client[at].state IN
    /\ yylex
    /\ t \notin Completes(s)
    /\ client' = [client EXCEPT
                     ![at].ident = IF s = "WAIT_FOR_MESSAGE" /\ t \in DOMAIN Opens THEN Empty ELSE @,
                     ![at].state = IF s = "WAIT_FOR_MESSAGE" /\ t \in DOMAIN Opens THEN Opens[t]
                                   ELSE IF s = "CMD" /\ t \in DOMAIN Selects THEN Selects[t]
                                   ELSE "WAIT_FOR_MESSAGE"]
    /\ UNCHANGED <<filterList, txq, wanted>>

\* t completes a message or command in one of the states ss.
Complete(t, ss) ==
    /\ yylex
    /\ client[at].state \in ss
    /\ t \in Completes(client[at].state)

Waiting(r) == [r EXCEPT !.state = "WAIT_FOR_MESSAGE"]

\* A login that is granted is answered: another send that can block.
login(t, authorized, ok) ==
    /\ Complete(t, {"LOGIN"})
    /\ ~ok => authorized /\ MayFail(at)
    /\ client' = [client EXCEPT ![at] =
                     Waiting(IF authorized THEN sendToClient(@, 1, ok) ELSE @)]
    /\ UNCHANGED <<filterList, txq, wanted>>

\* Fault: another client's filter counts as well.
uniqueFilter_AnyClient(n, c) ==
    ~\E i \in 1 .. Len(filterList) : filterList[i].key = "source" /\ filterList[i].value = n

\* uniqueFilter(): only source filters are compared, whatever is to be added.
uniqueFilter(n, c) ==
    ~\E i \in 1 .. Len(filterList) :
        filterList[i].client = c /\ filterList[i].key = "source" /\ filterList[i].value = n

AddFilterAction(key, n, c) == <<[client |-> c, key |-> key, value |-> n]>> \o filterList

\* sendBscQuery(): a source with a sub-address is asked for its state.  The
\* packets that are queued for it.
sendBscQuery(key, n) == IF key = "source" /\ n \in SubAddressed THEN 1 ELSE 0

addFilter(t, key) ==
    LET n == client[at].ident IN
    /\ Complete(t, {IF key = "source" THEN "ADD_SOURCE_FILTER" ELSE "ADD_CLASS_FILTER"})
    /\ Len(filterList) < FMAX
    /\ Len(txq) < QMAX
    /\ filterList' = IF uniqueFilter(n, at) THEN AddFilterAction(key, n, at) ELSE filterList
    /\ broadcastPacket(at, sendBscQuery(key, n))
    /\ client' = [client EXCEPT ![at] = Waiting(@)]
    /\ wanted' = IF key = "source" THEN [wanted EXCEPT ![at] = @ \cup {n}] ELSE wanted

\* Fault: the kind of filter is not compared.
delFilter_AnyKey(t, key) ==
    LET n == client[at].ident IN
    /\ Complete(t, {IF key = "source" THEN "DEL_SOURCE_FILTER" ELSE "DEL_CLASS_FILTER"})
    /\ filterList' = Without(filterList, {f \in Elements(filterList) : f.client = at /\ f.value = n})
    /\ client' = [client EXCEPT ![at] = Waiting(@)]
    /\ wanted' = IF key = "source" THEN [wanted EXCEPT ![at] = @ \ {n}] ELSE wanted
    /\ UNCHANGED txq

delFilter(t, key) ==
    LET n == client[at].ident IN
    /\ Complete(t, {IF key = "source" THEN "DEL_SOURCE_FILTER" ELSE "DEL_CLASS_FILTER"})
    /\ filterList' = Without(filterList, {[client |-> at, key |-> key, value |-> n]})
    /\ client' = [client EXCEPT ![at] = Waiting(@)]
    /\ wanted' = IF key = "source" THEN [wanted EXCEPT ![at] = @ \ {n}] ELSE wanted
    /\ UNCHANGED txq

\* Fault: the first message is never marked as seen.
firstClientMessage_Again(c, n) ==
    /\ filterList' = IF client[c].firstMessage /\ n \in Sourced
                     THEN AddFilterAction("target", n, c) ELSE filterList
    /\ client' = [client EXCEPT ![c] = Waiting(@)]

\* firstClientMessage(): the first source the client names is registered as a
\* target.
firstClientMessage(c, n) ==
    LET first == client[c].firstMessage /\ n \in Sourced IN
    /\ filterList' = IF first THEN AddFilterAction("target", n, c) ELSE filterList
    /\ client' = [client EXCEPT ![c] = Waiting([@ EXCEPT !.firstMessage = client[c].firstMessage /\ ~first])]

xapMessage(t) ==
    /\ Complete(t, {"XAP"})
    /\ Len(filterList) < FMAX
    /\ Len(txq) < QMAX
    /\ broadcastPacket(at, 1)
    /\ firstClientMessage(at, client[at].ident)
    /\ UNCHANGED wanted

\* recv() has nothing more, or what it has is dropped because the client is
\* known to be gone.  It returns 0 at the end of the stream, else -1, of which
\* clientListener() makes nothing even when the connection has been reset.
recv_Empty == pc = "client" /\ (peer[at] = "closing" => ~client[at].connected)

\* Fault: an orderly end of the stream is not looked for.
Disconnected_FlagOnly(c) == ~client[c].connected

Disconnected(c) == peer[c] = "closed" \/ ~client[c].connected

clientListener_Return ==
    /\ recv_Empty
    /\ ~Disconnected(at)
    /\ peer' = [peer EXCEPT ![at] = IF @ = "reset" THEN "closed" ELSE @]
    /\ Return
    /\ UNCHANGED <<clientVars, txq, p, histVars>>

Disown(e, c) == [e EXCEPT !.own = @ /\ e.client # c]

\* Fault: only the source filters go.
FiltersWithout_SourceOnly(c) ==
    Without(filterList, {f \in Elements(filterList) : f.client = c /\ f.key = "source"})

FiltersWithout(c) == Without(filterList, {f \in Elements(filterList) : f.client = c})

delClient(c) ==
    /\ connectionList' = RemoveFirst(connectionList, c)
    /\ filterList' = FiltersWithout(c)
    /\ clientList' = clientList \ {c}
    /\ client' = [client EXCEPT ![c] = Zero]
    /\ peer' = [peer EXCEPT ![c] = "open"]
    /\ txq' = [i \in 1 .. Len(txq) |-> Disown(txq[i], c)]
    /\ p' = IF p = None THEN None ELSE Disown(p, c)
    /\ wanted' = [wanted EXCEPT ![c] = {}]
    /\ txOwn' = [txOwn EXCEPT ![c] = 0]

clientListener_Delete ==
    /\ recv_Empty
    /\ Disconnected(at)
    /\ delClient(at)
    /\ Return

-----------------------------------------------------------------------------

Parse ==
    \/ \E n \in Names : parseText(n)
    \/ \E t \in Tokens : parseTag(t)
    \/ \E t \in Tokens, key \in {"source", "class"} : addFilter(t, key)
    \/ \E t \in Tokens, key \in {"source", "class"} : delFilter(t, key)
    \/ \E t \in Tokens : xapMessage(t)

\* What the main thread does on its own.
Main ==
    \/ select
    \/ readSockets_Skip
    \/ readSockets_End
    \/ incomingXapPacket
    \/ \E c \in Cells : addClient(c)
    \/ addClient_Fails
    \/ \E h \in {"web", "policy"} : webServerHandler(h)
    \/ \E c \in Cells : clientListener(c)
    \/ Parse
    \/ clientListener_Return
    \/ clientListener_Delete

\* What it does when a peer has sent it something or taken something from it.
Awaited ==
    \/ webServerHandler_Read
    \/ \E m \in SUBSET {<<f.key, f.value>> : f \in Elements(filterList)}, failed \in SUBSET clientList :
          incomingXapPacket_Sent(m, failed)
    \/ \E t \in Tokens, authorized, ok \in BOOLEAN : login(t, authorized, ok)

Next ==
    \/ Main
    \/ Awaited
    \/ txLoop_Pop
    \/ txLoop_Send
    \/ \E c \in Cells : PeerCloses(c)
    \/ \E c \in Cells : PeerDrained(c)

Spec == Init /\ [][Next]_vars

\* Both threads go on, and what a peer sent before it closed has an end;
\* whether a web peer ever sends its request, and whether a client ever reads
\* what is sent to it, is its own affair.
FairSpec ==
    /\ Spec
    /\ WF_vars(Main) /\ WF_vars(txLoop_Pop) /\ WF_vars(txLoop_Send)
    /\ \A c \in Cells : WF_vars(PeerDrained(c))

-----------------------------------------------------------------------------
(***************************************************************************)
(* Properties.                                                             *)
(***************************************************************************)

Packet == [client : Cells, own : BOOLEAN]
Listeners == Cells \cup {"web", "policy", "server", "udp"}

\* The variables have their types.  main.c: struct _client, ClientPacket.
TypeOK ==
    /\ pc \in {"select", "walk", "client", "blocked"}
    /\ at \in Listeners \cup {None}
    /\ tmp \in Listeners \cup {None}
    /\ connectionList \in Seq(Listeners)
    /\ clientList \subseteq Cells
    /\ client \in [Cells -> [connected : BOOLEAN, firstMessage : BOOLEAN, state : States,
                              ident : Names \cup {Empty}, rxFrame : 0 .. FRAMES - 1,
                              txFrame : 0 .. FRAMES - 1]]
    /\ peer \in [Cells -> {"open", "closing", "closed", "reset"}]
    /\ filterList \in Seq(Filter)
    /\ txq \in Seq(Packet)
    /\ p \in Packet \cup {None}
    /\ wanted \in [Cells -> SUBSET (Names \cup {Empty})]
    /\ txOwn \in [Cells -> 0 .. FRAMES - 1]

(* No callback is left pointing to a client that has been freed: filters    *)
(* belong to clients in use, and these are the clients with a listener,     *)
(* each with one.  main.c: delClient(), addClient(), firstClientMessage().  *)
NoDanglingClient ==
    /\ {f.client : f \in Elements(filterList)} \subseteq clientList
    /\ Elements(connectionList) \cap Cells = clientList
    /\ Len(connectionList) = 4 + Cardinality(clientList)

(* The walk over the listeners stands on a listener that still exists, and  *)
(* so does what it has saved to go on with, although clients come and go    *)
(* during the walk.  rx.c, readSockets(): "We use safe as the callback      *)
(* could deregister the socket callback."                                   *)
WalkOnList ==
    /\ pc \in {"walk", "client", "blocked"} => at \in Elements(connectionList) \cup {None}
    /\ pc \in {"client", "blocked"} => at # None /\ tmp \in Elements(connectionList) \cup {None}

(* A client gets what it asked for: it has one source filter for each       *)
(* source it added and did not delete, whatever other clients do, and       *)
(* exactly one target filter once it has said who it is.  main.c:           *)
(* uniqueFilter(), parseiServerMsg(), firstClientMessage().                 *)
FiltersFollowRequests ==
    \A c \in clientList :
        LET Of(key) == {i \in 1 .. Len(filterList) : filterList[i].client = c /\ filterList[i].key = key}
        IN  /\ {filterList[i].value : i \in Of("source")} = wanted[c]
            /\ Cardinality(Of("source")) = Cardinality(wanted[c])
            /\ Cardinality(Of("target")) = IF client[c].firstMessage THEN 0 ELSE 1

(* A client whose connection has ended is deleted in the end, however it    *)
(* ended and whether or not a send noticed, as long as no peer keeps the    *)
(* main thread in a callback for ever: a web or policy peer that sends no   *)
(* request, a client that never stops sending, a client that stays          *)
(* connected and stops reading what xAPtoClient() sends to it.              *)
(* main.c: clientListener(), sendAll().                                     *)
GoneClientDeleted ==
    []<>(pc \notin {"blocked", "client"}) =>
        \A c \in Cells : (c \in clientList /\ peer[c] # "open") ~> c \notin clientList

(* txFrame, which opt_f puts into a packet for "making sure no packets are  *)
(* being lost", counts the packets of its own client.  main.c: txLoop(),    *)
(* injectFrameSequence().                                                   *)
TxFrameCountsOwn == \A c \in clientList : client[c].txFrame = txOwn[c]
=============================================================================
