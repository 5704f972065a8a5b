----------------------------- MODULE XapSerial ------------------------------
(***************************************************************************)
(* xap-serial (serial.c): serial ports that xAP messages open, write to    *)
(* and close, and whose lines are published, on xaplib2's walk over its    *)
(* socket listeners (rx.c, init.c).                                        *)
(*                                                                         *)
(* The listener of the xAP socket is the oldest and so the last in the     *)
(* list; its callback runs the filters' actions, which add and delete the  *)
(* listeners of ports in the middle of the walk.  Each system call that    *)
(* another process can get in between of is a step: a device may be        *)
(* locked by another program between our close and our open of it.         *)
(*                                                                         *)
(* A listener is known by its file descriptor.  A line is the number of    *)
(* its characters.                                                         *)
(***************************************************************************)
EXTENDS Integers, Sequences, SequencesExt, FiniteSets

CONSTANTS
    Names,      \* the values of port=
    Devices,
    DeviceOf,   \* the device a name leads to: there may be two for one
    Fds,        \* file descriptors, numbers
    Chunks,     \* what one read() returns: a sequence of "c", a character, and "n", a line end
    SLEN,       \* the first size of a buffer, 32
    LIMIT,      \* XAP_DATA_LEN
    RETRIES,    \* 6
    LINE,       \* bound on the length of a line
    Other,      \* another program
    None

ASSUME NameAssumption == DeviceOf \in [Names -> Devices] /\ None \notin Names
ASSUME FdAssumption == Fds \subseteq Nat \ {0} /\ Other # None /\ {Other, None} \cap (Fds \cup {0}) = {}
ASSUME ChunkAssumption == \A chunk \in Chunks : chunk \in Seq({"c", "n"})
ASSUME SizeAssumption == {SLEN, LIMIT, RETRIES, LINE} \subseteq Nat \ {0} /\ RETRIES > 1
\* line counts at least as far as the largest buffer reaches.
ASSUME LineAssumption == SLEN <= LINE /\ 2 * LIMIT <= LINE

VARIABLES
    up,         \* the process runs
    ports,      \* serialList
    listeners,  \* gXAP->connectionList, file descriptors; 0 is the xAP socket
    files,      \* our open files: file descriptor to device
    locks,      \* who holds the flock() of a device: a descriptor of ours, Other or None
    ready,      \* the descriptors select() returned that are still to be served
    cur, next,  \* list and tmp of readSockets(); None outside the walk
    calls,      \* what the filters' actions have still to do
    tries       \* i of sendSerialMsg(), 0 outside it and RETRIES in its tcdrain()

vars == <<up, ports, listeners, files, locks, ready, cur, next, calls, tries>>

loop == <<ready, cur, next>>

XAP == 0

\* The settings of a message: accepted, with flow=none or flow=xonxoff, or not.
Params == {"none", "xonxoff", "refused"}

NoFiles == [fd \in {} |-> None]

Init ==
    /\ up = TRUE
    /\ ports = <<>>
    /\ listeners = <<XAP>>
    /\ files = NoFiles
    /\ locks = [d \in Devices |-> None]
    /\ ready = {} /\ cur = None /\ next = None
    /\ calls = <<>>
    /\ tries = 0

-----------------------------------------------------------------------------
(***************************************************************************)
(* The walk over the listeners.                                            *)
(***************************************************************************)

\* The listener after fd, None after the last.
After(fd) ==
    LET k == SelectInSeq(listeners, LAMBDA l : l = fd) IN
    IF k \in 1 .. Len(listeners) - 1 THEN listeners[k + 1] ELSE None

\* xapProcess(): select() returns.
select(R) ==
    /\ up /\ cur = None
    /\ R # {} /\ R \subseteq Range(listeners)
    /\ ready' = R
    /\ cur' = listeners[1]
    /\ next' = After(listeners[1])
    /\ UNCHANGED <<up, ports, listeners, files, locks, calls, tries>>

\* readSockets(): on to the listener that was saved before the callback.
readSockets_Next ==
    /\ up /\ cur # None /\ cur \notin ready /\ calls = <<>>
    /\ cur' = next
    /\ next' = IF next = None THEN None ELSE After(next)
    /\ ready' = IF next = None THEN {} ELSE ready
    /\ UNCHANGED <<up, ports, listeners, files, locks, calls, tries>>

\* Fault: a new listener goes to the end of the list.
Registered_Last(fd) == Append(listeners, fd)

\* xapAddSocketListener(): LL_PREPEND
Registered(fd) == <<fd>> \o listeners

-----------------------------------------------------------------------------
(***************************************************************************)
(* Lines from a port.                                                      *)
(***************************************************************************)

\* Fault: the buffer grows for the first character that does not fit.
Stored_Late(p) ==
    IF p.sPos + 1 <= p.sLen THEN [p EXCEPT !.sPos = @ + 1]
    ELSE IF p.sLen > LIMIT THEN p ELSE [p EXCEPT !.sPos = @ + 1, !.sLen = 2 * @]

\* A character is put at sPos; a full buffer grows, up to a size.
Stored(p) ==
    IF p.sPos + 1 < p.sLen THEN [p EXCEPT !.sPos = @ + 1]
    ELSE IF p.sLen > LIMIT THEN p ELSE [p EXCEPT !.sPos = @ + 1, !.sLen = 2 * @]

\* line is history: the characters since the last line end.
Read(ch, p) ==
    IF ch = "n" THEN [p EXCEPT !.sPos = 0, !.line = 0]
    ELSE [Stored(p) EXCEPT !.line = IF @ < LINE THEN @ + 1 ELSE @]

\* The port after the characters of a read(), one by one.
ReadAll(p, chunk) ==
    LET after[i \in 0 .. Len(chunk)] == IF i = 0 THEN p ELSE Read(chunk[i], after[i - 1])
    IN  after[Len(chunk)]

\* xapSerialRx(), the callback of the port's listener.
xapSerialRx(chunk) ==
    /\ up /\ cur \in ready \ {XAP}
    /\ ready' = ready \ {cur}
    /\ ports' = [k \in DOMAIN ports |->
                    IF ports[k].fd = cur THEN ReadAll(ports[k], chunk) ELSE ports[k]]
    /\ UNCHANGED <<up, listeners, files, locks, cur, next, calls, tries>>

-----------------------------------------------------------------------------
(***************************************************************************)
(* Messages.                                                               *)
(***************************************************************************)

\* handleXapPacket(): the filters whose sections the message has, the last
\* registered first.  None stands for a section that is not there.
handleXapPacket(close, send, setup, param) ==
    LET call(op, n, x) == IF n = None THEN <<>> ELSE <<[op |-> op, port |-> n, param |-> x]>> IN
    /\ up /\ cur = XAP /\ XAP \in ready
    /\ ready' = ready \ {XAP}
    /\ calls' = call("close", close, None) \o call("send", send, None)
                   \o call("close", setup, None) \o call("open", setup, param)
    /\ UNCHANGED <<up, ports, listeners, files, locks, cur, next, tries>>

Calls(op) == up /\ calls # <<>> /\ Head(calls).op = op

\* The position of the named port in serialList, 0 if it is not there.
findDevice(n) == SelectInSeq(ports, LAMBDA p : p.name = n)

\* The lock of a file goes with it.
Unlocked(fd) == [d \in Devices |-> IF locks[d] = fd THEN None ELSE locks[d]]

closeSerialPort_None ==
    /\ Calls("close")
    /\ findDevice(Head(calls).port) = 0
    /\ calls' = Tail(calls)
    /\ UNCHANGED <<up, ports, listeners, files, locks, loop, tries>>

\* xapDelSocketListener(xapFindSocketListenerByFD())
Delisted(fd) == RemoveFirst(listeners, fd)

closeSerialPort ==
    /\ Calls("close")
    /\ LET k == findDevice(Head(calls).port)
           fd == ports[k].fd
       IN  /\ k # 0
           /\ Contains(listeners, fd)
           /\ locks' = Unlocked(fd)
           /\ files' = [f \in DOMAIN files \ {fd} |-> files[f]]
           /\ listeners' = Delisted(fd)
           /\ ports' = RemoveAt(ports, k)
    /\ calls' = Tail(calls)
    /\ UNCHANGED <<up, loop, tries>>

\* A port without a listener is closed: xapDelSocketListener(NULL).
closeSerialPort_Crash ==
    /\ Calls("close")
    /\ LET k == findDevice(Head(calls).port) IN k # 0 /\ ~Contains(listeners, ports[k].fd)
    /\ up' = FALSE
    /\ locks' = [d \in Devices |-> IF locks[d] \in DOMAIN files THEN None ELSE locks[d]]
    /\ files' = NoFiles
    /\ ports' = <<>> /\ listeners' = <<>> /\ calls' = <<>>
    /\ ready' = {} /\ cur' = None /\ next' = None
    /\ UNCHANGED tries

Free == Fds \ DOMAIN files

\* open(): the lowest descriptor that is free.
Lowest == CHOOSE fd \in Free : \A f \in Free : fd <= f

\* Fault: the file stays open when it is locked already.
xapSerialSetup_Fails_Open ==
    /\ Calls("open")
    /\ calls' = Tail(calls)
    /\ files' = IF Free = {} THEN files
                ELSE [f \in DOMAIN files \cup {Lowest} |->
                         IF f = Lowest THEN DeviceOf[Head(calls).port] ELSE files[f]]
    /\ UNCHANGED <<up, ports, listeners, locks, loop, tries>>

\* xapSerialSetup() up to the failure of open(), as when the device is not plugged in, of
\* flock() or of fcntl().
xapSerialSetup_Fails ==
    /\ Calls("open")
    /\ calls' = Tail(calls)
    /\ UNCHANGED <<up, ports, listeners, files, locks, loop, tries>>

\* waits: the device can hold up the output, by XOFF or, under the settings a
\* port has at first (CRTSCTS), by CTS.
Port(n, fd, param) ==
    [name |-> n, fd |-> fd, sLen |-> SLEN, sPos |-> 0, line |-> 0, waits |-> param # "none"]

\* The port is listed and locked before its settings are looked at; one that
\* is refused leaves it without a listener and with the first settings.
xapSerialSetup ==
    LET n == Head(calls).port
        d == DeviceOf[n]
    IN  /\ Calls("open")
        /\ Free # {} /\ locks[d] = None
        /\ files' = [f \in DOMAIN files \cup {Lowest} |-> IF f = Lowest THEN d ELSE files[f]]
        /\ locks' = [locks EXCEPT ![d] = Lowest]
        /\ ports' = Append(ports, Port(n, Lowest, Head(calls).param))
        /\ listeners' = IF Head(calls).param # "refused" THEN Registered(Lowest) ELSE listeners
        /\ calls' = Tail(calls)
        /\ UNCHANGED <<up, loop, tries>>

-----------------------------------------------------------------------------
(***************************************************************************)
(* Writing to a port.                                                      *)
(***************************************************************************)

\* xapSerialTx() for a port that is not there.
xapSerialTx_None ==
    /\ Calls("send") /\ tries = 0
    /\ findDevice(Head(calls).port) = 0
    /\ calls' = Tail(calls)
    /\ UNCHANGED <<up, ports, listeners, files, locks, loop, tries>>

xapSerialTx ==
    /\ Calls("send") /\ tries = 0
    /\ findDevice(Head(calls).port) # 0
    /\ tries' = 1
    /\ UNCHANGED <<up, ports, listeners, files, locks, loop, calls>>

\* Fault: the attempts are counted anew.
sendSerialMsg_Again_Forever ==
    /\ tries \in 1 .. RETRIES - 1
    /\ tries' = IF tries + 1 < RETRIES THEN tries + 1 ELSE 1
    /\ UNCHANGED <<up, ports, listeners, files, locks, loop, calls>>

\* sendSerialMsg(): EAGAIN, and a sleep.
sendSerialMsg_Again ==
    /\ tries # 0 /\ tries + 1 < RETRIES
    /\ tries' = tries + 1
    /\ UNCHANGED <<up, ports, listeners, files, locks, loop, calls>>

\* Written, in part perhaps, or an error that is not EAGAIN.
sendSerialMsg_Written ==
    /\ tries \in 1 .. RETRIES - 1
    /\ tries' = RETRIES
    /\ UNCHANGED <<up, ports, listeners, files, locks, loop, calls>>

\* tcdrain() is waiting for a device that may take its time.
Held == tries = RETRIES /\ ports[findDevice(Head(calls).port)].waits

Returns ==
    /\ tries' = 0
    /\ calls' = Tail(calls)
    /\ UNCHANGED <<up, ports, listeners, files, locks, loop>>

\* EAGAIN for the last time, or tcdrain() has let the output go at its speed.
sendSerialMsg_Return == (tries = RETRIES - 1 \/ (tries = RETRIES /\ ~Held)) /\ Returns

\* tcdrain(): the device lets the output go.
sendSerialMsg_Released == Held /\ Returns

-----------------------------------------------------------------------------

\* init starts the process again.
Restart ==
    /\ ~up
    /\ up' = TRUE
    /\ listeners' = <<XAP>>
    /\ UNCHANGED <<ports, files, locks, loop, calls, tries>>

\* Another program takes or gives up a device.
OtherProgram(d) ==
    /\ locks[d] \in {None, Other}
    /\ locks' = [locks EXCEPT ![d] = IF @ = None THEN Other ELSE None]
    /\ UNCHANGED <<up, ports, listeners, files, loop, calls, tries>>

\* The process from a return of select() to the next call of it.
Process ==
    \/ readSockets_Next
    \/ \E chunk \in Chunks : xapSerialRx(chunk)
    \/ \E close, send, setup \in Names \cup {None}, param \in Params :
          handleXapPacket(close, send, setup, param)
    \/ closeSerialPort_None
    \/ closeSerialPort
    \/ closeSerialPort_Crash
    \/ xapSerialSetup_Fails
    \/ xapSerialSetup
    \/ xapSerialTx_None
    \/ xapSerialTx
    \/ sendSerialMsg_Again
    \/ sendSerialMsg_Written
    \/ sendSerialMsg_Return

Next ==
    \/ \E R \in SUBSET Range(listeners) : select(R)
    \/ Process
    \/ sendSerialMsg_Released
    \/ Restart
    \/ \E d \in Devices : OtherProgram(d)

Spec == Init /\ [][Next]_vars

\* The process runs; no device, program or peer need do anything, not even one
\* that holds up the output.
FairSpec == Spec /\ WF_vars(Process)

-----------------------------------------------------------------------------
(***************************************************************************)
(* Properties.                                                             *)
(***************************************************************************)

\* The variables have their types.  serial.c: struct serialPort.
TypeOK ==
    /\ up \in BOOLEAN
    /\ ports \in Seq([name : Names, fd : Fds, sLen : Nat, sPos : Nat, line : Nat, waits : BOOLEAN])
    /\ listeners \in Seq(Fds \cup {XAP})
    /\ DOMAIN files \subseteq Fds /\ files \in [DOMAIN files -> Devices]
    /\ locks \in [Devices -> Fds \cup {Other, None}]
    /\ ready \subseteq Fds \cup {XAP} /\ {cur, next} \subseteq Fds \cup {XAP, None}
    /\ calls \in Seq([op : {"close", "send", "open"}, port : Names, param : Params \cup {None}])
    /\ tries \in 0 .. RETRIES
    /\ (tries # 0) => Calls("send")

(* The walk over the listeners stays on the list: the callback that frees   *)
(* listeners is the last to be called, so none is freed that the walk has   *)
(* saved as its next.  rx.c: readSockets(), "We use safe as the callback    *)
(* could deregister the socket callback", which is enough for its own only. *)
WalkOnList == next \in Range(listeners) \cup {None}

(* Whatever fails, messages and other programs do: a device that is open is *)
(* the file of one listed port, locked by it, no name is listed twice, and  *)
(* a listener's port is not freed before it.  serial.c: xapSerialSetup(),   *)
(* closeSerialPort().                                                       *)
PortsOwnFiles ==
    /\ Cardinality(DOMAIN files) = Len(ports)
    /\ \A k \in DOMAIN ports : LET p == ports[k] IN
          /\ p.fd \in DOMAIN files /\ files[p.fd] = DeviceOf[p.name]
          /\ locks[files[p.fd]] = p.fd
          /\ findDevice(p.name) = k
    /\ Range(listeners) \ {XAP} \subseteq {ports[k].fd : k \in DOMAIN ports}
    /\ IsInjective(listeners)

(* A character always has a place in the buffer, and however a line is cut  *)
(* up by reads and however often the buffer has grown, what is collected of *)
(* it is all that fits: no more than the last size less one.  serial.c:     *)
(* xapSerialRx().                                                           *)
BufferHoldsLine ==
    \A k \in DOMAIN ports : LET p == ports[k] IN
        /\ p.sPos < p.sLen
        /\ p.sPos = p.line \/ (p.sLen > LIMIT /\ p.sPos = p.sLen - 1 /\ p.line > p.sPos)

(* A port that cannot be written to holds up the daemon for a while only:   *)
(* it comes back to select() or is restarted, however many messages are for *)
(* the port, unless a device that controls the flow holds up what has been  *)
(* written for ever, for which tcdrain() waits without a limit.  serial.c:  *)
(* sendSerialMsg().                                                         *)
BackToSelect == []<>~Held => []<>(~up \/ cur = None)
=============================================================================
