------------------------------- MODULE XapRx --------------------------------
(***************************************************************************)
(* What becomes of a packet (xaplib2/rx.c, handleXapPacket()): it is       *)
(* parsed, byte by byte, and the callbacks whose filters it passes are     *)
(* called.  A packet may be cut off anywhere, by the buffer it was written *)
(* in or by the one it is read into.                                       *)
(*                                                                         *)
(* The filters are those of BSC endpoints, one endpoint for each address:  *)
(* its class and its own address as target.                                *)
(***************************************************************************)
EXTENDS XapFilter

CONSTANT Bodies     \* what follows the header of a message, sequences of entries

CMD == <<"b", "c">>

\* A section or key: a name without the bytes that end one.
Named(s) == s \notin {<<>>, Nil} /\ \A i \in DOMAIN s : s[i] \notin {"nl", "=", "{", "}"}

\* e may come behind d: it is another key of its section or begins the next section.
Follows(d, e) ==
    \/ e.sec = d.sec /\ e.section = d.section /\ d.key # Nil /\ e.key # Nil
    \/ e.sec = d.sec + 1

\* Bodies are what daemons write: lines end where they should and no second target is
\* given.
ASSUME BodyAssumption ==
    \A b \in Bodies :
        /\ b \in Seq([sec : Nat, section : Seq(STRING), key : Seq(STRING), value : Seq(STRING)])
        /\ \A k \in DOMAIN b :
              /\ Named(b[k].section)
              /\ IF b[k].key = Nil THEN b[k].value = Nil
                 ELSE Named(b[k].key) /\ \A i \in DOMAIN b[k].value : b[k].value[i] # "nl"
              /\ Follows(IF k = 1 THEN Entry(1, HEADER, CLASS, CMD) ELSE b[k - 1], b[k])
              /\ ~strcasecmp(TARGET, b[k].key)

VARIABLES
    phase,      \* "select", "parse", "done"; "down" when its lists were overwritten
    msg,        \* the message that was sent
    to,         \* the fields of its target, <<>> when it has none
    n,          \* the number of bytes read
    frame,      \* gXAP->frame and the variables of parseMsgF()
    called      \* the addresses whose callbacks were called

rxVars == <<phase, msg, to, n, frame, called>>

RxInit == phase = "select" /\ msg = <<>> /\ to = <<>> /\ n = 0 /\ frame = Start /\ called = {}

\* bscAddEndpointFilter(): filters are prepended to their chain.
Chain(a) ==
    <<[section |-> HEADER, key |-> TARGET, value |-> Text(a)],
      [section |-> HEADER, key |-> CLASS, value |-> CMD]>>

\* A message of class c for t, the body behind the header.
Message(t, c, body) ==
    (IF t = <<>> THEN <<>> ELSE <<Entry(1, HEADER, TARGET, Text(t))>>)
        \o <<Entry(1, HEADER, CLASS, c)>> \o body

\* readXapData()
readXapData(t, c, body) ==
    /\ phase = "select"
    /\ phase' = "parse"
    /\ to' = t
    /\ msg' = Message(t, c, body)
    /\ UNCHANGED <<n, frame, called>>

Packet == parsedMsgToRawF(msg)

\* parseMsg(), one byte.
parseMsg ==
    /\ phase = "parse"
    /\ n < Len(Packet)
    /\ n' = n + 1
    /\ frame' = parseByte(frame, Packet[n + 1])
    /\ UNCHANGED <<phase, msg, to, called>>

\* The packet ends here.
filterDispatch ==
    /\ phase = "parse" /\ frame.state # "OVERRUN"
    /\ n > 0
    /\ phase' = "done"
    /\ called' = {a \in Addresses : xapCompareFilters(Chain(a), frame.parsedMsg)}
    /\ UNCHANGED <<msg, to, n, frame>>

\* Behind parsedMsg[] are connectionList, timeoutList and filterList: bytes of the packet
\* are taken for their elements, of filterList's once there is a value or an empty section.
filterDispatch_Overrun ==
    /\ phase = "parse" /\ frame.state = "OVERRUN"
    /\ phase' = "down"
    /\ called' \in {{}, {a \in Addresses : xapCompareFilters(Chain(a), frame.parsedMsg)}}
    /\ UNCHANGED <<msg, to, n, frame>>

\* Back in select(), or the program is started again.
Return ==
    /\ phase \in {"done", "down"}
    /\ phase' = "select" /\ msg' = <<>> /\ to' = <<>> /\ n' = 0 /\ frame' = Start /\ called' = {}

RxNext ==
    \/ \E t \in Patterns \cup {<<>>}, c \in {CMD, <<"B">>}, b \in Bodies : readXapData(t, c, b)
    \/ parseMsg
    \/ filterDispatch
    \/ filterDispatch_Overrun
    \/ Return

RxSpec == RxInit /\ [][RxNext]_rxVars

-----------------------------------------------------------------------------
(***************************************************************************)
(* Properties.                                                             *)
(***************************************************************************)

\* The byte that completes entry k: the end of its line, or the end of an empty section.
End(k) ==
    Len(Joined(Lines(msg))[k])
        - (IF ~Closes(msg, k) THEN 0 ELSE IF msg[k].key = Nil THEN 1 ELSE 2)

Complete == {k \in DOMAIN msg : End(k) <= n}

Fewer(x, y) == IF x < y THEN x ELSE y

(* What one daemon writes another reads: at every byte the entries that     *)
(* are there are exactly those of the message whose lines have ended, so a  *)
(* packet that is cut off anywhere has none half read, and no value under   *)
(* a wrong key or section.  Of more keys than there is room for the first   *)
(* are kept.  Nothing is written behind the entries but by a message that   *)
(* has an empty section in the last place and goes on behind it.            *)
(* parse.c: parseMsgF(), parsedMsgToRawF().                                 *)
EntriesAreComplete ==
    IF frame.state = "OVERRUN"
    THEN MSG_ELEMENTS < Len(msg) /\ msg[MSG_ELEMENTS].key = Nil /\ MSG_ELEMENTS \in Complete
    ELSE \E k \in 0 .. Len(msg) :
            /\ Complete = 1 .. k
            /\ frame.parsedMsg = SubSeq(msg, 1, Fewer(k, MSG_ELEMENTS))

\* What the message has first for that key, when it has come whole.
Came(key, value) ==
    \E k \in DOMAIN frame.parsedMsg :
        /\ msg[k].key = key /\ msg[k].value = value
        /\ \A j \in 1 .. k - 1 : msg[j].key # key

(* An endpoint is called for the messages that are meant for it and no      *)
(* others: those with its class whose target, if it arrived whole, stands   *)
(* for its address.  '*' is one field and '>' the rest of the address or    *)
(* the sub-address; only the separators behind a '*' are not told apart.    *)
(* filter.c: xapFilterAddrSubaddress(), xapCompareFilters().                *)
CalledIfMeant ==
    phase = "done" =>
        called = {a \in Addresses :
                     /\ Came(CLASS, CMD)
                     /\ to # <<>> /\ Came(TARGET, Text(to))
                     /\ \E q \in Separated(to) : Covers(q, a)}
=============================================================================
