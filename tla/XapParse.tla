------------------------------ MODULE XapParse ------------------------------
(***************************************************************************)
(* The message parser of the library and its inverse (xaplib2/parse.c).    *)
(*                                                                         *)
(* A packet is a sequence of bytes: a letter stands for the printable      *)
(* ones without a meaning of their own, "nl" for the control characters.   *)
(* The parser cuts the packet up in place; an entry has the strings that   *)
(* its pointers lead to.  sec tells the sections of a packet apart, as     *)
(* their pointers do.                                                      *)
(***************************************************************************)
EXTENDS Integers, Sequences

CONSTANT MSG_ELEMENTS    \* XAP_MSG_ELEMENTS, 150

ASSUME ElementAssumption == MSG_ELEMENTS \in Nat \ {0}

Nil == <<"NULL">>

\* rtrim(), from the end of s backwards; what it trims in front of s is no loss.
rtrim(s) ==
    LET kept == {k \in DOMAIN s : s[k] # "nl"}
    IN  IF kept = {} THEN <<>> ELSE SubSeq(s, 1, CHOOSE k \in kept : \A m \in kept : m <= k)

Entry(n, section, key, value) == [sec |-> n, section |-> section, key |-> key, value |-> value]

\* Before the first byte.  cur is what has been read of the name or value.
Start == [state |-> "START_SECTION_NAME", n |-> 0, section |-> <<>>, key |-> <<>>, cur |-> <<>>,
          keycount |-> 0, parsedMsg |-> <<>>, stop |-> FALSE]

inSectionStart(r, b) ==
    IF b = "nl" THEN r ELSE [r EXCEPT !.state = "IN_SECTION_NAME", !.cur = <<b>>, !.n = @ + 1]

inSectionName(r, b) ==
    IF b = "{"
    THEN [r EXCEPT !.state = "START_KEYNAME", !.section = rtrim(r.cur), !.keycount = 0]
    ELSE [r EXCEPT !.cur = Append(@, b)]

\* A key, or the end of a section without one, is put behind parsedMsg[] when that is
\* full.  Only a line that ends stops the parser, so an empty section in the last place
\* lets it get there.
inKeyStart(r, b) ==
    IF b = "nl" THEN r
    ELSE IF b = "}" /\ r.keycount # 0 THEN [r EXCEPT !.state = "START_SECTION_NAME"]
    ELSE IF Len(r.parsedMsg) >= MSG_ELEMENTS THEN [r EXCEPT !.state = "OVERRUN"]
    ELSE IF b = "}"
    THEN [r EXCEPT !.state = "START_SECTION_NAME",
                   !.parsedMsg = Append(@, Entry(r.n, r.section, Nil, Nil))]
    ELSE [r EXCEPT !.state = "IN_KEYNAME", !.cur = <<b>>]

inKeyName(r, b) ==
    IF b \in {"nl", "="}
    THEN [r EXCEPT !.state = "IN_KEYVALUE", !.key = rtrim(r.cur), !.cur = <<>>]
    ELSE [r EXCEPT !.cur = Append(@, b)]

\* Fault: the value is taken as it comes.
inKeyValue_Early(r, b) ==
    IF b = "nl"
    THEN [r EXCEPT !.state = "START_KEYNAME", !.keycount = @ + 1]
    ELSE [r EXCEPT !.cur = Append(@, b),
                   !.parsedMsg = Append(@, Entry(r.n, r.section, r.key, Append(r.cur, b)))]

\* A value counts when its line has ended.
inKeyValue(r, b) ==
    IF b = "nl"
    THEN [r EXCEPT !.state = "START_KEYNAME", !.keycount = @ + 1,
                   !.parsedMsg = Append(@, Entry(r.n, r.section, r.key, rtrim(r.cur))),
                   !.stop = Len(r.parsedMsg) + 1 >= MSG_ELEMENTS]
    ELSE [r EXCEPT !.cur = Append(@, b)]

\* OVERRUN is no state of the parser: what it overwrote is not followed any further.
parseByte(r, b) ==
    CASE r.stop \/ r.state = "OVERRUN" -> r
      [] ~r.stop /\ r.state = "START_SECTION_NAME" -> inSectionStart(r, b)
      [] ~r.stop /\ r.state = "IN_SECTION_NAME" -> inSectionName(r, b)
      [] ~r.stop /\ r.state = "START_KEYNAME" -> inKeyStart(r, b)
      [] ~r.stop /\ r.state = "IN_KEYNAME" -> inKeyName(r, b)
      [] ~r.stop /\ r.state = "IN_KEYVALUE" -> inKeyValue(r, b)

\* Entry k is the last of its section.
Closes(msg, k) == k = Len(msg) \/ msg[k + 1].sec # msg[k].sec

\* The bytes of entry k.
Written(msg, k) ==
    (IF k = 1 \/ msg[k - 1].sec # msg[k].sec THEN msg[k].section \o <<"nl", "{", "nl">> ELSE <<>>)
    \o (IF msg[k].key # Nil THEN msg[k].key \o <<"=">> \o msg[k].value \o <<"nl">> ELSE <<>>)
    \o (IF Closes(msg, k) THEN <<"}", "nl">> ELSE <<>>)

Lines(msg) == [k \in DOMAIN msg |-> Written(msg, k)]

\* The first k of w one behind the other, for each k.
Joined(w) ==
    LET t[k \in 0 .. Len(w)] == IF k = 0 THEN <<>> ELSE t[k - 1] \o w[k]
    IN  t

parsedMsgToRawF(msg) == Joined(Lines(msg))[Len(msg)]
=============================================================================
