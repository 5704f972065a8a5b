----------------------------- MODULE XapFilter ------------------------------
(***************************************************************************)
(* The filters of the library (xaplib2/filter.c) and what they look up in  *)
(* a message (parse.c).                                                    *)
(*                                                                         *)
(* An address is a sequence of characters, of which only the separators,   *)
(* the wildcards and equality but for case matter.  A message is the       *)
(* sequence of its entries, a filter an entry that it is compared with.    *)
(***************************************************************************)
EXTENDS XapParse

CONSTANTS
    Words,      \* the names an address is made of, sequences of characters
    FIELDS      \* bound on the fields of an address

ASSUME WordAssumption == \A w \in Words : w \in Seq({"a", "A", "b"}) /\ w # <<>>
ASSUME FieldAssumption == FIELDS \in Nat \ {0}

tolower(c) == IF c = "A" THEN "a" ELSE c

strcasecmp(s, t) == Len(s) = Len(t) /\ \A k \in DOMAIN s : tolower(s[k]) = tolower(t[k])

Wildcards == {"*", ">"}

\* The first place in s from j on with a character in C, or the end.
Until(s, j, C) ==
    CHOOSE k \in j .. Len(s) + 1 :
        /\ k = Len(s) + 1 \/ s[k] \in C
        /\ \A m \in j .. k - 1 : s[m] \notin C

\* Fault: '*' runs on to the sub-address.
Skipped_Dots(s, c, j) == Until(s, j, {":"})

\* Where the address is taken up again behind a wildcard c.
Skipped(s, c, j) == IF c = ">" THEN Until(s, j, {":"}) ELSE Until(s, j, {".", ":"})

\* One character on, unless at the end.
Onward(t, k) == IF k <= Len(t) THEN k + 1 ELSE k

\* The loop from character i of the pattern and j of the address: a wildcard and the
\* character behind it are passed together, and so is the one behind what it matched.
Loop(p, s) ==
    LET m[i \in 1 .. Len(p) + 1] == [j \in 1 .. Len(s) + 1 |->
            IF i > Len(p) \/ j > Len(s) THEN i > Len(p) /\ j > Len(s)
            ELSE IF p[i] \in Wildcards THEN m[Onward(p, i + 1)][Onward(s, Skipped(s, p[i], j))]
            ELSE tolower(p[i]) = tolower(s[j]) /\ m[i + 1][j + 1]]
    IN  m

xapFilterAddrSubaddress(p, s) ==
    IF p = <<>> THEN TRUE
    ELSE IF \A i \in DOMAIN p : p[i] \notin Wildcards THEN strcasecmp(p, s)
    ELSE Loop(p, s)[1][1]

-----------------------------------------------------------------------------
(***************************************************************************)
(* Chains of filters.                                                      *)
(***************************************************************************)

\* The section xap-header and its keys; strings are sequences of characters.
HEADER == <<"x">>
TARGET == <<"t">>
SOURCE == <<"s">>
CLASS == <<"c">>

NULL == <<"NULL">>
XAP_FILTER_ANY == <<"XAP_FILTER_ANY">>
XAP_FILTER_ABSENT == <<"XAP_FILTER_ABSENT">>

\* xapGetValueF(): the first entry of that section and key; an empty section has no key
\* and something for its value.
xapGetValue(msg, section, key) ==
    LET found == {k \in DOMAIN msg :
                     strcasecmp(section, msg[k].section) /\ strcasecmp(key, msg[k].key)}
        first == CHOOSE k \in found : \A m \in found : k <= m
    IN  IF found = {} THEN NULL
        ELSE IF key = NULL /\ msg[first].value = NULL THEN XAP_FILTER_ANY
        ELSE msg[first].value

\* What one filter says; a wildcard is in the message's target, in the filter's source
\* and class.
Accepts(f, v) ==
    IF f.value = XAP_FILTER_ABSENT THEN v = NULL
    ELSE IF f.value = XAP_FILTER_ANY THEN v # NULL
    ELSE IF v = NULL THEN FALSE
    ELSE IF f.section = HEADER /\ f.key = TARGET THEN xapFilterAddrSubaddress(v, f.value)
    ELSE IF f.section = HEADER /\ f.key \in {SOURCE, CLASS} THEN xapFilterAddrSubaddress(f.value, v)
    ELSE strcasecmp(v, f.value)

xapCompareFilters(head, msg) ==
    \A k \in DOMAIN head : Accepts(head[k], xapGetValue(msg, head[k].section, head[k].key))

-----------------------------------------------------------------------------
(***************************************************************************)
(* What addresses and patterns mean.  They are sequences of fields, each   *)
(* with the separator in front of it; '*' is one field, '>' the rest of    *)
(* the address, or of the sub-address, and no other field follows it there.*)
(***************************************************************************)

OneSub(a) == \A j, k \in DOMAIN a : a[j].sep = ":" /\ a[k].sep = ":" => j = k

FieldsOf(names) ==
    {a \in UNION {[1 .. n -> [sep : {".", ":"}, name : names]] : n \in 1 .. FIELDS} :
        /\ a[1].sep = "."
        /\ OneSub(a)
        /\ \A k \in DOMAIN a : a[k].name = <<">">> => k = Len(a) \/ a[k + 1].sep = ":"}

Addresses == FieldsOf(Words)
Patterns == FieldsOf(Words \cup {<<"*">>, <<">">>})

\* As it is written.
Pieces(a) == [k \in DOMAIN a |-> IF k = 1 THEN a[1].name ELSE <<a[k].sep>> \o a[k].name]
Text(a) == Joined(Pieces(a))[Len(a)]

\* Where the sub-address begins, behind the end when there is none.
SubAt(a) ==
    CHOOSE k \in 1 .. Len(a) + 1 :
        /\ k = Len(a) + 1 \/ a[k].sep = ":"
        /\ \A j \in 1 .. k - 1 : a[j].sep # ":"

SameName(x, y) == x.name = <<"*">> \/ strcasecmp(x.name, y.name)

PartCovers(p, a) ==
    IF p # <<>> /\ p[Len(p)].name = <<">">>
    THEN Len(a) >= Len(p) /\ \A k \in 1 .. Len(p) - 1 : SameName(p[k], a[k])
    ELSE Len(a) = Len(p) /\ \A k \in DOMAIN p : SameName(p[k], a[k])

\* The address proper, and the sub-address.
Covers(p, a) ==
    /\ PartCovers(SubSeq(p, 1, SubAt(p) - 1), SubSeq(a, 1, SubAt(a) - 1))
    /\ PartCovers(SubSeq(p, SubAt(p), Len(p)), SubSeq(a, SubAt(a), Len(a)))

\* p with any separators behind its '*'.
Separated(p) ==
    {q \in [DOMAIN p -> [sep : {".", ":"}, name : {p[k].name : k \in DOMAIN p}]] :
        OneSub(q) /\ \A k \in DOMAIN p :
            /\ q[k].name = p[k].name
            /\ k = 1 \/ p[k - 1].name # <<"*">> => q[k].sep = p[k].sep}
=============================================================================
