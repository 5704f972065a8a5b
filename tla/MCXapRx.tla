------------------------------ MODULE MCXapRx -------------------------------
(* XapRx on a small instance. *)
EXTENDS XapRx

MCWords == {<<"a">>, <<"A", "b">>}

\* Nothing, an empty section alone, in the last place and with more behind it, and more
\* keys than there is room for, in one or two sections that have the name of the header.
MCBodies ==
    LET key(s) == Entry(s, HEADER, CLASS, CMD) IN
    {<<>>, <<Entry(2, HEADER, Nil, Nil)>>, <<Entry(2, HEADER, Nil, Nil), key(3)>>,
     <<key(2), Entry(3, HEADER, Nil, Nil), Entry(4, HEADER, Nil, Nil)>>,
     <<key(1), key(2)>>, <<key(2), Entry(2, HEADER, <<"a">>, <<>>)>>}
=============================================================================
