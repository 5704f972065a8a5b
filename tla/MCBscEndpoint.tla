--------------------------- MODULE MCBscEndpoint ---------------------------
(* BscEndpoint on a small instance. *)
EXTENDS BscEndpoint

Section(ids, words, texts) == [id : ids, state : words, text : texts]

UpTo(n, S) == UNION {[1 .. m -> S] : m \in 0 .. n}

\* The output is of both kinds: it has a text, and a callback that does not know "off".
MCMissing == {<<"output", OFF>>}

\* One section more than are read, of toggles and a word that is none; sections for an
\* endpoint that is no output, without a state, and without the text that is needed.
MCCommands ==
    LET toggle == Section({"output"}, {"toggle"}, {"?"}) IN
    UpTo(SECTIONS + 1, toggle \cup Section({"*"}, {"junk"}, {"long"}))
        \cup UpTo(2, toggle \cup Section({"*"}, {"off"}, {"?"}) \cup Section({"input"}, {None}, {"?"})
                          \cup Section({"output"}, {"on"}, {None}))
=============================================================================
