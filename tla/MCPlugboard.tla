----------------------------- MODULE MCPlugboard ----------------------------
(* Plugboard on a small instance. *)
EXTENDS Plugboard

MCKnown == <<"phone">>
=============================================================================
