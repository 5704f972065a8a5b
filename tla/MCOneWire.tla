------------------------------ MODULE MCOneWire -----------------------------
(* OneWire on a small instance. *)
EXTENDS OneWire

\* A value that prevValue[6] cuts to -100, one that then differs from it by no
\* more than the hysteresis of 60 degrees, and one that so differs from that;
\* the last two are as near to 0.
MCReadings == {-1009, -400, 200}

\* One endpoint, numbered 2, or none, with a timeout and without.
MCInis == [romid : {<<>>, <<None, "r">>}, timeout : BOOLEAN]

\* Two sensors, the first of which may lose its ROM id.
MCTwo == [romid : {<<"q", "r">>, <<None, "r">>}, timeout : {FALSE}]
=============================================================================
