----------------------------- MODULE MCXapSerial ----------------------------
(* XapSerial on a small instance: two names, of one device or of two. *)
EXTENDS XapSerial

MCDeviceOf == "tty" :> "d" @@ "link" :> "d" @@ "usb" :> "e"
MCChunks == {<<"c">>, <<"c", "c", "c">>, <<"n">>, <<"c", "n", "c">>}
=============================================================================
