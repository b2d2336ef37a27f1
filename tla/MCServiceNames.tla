--------------------------- MODULE MCServiceNames ---------------------------
(* Names for the instances of ServiceNames. *)
EXTENDS ServiceNames

NumberedToo == {<<"db">>, <<"db", 2>>, <<"web">>}
=============================================================================
