----------------------------- MODULE MCLogTail ------------------------------
(* Log files for the instances of LogTail, and how long they may get. *)
EXTENDS LogTail

OneLog  == <<"syslog">>
TwoLogs == <<"syslog", "app">>

TwoLines    == [f \in Paths |-> 2]
TwoAndThree == [f \in Paths |-> IF f = "app" THEN 2 ELSE 3]
=============================================================================
