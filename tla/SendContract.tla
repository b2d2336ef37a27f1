---------------------------- MODULE SendContract ----------------------------
(***************************************************************************)
(* What one call of sender.Client.Send may have done by the time it        *)
(* returns, as far as its callers can tell: the answer it gives and how    *)
(* many copies of the batch the collector accepted during the call.        *)
(* Delivery uses the contract in place of the call; Sender, the detailed   *)
(* model of the call, is checked to honour it.                             *)
(***************************************************************************)
EXTENDS Naturals

\* nil, an error with Temporary set, an error without it.
Answers == {"ok", "temporary", "permanent"}

(***************************************************************************)
(* One answer with the number of copies accepted, where 2 stands for two   *)
(* or more.  Nothing is transmitted while the token is empty.  With a      *)
(* token, a batch answered "ok" was accepted, and only a collector that    *)
(* refuses the batch ("reject") makes the answer permanent.  A copy that   *)
(* Send does not report is one whose answer was lost ("lostAck"), or the   *)
(* one in the request that the end of the context ("cancel") cut short.    *)
(* Behind a redirection ("redirect") any server answers for the collector. *)
(***************************************************************************)
Unreported(r) == r.copies > (IF r.answer = "ok" THEN 1 ELSE 0)

SendResults(token, faults) ==
    IF ~token
    THEN {[answer |-> "permanent", copies |-> 0]}
    ELSE {r \in [answer : Answers, copies : 0..2] :
            \/ "redirect" \in faults
            \/ /\ r.answer = "ok" => r.copies >= 1
               /\ r.answer = "permanent" => "reject" \in faults
               /\ Unreported(r) =>
                    \/ "lostAck" \in faults
                    \/ "cancel" \in faults /\ r = [answer |-> "temporary", copies |-> 1]}

=============================================================================
