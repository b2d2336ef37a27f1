------------------------------ MODULE MCSender ------------------------------
(***************************************************************************)
(* Transport settings for the instances of Sender, as Sanitiser makes them *)
(* of configuration files.  The backoffs are such that the cap is met at   *)
(* the first retry, at a later one, or exceeded by the initial delay; the  *)
(* statuses have one member of every class.                                *)
(***************************************************************************)
EXTENDS Sender, Sanitiser, MCDefaults

\* What Send reads of a configuration.
Of(token, transport) ==
    [token |-> token, compression |-> transport.compression,
     maxRetries |-> transport.maxRetries, initialBackoff |-> transport.initialBackoff,
     maxBackoff |-> transport.maxBackoff]

\* Zero and negative numbers stand for the defaults.
Transports ==
    {Of(token, Transport([NothingSet.transport EXCEPT
                            !.compression = c, !.maxRetries = n,
                            !.initialBackoff = b, !.maxBackoff = m])) :
        token \in BOOLEAN, c \in Switch, n \in {-1, 0, 1, 2, 4}, b \in {0, 3}, m \in {0, 2}}

EveryClass == {200, 204, 302, 400, 401, 408, 415, 429, 500, 503}
=============================================================================
