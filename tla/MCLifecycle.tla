---------------------------- MODULE MCLifecycle ----------------------------
(* Bounds for the instance of Lifecycle: two updates of two releases. *)
EXTENDS Lifecycle

TwoUpdaters == {"first", "second"}
TwoReleases == {"old", "new"}
=============================================================================
