----------------------------- MODULE MCDelivery -----------------------------
(***************************************************************************)
(* Configurations of the agent for the instances of Delivery, as Sanitiser *)
(* makes them of configuration files.  Sizes are counted in snapshots.     *)
(***************************************************************************)
EXTENDS Delivery, MCDefaults

S == INSTANCE Sanitiser WITH Defaults <- SmallDefaults, DefaultTimeout <- 1

\* What Delivery reads of a configuration.
Of(runtime) ==
    [token |-> runtime.token, batchSize |-> runtime.transport.batchSize,
     enabled |-> runtime.buffer.enabled, dir |-> runtime.buffer.directory,
     maxBatches |-> runtime.buffer.maxBatches, maxBatchBytes |-> runtime.buffer.maxBatchBytes]

Loaded(file) == Of(S!RuntimeFromFile(file, <<"/", "etc", "config.json">>))

WithToken == [S!NothingSet EXCEPT !.token = TRUE]

\* One snapshot in a batch, one batch in the spool: it overflows at once.
TightFile == [WithToken EXCEPT !.transport.batchSize = 1, !.buffer.maxBatches = 1]

\* Batches of two that are too large to be stored.
OversizeFile == [WithToken EXCEPT !.buffer.maxBatchBytes = 1]

\* A spool in another directory.
MovedFile == [TightFile EXCEPT !.buffer.directory = <<"/", "var">>]

UsualOnly == {Loaded(WithToken)}
TightOver == {Loaded(TightFile), Loaded(OversizeFile)}
TightOnly == {Loaded(TightFile)}
Moved     == {Loaded(OversizeFile), Loaded(MovedFile)}

\* The token is taken out of the file, or the file is emptied.
TokenGone == {Loaded(WithToken), Loaded(S!NothingSet), Of(S!DefaultRuntime)}
=============================================================================
