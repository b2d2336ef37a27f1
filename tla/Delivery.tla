------------------------------ MODULE Delivery ------------------------------
(***************************************************************************)
(* The delivery pipeline of the agent (internal/app/agent.go) together     *)
(* with the offline spool it writes to (internal/buffer/spool.go).         *)
(*                                                                         *)
(* Observations are gathered in a cache, popped from it as numbered        *)
(* snapshots, queued in memory, and sent in batches by flushOnce.  A batch *)
(* the collector cannot take for now becomes a file of the spool, which    *)
(* drainOnce sends later.  Three goroutines do this: the flush loop, the   *)
(* drain loop and, at shutdown, main, which runs flushOnce and drainOnce   *)
(* once more while the loops may still be busy.                            *)
(*                                                                         *)
(* Abstractions: a snapshot is its number; the size of a batch is the      *)
(* number of its snapshots; a file is named by a stamp, the order of the   *)
(* modification times, which are those of writing the temporary file and   *)
(* not of its renaming.  Creating, writing, syncing and closing it is one  *)
(* step, because List never shows the temporary.  Client.Send is one step, *)
(* described by SendContract.                                              *)
(***************************************************************************)
EXTENDS Naturals, FiniteSets, Sequences, SequencesExt, SendContract

CONSTANTS
    Configs,      \* the runtime configurations that loading the file can give
    MaxSamples,   \* bound: snapshots ever taken
    MaxStamps,    \* bound: batch files ever written
    Faults        \* what may go wrong in this instance

\* config.Runtime: is there a token, and the transport and buffer settings.
ConfigType ==
    [token : BOOLEAN, batchSize : Nat \ {0}, enabled : BOOLEAN,
     dir : Seq(STRING), maxBatches : Nat \ {0}, maxBatchBytes : Nat]

FaultNames ==
    {"reject",       \* the collector refuses a batch for good (4xx)
     "lostAck",      \* the collector accepts a batch, the answer is lost
     "redirect",     \* a redirection leads Send to a server that is none
     "cancel",       \* a stop cuts a request short that is already accepted
     "crash",        \* the process dies
     "stop",         \* SIGTERM or an interrupt: an orderly shutdown
     "readError",    \* reading the spool fails for a moment
     "corrupt",      \* a batch file is damaged on disk
     "deleteError",  \* removing a file fails
     "storeError",   \* creating, writing, syncing or renaming a file fails
     "pruneError",   \* listing or evicting fails inside Prune
     "expire"}       \* files get older than max_batch_age

ASSUME ConfigsAssumption == Configs \subseteq ConfigType /\ Configs # {}
ASSUME BoundsAssumption == MaxSamples \in Nat /\ MaxStamps \in Nat
ASSUME FaultsAssumption == Faults \subseteq FaultNames

VARIABLES
    config,    \* Agent.config, replaced by reload
    dirty,     \* snapshotCache.dirty
    captured,  \* snapshots taken so far; snapshots are numbered 1..captured
    queue,     \* sampleQueue.samples
    spool,     \* stamp -> batch file, all buffer directories together
    clock,     \* the stamp of the newest file ever written, renamed or not
    phase,     \* running, stopping (runCtx is done), down
    pc,        \* where each goroutine is
    cfg,       \* the configuration flushOnce or drainOnce read when it began
    batch,     \* the snapshot or batch in the goroutine's hands
    paths,     \* entries still to drain, files still to evict, the temporary file
    delivered, \* snapshots the collector has accepted
    answered,  \* snapshots that Send has reported as accepted, or refused for good
    writtenOff,\* snapshots the agent decided to give up
    lost       \* snapshots that were only in memory when the process ended, or
               \* that some other server accepted in place of the collector

pipeline == <<captured, queue, dirty>>
disk     == <<spool, clock>>
locals   == <<pc, cfg, batch, paths>>
ledger   == <<delivered, answered, writtenOff, lost>>
vars     == <<config, phase, pipeline, disk, locals, ledger>>

Flushers == {"flush", "main"}
Drainers == {"drain", "main"}
Procs    == Flushers \cup Drainers

\* Inside flushOnce with snapshots in hand; in Store with the batch on disk;
\* inside drainOnce with a batch in hand that is (or was) a file.
Storing   == {"store", "evict", "write", "publish"}
Published == {"rescan", "reevict"}
Holding   == {"push", "send"} \cup Storing \cup Published
Resending == {"resend", "forget"}
Locations == {"asleep", "due", "pop", "list", "load", "waiting", "exited"}
               \cup Holding \cup Resending

\* A batch file; "overtaken" tells that the next file was written before this
\* one had its name, which the code does not know.
File == [dir : Seq(STRING), batch : Seq(Nat), intact : BOOLEAN, overtaken : BOOLEAN]

-----------------------------------------------------------------------------
(* Helpers. *)

Smaller(m, n) == IF m < n THEN m ELSE n

\* The least modification time: List sorts oldest first.
Oldest(S) == CHOOSE st \in S : \A other \in S : st <= other

\* Spool.List: the batch files of one directory.
Entries(dir) == {st \in DOMAIN spool : spool[st].dir = dir}

Without(S) == [st \in DOMAIN spool \ S |-> spool[st]]

With(st, file) ==
    [x \in DOMAIN spool \cup {st} |-> IF x = st THEN file ELSE spool[x]]

SamplesOf(S) == UNION {ToSet(spool[st].batch) : st \in S \cap DOMAIN spool}

\* What the memory of the process holds and the disk holds.
InMemory ==
    ToSet(queue) \cup UNION {ToSet(batch[p]) : p \in {q \in Procs : pc[q] \in Holding}}
OnDisk == SamplesOf(DOMAIN spool)
Held == InMemory \cup OnDisk

\* Where a goroutine goes when flushOnce, or drainOnce, returns.
AfterFlush(p) == IF p = "main" THEN "list" ELSE "asleep"

\* Mutant: the drain loop is left after its first turn.
AfterOnlyDrain(p) == "waiting"

AfterDrain(p) == IF p = "main" THEN "waiting" ELSE "asleep"

Goto(p, location) == pc' = [pc EXCEPT ![p] = location]

\* What can go wrong in a Send: its context ends in a shutdown only, the loops'
\* runCtx with the signal, main's shutdownCtx after ten seconds.
SendFaults == IF phase = "stopping" THEN Faults ELSE Faults \ {"cancel"}

\* The collector's side of one call of Send with result r.
Receive(S, r) ==
    delivered' = IF r.copies = 0 THEN delivered ELSE delivered \cup S

\* What becomes of a batch that Send has answered for good: the agent gives up
\* what was refused, and believes what it was told of the rest.
Settle(S, r) ==
    /\ answered' = answered \cup S
    /\ writtenOff' = IF r.answer = "permanent" THEN writtenOff \cup S ELSE writtenOff
    /\ lost' = IF r.answer = "ok" /\ r.copies = 0 THEN lost \cup S ELSE lost

\* Mutant: every error passes for a final answer.
NeverTemporary(answer) == FALSE

\* IsTemporary, of the error that Send returns.
IsTemporary(answer) == answer = "temporary"

-----------------------------------------------------------------------------
Init ==
    /\ config \in Configs
    /\ dirty = FALSE
    /\ captured = 0
    /\ queue = <<>>
    /\ spool = <<>>
    /\ clock = 0
    /\ phase = "running"
    /\ pc = [p \in Procs |-> "asleep"]
    /\ cfg = [p \in Procs |-> config]
    /\ batch = [p \in Procs |-> <<>>]
    /\ paths = [p \in Procs |-> {}]
    /\ delivered = {} /\ answered = {} /\ writtenOff = {} /\ lost = {}

-----------------------------------------------------------------------------
(* The other goroutines: collectors, the reload loop, and the loops' timers. *)

\* A collector stores what it observed: snapshotCache.setSystem and the like.
Collect ==
    /\ phase # "down"
    /\ ~dirty
    /\ captured < MaxSamples
    /\ dirty' = TRUE
    /\ UNCHANGED <<captured, queue, config, phase, disk, locals, ledger>>

\* reloadConfig swaps the pointer; goroutines keep the one they have read.
Reload ==
    /\ phase # "down"
    /\ config' \in Configs
    /\ UNCHANGED <<phase, pipeline, disk, locals, ledger>>

\* Mutant: the sleep does not look at the context.
TimerIgnoresContext(p) ==
    /\ phase # "down"
    /\ p # "main"
    /\ pc[p] = "asleep"
    /\ Goto(p, "due")
    /\ UNCHANGED <<config, phase, pipeline, disk, cfg, batch, paths, ledger>>

\* sleepWithContext returns nil: the timer fired and the select took it.
TimerFires(p) ==
    /\ phase = "running"
    /\ p # "main"
    /\ pc[p] = "asleep"
    /\ Goto(p, "due")
    /\ UNCHANGED <<config, phase, pipeline, disk, cfg, batch, paths, ledger>>

\* sleepWithContext returns the context's error, which ends the loop.
LoopExits(p) ==
    /\ phase = "stopping"
    /\ p # "main"
    /\ pc[p] = "asleep"
    /\ Goto(p, "exited")
    /\ UNCHANGED <<config, phase, pipeline, disk, cfg, batch, paths, ledger>>

-----------------------------------------------------------------------------
(* flushOnce and deliverQueued. *)

\* Mutant: the configuration of the first turn is used for ever.
KeepConfig(p) == UNCHANGED cfg

\* flushOnce and drainOnce work with the configuration of their beginning.
CurrentConfig(p) == cfg' = [cfg EXCEPT ![p] = config]

\* flushOnce reads the configuration and pops the cache if it is dirty.
FlushOnce(p) ==
    /\ \/ p = "flush" /\ pc[p] = "due"
       \/ p = "main" /\ phase = "stopping" /\ pc[p] = "asleep"
    /\ CurrentConfig(p)
    /\ \/ /\ dirty
          /\ dirty' = FALSE
          /\ captured' = captured + 1
          /\ batch' = [batch EXCEPT ![p] = <<captured + 1>>]
          /\ Goto(p, "push")
       \/ /\ ~dirty
          /\ Goto(p, "pop")
          /\ UNCHANGED <<dirty, captured, batch>>
    /\ UNCHANGED <<config, phase, queue, disk, paths, ledger>>

\* sampleQueue.push
Push(p) ==
    /\ pc[p] = "push"
    /\ queue' = queue \o batch[p]
    /\ batch' = [batch EXCEPT ![p] = <<>>]
    /\ Goto(p, "pop")
    /\ UNCHANGED <<config, phase, captured, dirty, disk, cfg, paths, ledger>>

\* sampleQueue.pop(BatchSize); deliverQueued returns when it gets nothing.
Pop(p) ==
    /\ pc[p] = "pop"
    /\ \/ /\ queue = <<>>
          /\ Goto(p, AfterFlush(p))
          /\ UNCHANGED <<queue, batch>>
       \/ /\ queue # <<>>
          /\ LET n == Smaller(cfg[p].batchSize, Len(queue)) IN
                /\ batch' = [batch EXCEPT ![p] = SubSeq(queue, 1, n)]
                /\ queue' = SubSeq(queue, n + 1, Len(queue))
          /\ Goto(p, "send")
    /\ UNCHANGED <<config, phase, captured, dirty, disk, cfg, paths, ledger>>

\* The batch was accepted, or refused for good and dropped: on to the next.
SendSettles(p) ==
    /\ pc[p] = "send"
    /\ \E r \in SendResults(cfg[p].token, SendFaults) :
          /\ ~IsTemporary(r.answer)
          /\ Receive(ToSet(batch[p]), r)
          /\ Settle(ToSet(batch[p]), r)
    /\ batch' = [batch EXCEPT ![p] = <<>>]
    /\ Goto(p, "pop")
    /\ UNCHANGED <<config, phase, pipeline, disk, cfg, paths>>

\* The collector cannot take the batch for now.
SendFails(p) ==
    /\ pc[p] = "send"
    /\ \E r \in SendResults(cfg[p].token, SendFaults) :
          /\ IsTemporary(r.answer)
          /\ Receive(ToSet(batch[p]), r)
    /\ Goto(p, "store")
    /\ UNCHANGED <<config, phase, pipeline, disk, cfg, batch, paths, answered, writtenOff, lost>>

\* Mutant: the batch is put back behind the queue.
RequeueAtBack(p) ==
    /\ queue' = queue \o batch[p]
    /\ batch' = [batch EXCEPT ![p] = <<>>]
    /\ paths' = [paths EXCEPT ![p] = {}]
    /\ Goto(p, AfterFlush(p))
    /\ UNCHANGED <<config, phase, captured, dirty, disk, cfg, ledger>>

\* requeueFront and return: the batch waits in memory for the next flush.
Requeue(p) ==
    /\ queue' = batch[p] \o queue
    /\ batch' = [batch EXCEPT ![p] = <<>>]
    /\ paths' = [paths EXCEPT ![p] = {}]
    /\ Goto(p, AfterFlush(p))
    /\ UNCHANGED <<config, phase, captured, dirty, disk, cfg, ledger>>

-----------------------------------------------------------------------------
(* Spool.Store and Spool.Prune. *)

\* Mutant: the last flush does not store.
StorableWhileRunning(p) ==
    /\ phase = "running"
    /\ cfg[p].enabled
    /\ Len(batch[p]) <= cfg[p].maxBatchBytes

Storable(p) ==
    /\ cfg[p].enabled
    /\ Len(batch[p]) <= cfg[p].maxBatchBytes

\* The spool is disabled, or the batch exceeds max_batch_bytes.
StoreRefused(p) ==
    /\ pc[p] = "store"
    /\ ~Storable(p)
    /\ Requeue(p)

\* Any error before the rename takes effect; the temporary file is removed.
StoreFails(p) ==
    /\ "storeError" \in Faults
    /\ pc[p] \in {"store", "write", "publish"}
    /\ Requeue(p)

\* An error of Prune is an error of Store, even of the Prune that runs after
\* the rename, when the batch is already on disk.
PruneFails(p) ==
    /\ "pruneError" \in Faults
    /\ pc[p] \in {"store", "evict"} \cup Published
    /\ Requeue(p)

\* What Prune may find too old: the oldest files, up to some age.
AgedSets(S) ==
    IF "expire" \in Faults
    THEN {{st \in S : st <= limit} : limit \in 0..clock}
    ELSE {{}}

\* Mutants: one file too many is kept, or one too few.
SurplusBut(kept, maxBatches) ==
    {st \in kept : Cardinality({newer \in kept : newer > st}) > maxBatches}

SurplusAndOne(kept, maxBatches) ==
    {st \in kept : Cardinality({newer \in kept : newer >= st}) >= maxBatches}

\* Of the files kept by age, those beyond the newest maxBatches.
Surplus(kept, maxBatches) ==
    {st \in kept : Cardinality({newer \in kept : newer > st}) >= maxBatches}

\* Prune lists the directory, drops the aged files and picks the surplus.
Prune(p) ==
    /\ \/ pc[p] = "store" /\ Storable(p)
       \/ pc[p] = "rescan"
    /\ LET here == Entries(cfg[p].dir) IN
         \E aged \in AgedSets(here) :
           \E gone \in (IF "deleteError" \in Faults THEN SUBSET aged ELSE {aged}) :
             LET surplus == Surplus(here \ aged, cfg[p].maxBatches) IN
               /\ spool' = Without(gone)
               /\ writtenOff' = writtenOff \cup SamplesOf(gone)
               /\ paths' = [paths EXCEPT ![p] = surplus]
               /\ IF surplus # {}
                  THEN Goto(p, IF pc[p] = "store" THEN "evict" ELSE "reevict")
                  ELSE Goto(p, IF pc[p] = "store" THEN "write" ELSE "pop")
               /\ batch' = IF pc[p] = "rescan" /\ surplus = {}
                           THEN [batch EXCEPT ![p] = <<>>] ELSE batch
    /\ UNCHANGED <<config, phase, pipeline, clock, cfg, delivered, answered, lost>>

\* Prune removes one file of the surplus, the oldest first.
Evict(p) ==
    /\ pc[p] \in {"evict", "reevict"}
    /\ LET st   == Oldest(paths[p])
           left == paths[p] \ {st} IN
         /\ spool' = Without({st})
         /\ writtenOff' = writtenOff \cup SamplesOf({st})
         /\ paths' = [paths EXCEPT ![p] = left]
         /\ IF left # {}
            THEN UNCHANGED <<pc, batch>>
            ELSE /\ Goto(p, IF pc[p] = "evict" THEN "write" ELSE "pop")
                 /\ batch' = IF pc[p] = "reevict"
                             THEN [batch EXCEPT ![p] = <<>>] ELSE batch
    /\ UNCHANGED <<config, phase, pipeline, clock, cfg, delivered, answered, lost>>

\* Mutant: the file is written under the name of the newest one.
WriteReusesName(p) ==
    /\ pc[p] = "write"
    /\ paths' = [paths EXCEPT ![p] = {clock + 1}]
    /\ Goto(p, "publish")
    /\ UNCHANGED <<config, phase, pipeline, spool, clock, cfg, batch, ledger>>

\* The temporary file is created and written, which gives it its time.
WriteTemp(p) ==
    /\ pc[p] = "write"
    /\ clock < MaxStamps
    /\ clock' = clock + 1
    /\ paths' = [paths EXCEPT ![p] = {clock + 1}]
    /\ Goto(p, "publish")
    /\ UNCHANGED <<config, phase, pipeline, spool, cfg, batch, ledger>>

\* Mutant: names are too coarse, and the rename replaces the file before.
PublishOverPrevious(p) ==
    /\ pc[p] = "publish"
    /\ LET st == Oldest(paths[p])
           name == IF st - 1 \in DOMAIN spool THEN st - 1 ELSE st IN
         spool' = With(name, [dir |-> cfg[p].dir, batch |-> batch[p], intact |-> TRUE,
                              overtaken |-> clock # st])
    /\ paths' = [paths EXCEPT ![p] = {}]
    /\ Goto(p, "rescan")
    /\ UNCHANGED <<config, phase, pipeline, clock, cfg, batch, ledger>>

\* The rename makes the batch a file of the spool, with the time of the write.
Publish(p) ==
    /\ pc[p] = "publish"
    /\ LET st == Oldest(paths[p]) IN
         spool' = With(st, [dir |-> cfg[p].dir, batch |-> batch[p], intact |-> TRUE,
                            overtaken |-> clock # st])
    /\ paths' = [paths EXCEPT ![p] = {}]
    /\ Goto(p, "rescan")
    /\ UNCHANGED <<config, phase, pipeline, clock, cfg, batch, ledger>>

-----------------------------------------------------------------------------
(* drainOnce. *)

\* Read the configuration, list the directory; nothing to do when the spool
\* is disabled, empty, or cannot be listed.
DrainOnce(p) ==
    /\ \/ p = "drain" /\ pc[p] = "due"
       \/ p = "main" /\ pc[p] = "list"
    /\ CurrentConfig(p)
    /\ \E listed \in {Entries(config.dir)} \cup (IF "readError" \in Faults THEN {{}} ELSE {}) :
          LET entries == IF config.enabled THEN listed ELSE {} IN
            /\ paths' = [paths EXCEPT ![p] = entries]
            /\ Goto(p, IF entries = {} THEN AfterDrain(p) ELSE "load")
    /\ UNCHANGED <<config, phase, pipeline, disk, batch, ledger>>

\* The loop moves to the next entry of its listing, or drainOnce returns.
NextEntry(p) ==
    LET left == paths[p] \ {Oldest(paths[p])} IN
      /\ paths' = [paths EXCEPT ![p] = left]
      /\ batch' = [batch EXCEPT ![p] = <<>>]
      /\ Goto(p, IF left = {} THEN AfterDrain(p) ELSE "load")

\* Spool.Load reads and decodes the file.
Load(p) ==
    /\ pc[p] = "load"
    /\ LET st == Oldest(paths[p]) IN
         /\ st \in DOMAIN spool
         /\ spool[st].intact
         /\ batch' = [batch EXCEPT ![p] = spool[st].batch]
    /\ Goto(p, "resend")
    /\ UNCHANGED <<config, phase, pipeline, disk, cfg, paths, ledger>>

\* Spool.Load fails, because another goroutine has removed the file, because
\* it does not decode, or because reading it failed: the file is deleted.
LoadFails(p) ==
    /\ pc[p] = "load"
    /\ LET st == Oldest(paths[p]) IN
         /\ \/ st \notin DOMAIN spool
            \/ st \in DOMAIN spool /\ ~spool[st].intact
            \/ "readError" \in Faults
         /\ \/ /\ spool' = Without({st})
               /\ writtenOff' = writtenOff \cup SamplesOf({st})
            \/ /\ "deleteError" \in Faults
               /\ UNCHANGED <<spool, writtenOff>>
    /\ NextEntry(p)
    /\ UNCHANGED <<config, phase, pipeline, clock, cfg, delivered, answered, lost>>

\* The batch was accepted, or refused for good: its file is to be deleted.
ResendSettles(p) ==
    /\ pc[p] = "resend"
    /\ \E r \in SendResults(cfg[p].token, SendFaults) :
          /\ ~IsTemporary(r.answer)
          /\ Receive(ToSet(batch[p]), r)
          /\ Settle(ToSet(batch[p]), r)
    /\ Goto(p, "forget")
    /\ UNCHANGED <<config, phase, pipeline, disk, cfg, batch, paths>>

\* drainOnce gives up until its next turn; the file stays.
ResendFails(p) ==
    /\ pc[p] = "resend"
    /\ \E r \in SendResults(cfg[p].token, SendFaults) :
          /\ IsTemporary(r.answer)
          /\ Receive(ToSet(batch[p]), r)
    /\ batch' = [batch EXCEPT ![p] = <<>>]
    /\ paths' = [paths EXCEPT ![p] = {}]
    /\ Goto(p, AfterDrain(p))
    /\ UNCHANGED <<config, phase, pipeline, disk, cfg, answered, writtenOff, lost>>

\* Mutant: the file that was sent is kept.
ForgetKeepsFile(p) ==
    /\ pc[p] = "forget"
    /\ NextEntry(p)
    /\ UNCHANGED <<config, phase, pipeline, disk, cfg, ledger>>

\* Delete the file that was sent; an error of Delete is ignored.
Forget(p) ==
    /\ pc[p] = "forget"
    /\ \/ spool' = Without({Oldest(paths[p])})
       \/ "deleteError" \in Faults /\ UNCHANGED spool
    /\ NextEntry(p)
    /\ UNCHANGED <<config, phase, pipeline, clock, cfg, ledger>>

-----------------------------------------------------------------------------
(* The life of the process, and the world outside it. *)

\* The signal cancels runCtx; main goes on to its own flushOnce.
Stop ==
    /\ "stop" \in Faults
    /\ phase = "running"
    /\ phase' = "stopping"
    /\ UNCHANGED <<config, pipeline, disk, locals, ledger>>

\* Nothing of the memory survives the end of the process.
ProcessEnds ==
    /\ phase' = "down"
    /\ lost' = lost \cup (InMemory \ (OnDisk \cup delivered \cup writtenOff))
    /\ queue' = <<>>
    /\ dirty' = FALSE
    /\ pc' = [p \in Procs |-> "asleep"]
    /\ batch' = [p \in Procs |-> <<>>]
    /\ paths' = [p \in Procs |-> {}]
    /\ UNCHANGED <<config, captured, disk, cfg, delivered, answered, writtenOff>>

\* wait.Wait returns and so does Run.
Exit ==
    /\ pc["main"] = "waiting"
    /\ \A p \in Procs \ {"main"} : pc[p] = "exited"
    /\ ProcessEnds

Crash ==
    /\ "crash" \in Faults
    /\ phase # "down"
    /\ ProcessEnds

\* systemd starts the agent again, with the configuration it finds.
Restart ==
    /\ phase = "down"
    /\ phase' = "running"
    /\ config' \in Configs
    /\ UNCHANGED <<pipeline, disk, locals, ledger>>

\* A batch file is damaged.
Corrupt ==
    /\ "corrupt" \in Faults
    /\ \E st \in DOMAIN spool :
          /\ spool[st].intact
          /\ spool' = With(st, [spool[st] EXCEPT !.intact = FALSE])
    /\ UNCHANGED <<config, phase, pipeline, clock, locals, ledger>>

-----------------------------------------------------------------------------
FlushStep(p) ==
    \/ FlushOnce(p) \/ Push(p) \/ Pop(p)
    \/ SendSettles(p) \/ SendFails(p)
    \/ StoreRefused(p) \/ StoreFails(p) \/ PruneFails(p)
    \/ Prune(p) \/ Evict(p) \/ WriteTemp(p) \/ Publish(p)

DrainStep(p) ==
    \/ DrainOnce(p) \/ Load(p) \/ LoadFails(p)
    \/ ResendSettles(p) \/ ResendFails(p) \/ Forget(p)

Step(p) ==
    \/ TimerFires(p) \/ LoopExits(p)
    \/ p \in Flushers /\ FlushStep(p)
    \/ p \in Drainers /\ DrainStep(p)

Next ==
    \/ Collect \/ Reload
    \/ \E p \in Procs : Step(p)
    \/ Stop \/ Exit \/ Crash \/ Restart \/ Corrupt

Spec == Init /\ [][Next]_vars

(***************************************************************************)
(* Fairness.  Goroutines are scheduled and timers fire, so each makes its  *)
(* next step; and the collector is not unreachable for ever: a batch sent  *)
(* again and again is answered for good in the end.                        *)
(***************************************************************************)
Fairness ==
    /\ \A p \in Procs : WF_vars(Step(p))
    /\ \A p \in Flushers : SF_vars(SendSettles(p))
    /\ \A p \in Drainers : SF_vars(ResendSettles(p))
    /\ WF_vars(Exit)

FairSpec == Spec /\ Fairness

-----------------------------------------------------------------------------
(* Properties. *)

\* The state has its type; the numbers held anywhere are those of snapshots.
Taken(s) == s \in Seq(Nat) /\ ToSet(s) \subseteq 1..captured

TypeOK ==
    /\ config \in Configs
    /\ dirty \in BOOLEAN
    /\ captured \in Nat
    /\ Taken(queue)
    /\ clock \in Nat
    /\ DOMAIN spool \subseteq 1..clock
    /\ \A st \in DOMAIN spool : spool[st] \in File /\ Taken(spool[st].batch)
    /\ phase \in {"running", "stopping", "down"}
    /\ pc \in [Procs -> Locations]
    /\ cfg \in [Procs -> Configs]
    /\ batch \in [Procs -> Seq(Nat)] /\ \A p \in Procs : Taken(batch[p])
    /\ paths \in [Procs -> SUBSET (1..clock)]
    /\ delivered \subseteq 1..captured
    /\ answered \subseteq 1..captured
    /\ writtenOff \subseteq 1..captured
    /\ lost \subseteq 1..captured

\* Every snapshot popped from the cache is in the process's memory, in a file
\* of the spool, accepted by the collector, or was given up where the code
\* gives up: no order of flushes, drains, prunes, shutdowns and crashes makes
\* one vanish (agent.go:291-367, spool.go:44-180).
NothingVanishes ==
    1..captured \subseteq Held \cup delivered \cup writtenOff \cup lost

Settled == delivered \cup writtenOff \cup lost

\* What a goroutine holds agrees with the disk: the file drainOnce is about to
\* delete has the contents it sent, and by then these are settled; a temporary
\* file has a name that no file and no listing has; a batch that Store has
\* renamed into the spool is still there, or settled.  With the type invariant
\* this is the inductive invariant behind NothingVanishes.
HandMatchesDisk(p) ==
    /\ pc[p] \in Resending =>
         /\ Oldest(paths[p]) \in 1..clock
         /\ Oldest(paths[p]) \in DOMAIN spool =>
              spool[Oldest(paths[p])].batch = batch[p]
    /\ pc[p] = "forget" => ToSet(batch[p]) \subseteq Settled
    /\ pc[p] = "publish" =>
         \E st \in 1..clock :
            /\ paths[p] = {st}
            /\ st \notin DOMAIN spool
            /\ \A q \in Procs \ {p} : st \notin paths[q]
    /\ pc[p] \in Published => ToSet(batch[p]) \subseteq OnDisk \cup Settled

HandsMatchDisk == \A p \in Procs : HandMatchesDisk(p)

\* The abstract promise, with what the code holds in queue, hands and files.
Promise == INSTANCE Ledger WITH held <- Held, givenUp <- writtenOff \cup lost

\* Delivery implements the promise of Ledger: every step of a goroutine, a
\* crash or a restart is a capture, a settlement, or nothing (agent.go:291-367).
KeepsPromise == Promise!Spec

\* When batches can always be stored, a shutdown leaves nothing in memory: as
\* long as the queue holds a snapshot some goroutine is bound to pop it, so
\* the process never exits with one (agent.go:128-135, 338-366).
StoreReliable ==
    /\ \A c \in Configs : c.enabled /\ c.maxBatchBytes >= c.batchSize
    /\ Faults \cap {"storeError", "pruneError"} = {}

ShutdownEmptiesQueue ==
    StoreReliable =>
        /\ queue # <<>> => \E p \in Flushers :
                               pc[p] \in {"pop", "send"} \cup Storing \cup Published
        /\ Faults \cap {"crash", "redirect"} = {} => lost = {}

\* Duplicates that the agent could avoid are the business of the shutdown, where
\* main drains beside the drain loop (agent.go:131-133): at any other time a
\* batch is sent only if Send has not answered for good for any of its
\* snapshots before, in this life of the process or an earlier one, unless
\* deleting or pruning failed or the process died.  What is accepted twice then
\* was accepted unheard: the answer was lost or the stop cut the request short.
SentAgainOnlyUnanswered ==
    [][Faults \cap {"crash", "deleteError", "pruneError"} = {} /\ phase # "stopping" =>
        \A p \in Procs :
          pc[p] \in {"send", "resend"} /\ pc'[p] # pc[p]
            => ToSet(batch[p]) \cap answered = {}]_vars

\* The backlog has the order of capture: older files, newer files, the batch
\* in hand, the queue.
Precedes(s, t) == \A i \in ToSet(s), j \in ToSet(t) : i < j

BacklogInOrder ==
    LET hand == IF pc["flush"] \in Holding \ Published THEN batch["flush"] ELSE <<>> IN
      /\ \A st, later \in DOMAIN spool :
            /\ st < later => Precedes(spool[st].batch, spool[later].batch)
            /\ Precedes(spool[st].batch, hand \o queue)
      /\ pc["flush"] # "push" => Precedes(hand, queue)
      /\ \A i, j \in 1..Len(queue) : i < j => queue[i] < queue[j]

\* An ordered backlog is disordered only by two flushers at once, which there
\* are in a shutdown, and by an error of the Prune that runs when the batch is
\* in the spool already: no failed send, failed store, restart or reload does
\* it (agent.go:338-366, 561-569, spool.go:86-88, 119-125).
PruneFailsAfterRename == pc["flush"] \in Published /\ pc'["flush"] = "asleep"

BacklogStaysInOrder ==
    [][BacklogInOrder /\ phase = "running" /\ ~PruneFailsAfterRename
          => BacklogInOrder']_vars

\* The spool exceeds max_batches only by the files that goroutines have just
\* renamed into it and are about to prune for (spool.go:60, 88, 170-178).
SpoolBounded ==
    Faults \cap {"crash", "pruneError", "deleteError"} = {} =>
        \A dir \in {c.dir : c \in Configs} :
          LET limits == {c.maxBatches : c \in {d \in Configs : d.dir = dir}} IN
            \E limit \in limits :
              Cardinality(Entries(dir)) <=
                limit + Cardinality({p \in Flushers : pc[p] \in Published})

\* In a shutdown two goroutines store, and the file that was written first may
\* be renamed last: it is surplus from the start, and still is when the newer
\* files have been drained.
Overtaken(st) == phase = "stopping" /\ spool[st].overtaken

\* Prune decides from a listing and deletes afterwards, while drains delete
\* too; still a file that exists is evicted only while the directory really
\* holds more than max_batches, unless a shutdown has overtaken it
\* (spool.go:71, 84, 155, 170-176, agent.go:313-335).
EvictsOnlyOverflow ==
    [][Faults \cap {"deleteError", "readError"} = {} =>
        \A p \in Flushers :
          (pc[p] \in {"evict", "reevict"} /\ Evict(p) /\ spool' # spool)
            => \/ Overtaken(Oldest(paths[p]))
               \/ Cardinality(Entries(cfg[p].dir)) > cfg[p].maxBatches]_vars

\* The process that was told to stop does stop: nothing that flushOnce or
\* drainOnce loops over can grow for ever, and main waits for goroutines that
\* all leave their loops (agent.go:126-136).
StopTerminates == phase = "stopping" ~> phase = "down"

\* With a collector that is not unreachable for ever, a process that is not
\* ended again and again, and a spool that stays where it is, every snapshot is
\* accepted or given up in the end: none is stuck in the queue, nor in the spool
\* but for the files that an earlier configuration left in another directory
\* (agent.go:301-366, config.go:385).
EventuallySettled ==
    \A dir \in {c.dir : c \in Configs} :
        (<>[](phase = "running" /\ config.enabled /\ config.dir = dir)) =>
            <>[](1..captured \subseteq delivered \cup writtenOff \cup lost
                                       \cup SamplesOf(DOMAIN spool \ Entries(dir)))

\* A reload takes effect: flushOnce and drainOnce finish the turn they are in
\* with the configuration they began it with, a token that was replaced
\* included, and no turn goes on with it for ever (agent.go:292, 302, 408-416).
AtWork(p) == pc[p] \notin {"asleep", "due", "list", "waiting", "exited"}

ReloadsTakeEffect ==
    \A c \in Configs :
        (<>[](config = c)) => <>[](\A p \in Procs : AtWork(p) => cfg[p] = c)

\* "failed to decode buffered batch; deleting corrupt file" (agent.go:317):
\* a file that Load rejects and drainOnce deletes is corrupt.
DeletesOnlyCorrupt ==
    [][\A p \in Drainers, st \in DOMAIN spool :
         (pc[p] = "load" /\ LoadFails(p) /\ st \notin DOMAIN spool')
            => ~spool[st].intact]_vars

\* "token is empty; delivery to the collector will be disabled until a token
\* is configured" (config.go:435): a goroutine that works without a token
\* does not give up snapshots for want of one.
TokenlessKeepsBacklog ==
    [][\A p \in Procs :
         pc[p] \in {"send", "resend"} /\ ~cfg[p].token /\ pc'[p] # pc[p]
            => writtenOff' \subseteq writtenOff]_vars

=============================================================================
