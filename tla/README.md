# hubpulse-agent in TLA+

TLA+ modules, TLC configurations and TLAPS proofs for hubpulse-agent, the host
monitoring agent written in Go. Paths are relative to the repository: `agent.go` and
`update.go` are in `internal/app`, `spool.go` is `internal/buffer/spool.go`,
`client.go` is `internal/sender/client.go`, `logs.go`, `service.go`, `system.go` and
`process.go` are in `internal/collector`, and `config.go` is
`internal/config/config.go`.

Contents: [the system](#1-the-system-and-its-parts) -
[modules](#2-modules-and-how-they-correspond-to-the-code) -
[runs](#3-what-tlc-checks) - [proofs](#4-what-tlaps-proves) -
[divergences](#5-where-code-and-text-disagree) -
[not modelled](#6-not-modelled-and-why) - [plan](#7-plan).

## 1. The system and its parts

The agent is one process. Collectors observe the host on timers of their own and
put what they see into a cache. On the flush timer the cache is popped as a
*snapshot*, queued, and sent to the collector service in batches. A batch that
cannot be delivered for now becomes a file of the offline *spool*, which a second
loop drains. The configuration file is polled and swapped in while all this runs, and
a command run beside it may replace the executable.

```
 system, process, service, log loops --set*--> snapshotCache --popSnapshot-+
                                                                           v
 reload loop --> Agent.config (read by all)            flushOnce: push -> sampleQueue
   ^                                                                       | pop(batch)
 config.json <-- update-config,                         ok / refused <-- Send
                 init-config, editors                                      | temporary
                                        requeueFront <-- error -- Spool.Store
 self-update --> executable                                                v
                            drainOnce: List -> Load -> Send -> Delete   *.batch.json
```

| component | state | operations | hard behaviours | what makes it correct |
|---|---|---|---|---|
| delivery pipeline, `agent.go` 78-137, 257-367, 528-569 | `sampleQueue`; what `flushOnce` and `drainOnce` hold | flush, deliver, requeue, drain, shutdown | main flushes and drains at shutdown beside loops that are still busy; a stop that cuts a request short; crash at any point; a turn works with the configuration it began with | every snapshot is held, delivered or knowingly given up; the queue is empty at exit; the backlog keeps its order and is settled in the end; a stop stops; a reload takes effect |
| offline spool, `spool.go` | batch files of a directory | Store, List, Load, Delete, Prune | no lock: two flushers and two drainers act on listings that are stale; a file has the time of its write, not of its rename; every call may fail halfway, `Store` even after its rename | bounded; evicts only what overflows; a hand never disagrees with its file |
| sender, `client.go` | one call: attempt, backoff, encoding | Send with retries, gzip fallback, classification | lost answers, redirections that are followed, cancellation in a sleep or a request, gzip refusals that look like permanent errors | an answer that the callers can act on; bounded requests; returns |
| snapshot cache, `agent.go` 571-632 | last observations, log lines, `dirty` | `set*`, `popSnapshot` | collections interleave with flushes | log lines are handed over exactly once |
| log collector, `logs.go` | offset of each file | Collect, collectFile | files that grow, shrink or fail between Stat, Seek and Scan; three limits; restarts | nothing twice, nothing out of order, nothing skipped without a reason |
| service collector, `service.go` | `nextRun`, `results`, `states` | CollectDue, checks behind a semaphore | services come and go while checks run; the wall clock is set back | streaks tell the history; the maps agree; reports follow the configuration; no service starves |
| system and process collectors, `system.go`, `process.go` | `prevDiskIO`, `prevNet`, `prevCPU` and their times | Collect: read, compare, replace | counters that reset or wrap, devices and pids that are reused, reads that fail, a clock that is set | rates neither overstate nor lose what was counted |
| configuration, `config.go` and `agent.go` 277-289, 390-468 | file, `config`, `configStat` | load, poll, reload, init-config, update-config | the file is read and stamped by two separate looks; the process ends and is started again | never an older file; the last file is loaded |
| configuration sanitiser, `config.go` 329-547 | none | pure functions | zero, negative and missing settings; several services of one name | every setting is usable; distinct names |
| self-update, `update.go` | the executable, one temporary file | download, check, rename, clean up | two commands share the temporary name; downloads break off; commands are killed | the executable is one whole release |
| one-shot commands, command line, logging, payload, installer, site, release workflow | - | - | sequential or pure I/O | see section 6 |

Interactions: the loops share the cache, the queue (each behind its own mutex) and
the spool directory (behind nothing); every loop reads `Agent.config` once for each
turn; `runCtx` ends the loops and `shutdownCtx` (10 s) bounds main's last flush and
drain. The service manager restarts the process (`Restart=always`) from whatever
executable and configuration file it then finds.

## 2. Modules and how they correspond to the code

| module | stands for |
|---|---|
| `Delivery` | queue, flush and drain loops, shutdown, and the spool they write to |
| `Ledger` | abstract: what the agent promises about snapshots |
| `SendContract` | abstract: what one call of `Send` may have done when it returns |
| `Sender` | the call of `Send` in detail |
| `LogTail` | log collector, the log part of the cache, and the programs that write the logs |
| `ServiceCollector` | `CollectDue`, its concurrent checks, `serviceLoop` |
| `Rates` | the counters of the system and process collectors, with the kernel and the clock |
| `ConfigReload` | the configuration file, its writers, and the agent that loads it |
| `SelfUpdate` | the self-update command, any number of them at once |
| `Lifecycle` | `ConfigReload` and `SelfUpdate` together, with the service manager |
| `Sanitiser` | `runtimeFromFile` and its helpers, as operators |
| `ServiceNames` | the naming loop of `sanitizeServices` |
| `DeliveryProofs`, `BacklogProofs` (the spool, the order, the queue and the turns of `Delivery`), `SenderProofs`, `LogTailProofs`, `ServiceCollectorProofs`, `RatesProofs`, `LifecycleProofs` (with `ConfigReload` and `SelfUpdate`), `SanitiserProofs` (with `ServiceNames`) | theorems |
| `MCDelivery`, `MCSender`, `MCLogTail`, `MCServiceCollector`, `MCRates`, `MCLifecycle`, `MCServiceNames`; `MCDefaults` | the values of the constants for TLC |

Composition: `Delivery` EXTENDS `SendContract` and uses it in place of the call;
`Sender` EXTENDS it too and is shown to honour it, so the two models meet there.
`Delivery` INSTANCEs `Ledger` with the refinement mapping `held <- Held` (queue,
hands and files together) and `givenUp <- writtenOff \cup lost`. `Lifecycle` EXTENDS
`ConfigReload` and `SelfUpdate`: a step is one of either part, and a process that ended
starts again only from an executable that can be started. The instances of `Delivery`,
`Sender` and `ServiceCollector` do not invent configurations: they write down
configuration *files* and take what `Sanitiser` makes of them, so that the settings
checked are settings the agent can run with (defaults included, in the sizes of
`MCDefaults`).

**Delivery.** `pc` says where each of the three goroutines is: `flush` and `drain`
are the loops, `main` is `Run` after the signal. Locations are the places where
another goroutine can come between: after the cache was popped (`push`), before
`pop`, before `Send` (`send`, `resend`), inside `Store` before the first prune
(`store`), between the deletions of a prune (`evict`, `reevict`), before the temporary
file (`write`), before its rename (`publish`), after it (`rescan`), before `Load`, before
`Delete` (`forget`). `cfg[p]`
is the configuration `flushOnce` or `drainOnce` read at its beginning
(`CurrentConfig`), `batch[p]` what it has in hand, `paths[p]` its listing. A file is
named by a stamp that stands for its modification time, which is the order of `List`;
`dir` keeps the files of several directories apart. `WriteTemp` creates, writes, syncs
and closes the temporary file, which `List` does not show; the stamp is that of this
write (spool.go:71), and `Publish`, the rename, keeps it (spool.go:84). With two
goroutines in `Store` the order of the writes and that of the renames may therefore
differ: `overtaken` marks a file that was renamed after the next one had been written,
which the code does not know. `FaultNames` lists what may go wrong; each instance
chooses. One of them, `cancel`, only happens while the process stops (`SendFaults`): the
context of a `Send` ends with the signal (the loops) or ten seconds later (main), maybe
after the collector has accepted the batch. `delivered`, `answered`, `writtenOff` and
`lost` are history variables: what the collector accepted, what `Send` has reported on
for good, what the agent decided to give up, and what went with the process or was
accepted by another server that a redirection led to. Whatever deletes a file that was
not delivered (prune by age or count, a failed `Load`) or drops a batch (a permanent
answer) writes off its snapshots.

**Sender.** One action is one iteration's request with everything `Send` makes of the
answer; the sleep is a location of its own, since the context can end in it. A request
(`Exchange`) is answered by the collector (`Answered`), or led elsewhere by a redirection,
which the HTTP client follows (`Redirected`: any answer, any number of copies), or cut
short by the end of the context, with the batch accepted or not (`CutShort`); on a
context that is dead before, nothing is sent. A redirection without a place to go is an
answer like any other. The history variable `copies` counts what the collector accepted.

**LogTail.** `Stat` and `Scan` are the two places a writer can come between.
Lines of a file are numbered for ever, so a line written after a truncation differs
from the one it replaces; the file holds those after `base`. `Restart` forgets the
offsets, the collection and the cache with the process. `excused` records that a limit
was met, a file truncated, a read failed, or the process ended; `start` and `seen`
record where tailing skipped to the end and which files this process looked at.

**ServiceCollector.** Time is relative: `nextRun` counts ticks until a service is
due. `waiting`, `checking` and `outcomes` are the goroutines of one `CollectDue`.
`SetBack` is the wall clock being set back, which `time.Now().UTC()` follows since it
has no monotonic reading: every next run moves further away. `recent` is the history
of outcomes that the streaks are compared with, kept of what is configured and
independent of what the code removes.

**Rates.** The three tables (`prevDiskIO`, `prevNet`, `prevCPU`) share nothing, so a
behaviour is about one of them. The kernel counts, wraps at `Modulus`, loses and gains
names; the clock ticks and is set; `Collect` takes the time, and the reads come later:
at once for devices, one process at a time and once more in `RebuildProcessCPUMap` for
processes. `since` is what was really counted since the reading in the table, `whole`
the names whose counter ran on since, `jumped` says when the clock was set.

**ConfigReload.** `Read` and `Install` are `LoadFile` and the second `Stat` of
`loadRuntimeConfigStrict`; a write between them sets `raced`. `Crash` and `Start` end
the process and start it again with nothing but the file. A revision stands for
content and stamp alike. An empty file is valid, as in `Parse`.

**SelfUpdate.** A command is where it is in `SelfUpdate()` and the file it has open,
which follows that file through renames, as a handle does. The file is chunks, each of
a release or missing, so that two copies into one file can mix. Linux refuses to run a
file open for writing (ETXTBSY), which is why verification keeps most damage out.

A definition under a `\* Mutant:` comment is a plausible mistake in the definition
that follows it. No specification uses it: put in that definition's place, it shows
that a property can fail.

## 3. What TLC checks

`tlc -config X.cfg M` for the twelve pairs below; every run ends within about two
minutes on two workers.

| run | module, cfg | shows | distinct states |
|---|---|---|---|
| shutdown | `MCDelivery`, `MCDelivery_shutdown.cfg` | `ShutdownEmptiesQueue`, `SpoolBounded`, `SentAgainOnlyUnanswered`, `EvictsOnlyOverflow`, with lost answers, requests that the stop cuts short, damaged and expired files | 1 050 000 |
| liveness | `MCDelivery`, `MCDelivery_liveness.cfg` | `StopTerminates`, although storing may be refused; `EventuallySettled` and `ReloadsTakeEffect`, with reloads that resize the batches and move the spool | 212 000 |
| faults | `MCDelivery`, `MCDelivery_faults.cfg` | `TypeOK`, `NothingVanishes`, `HandsMatchDisk`, `KeepsPromise`, `BacklogStaysInOrder` under crashes, restarts, refusals, lost answers, redirections and failing file operations | 1 000 000 |
| sender | `MCSender`, `MCSender.cfg` | `TypeOK`, `HonoursContract`, `GzipRefusalIsNotFinal`, `BackoffClosedForm`, `Returns` | 144 000 |
| tail | `MCLogTail`, `MCLogTail_tail.cfg` | `TypeOK`, `ForwardedOnceInOrder`, `NoLineSkipped`, `TailKeepsUp`, with truncation, failing reads and restarts | 211 000 |
| lifecycle | `MCLifecycle`, `MCLifecycle.cfg` | `HostTypeOK`, `StaleOnlyAfterRace`, `BrokenOnlyAfterOverlap`, `NeverGoesBack`, `QuietWriteIsLoaded`: the file is rewritten and the executable replaced while the process polls, ends and starts | 1 580 000 |
| services | `MCServiceCollector`, `MCServiceCollector.cfg` | `TypeOK`, `StreaksTellHistory`, `MapsAgree`, `ReportsWholeConfig`, `CacheFollowsConfig`, `CheckedForEver` | 276 000 |
| rates | `MCRates`, `MCRates.cfg` | `TypeOK`, `NeverOverstated`, `NothingUncounted`, `SpeedBounded` | 3 870 000 |
| readerror | `MCDelivery`, `MCDelivery_readerror.cfg` | violates `DeletesOnlyCorrupt`, section 5 | - |
| tokenless | `MCDelivery`, `MCDelivery_tokenless.cfg` | violates `TokenlessKeepsBacklog`, section 5 | - |
| firstsight | `MCLogTail`, `MCLogTail_firstsight.cfg` | violates `SkipsOnlyOnFirstSight`, section 5 | - |
| names | `MCServiceNames`, `MCServiceNames.cfg` | violates `NamesUnique`, section 5 | - |

### Bounds, and why they are enough

* `MaxSamples` and `MaxStamps` bound the snapshots ever taken and the files ever
  written. Three of each with a spool of one file (`shutdown`) let it overflow while
  two goroutines store and two drain, and its file be overtaken; two of each are enough
  for every pair of steps of `faults`, which has most faults at once. At `MaxSamples` no
  snapshot is taken any more, and at `MaxStamps` no temporary file is written and a
  `Store` waits. A snapshot needs a second stamp only when its store fails after the
  temporary file was written, so every instance without `storeError` and `pruneError` has
  a stamp for every batch; in `faults`, which has no liveness property, a path that needs
  a third stamp ends there or with a crash. `liveness` lets storing fail by way of
  batches too large to be stored, which spends no stamp.
* The faults are dealt out: `cancel`, `expire` and `corrupt` to `shutdown`, errors of
  storing, pruning, reading and deleting, crashes and redirections to `faults`. What a
  redirection may do includes what a lost answer or a refusal may do, and a file that
  cannot be read meets the agent as one that is damaged.
* Batch sizes are 1 or 2 snapshots, spools 1 or 2 files, so that a limit is met, met
  exactly, or missed by one. `TightOver` adds batches too large to be stored, `Moved` has
  these and a spool in another directory, `TokenGone` a file without a token and an
  empty one.
* `Sender`: settings of files with `max_retries` -1 to 4 (zero and less mean the default,
  three), backoffs such that the cap is met at the first retry, at a later one, or
  exceeded by the initial delay; one status of every class; any subset of the faults.
* `LogTail`: limits 1, 1 and 2 in place of 200, 500 and 1000, with three lines in one
  file and two in the other: each limit is exceeded alone and together with the others.
* `ServiceCollector`: at most two services, a semaphore of one in place of four (so
  that somebody waits), intervals of one and two ticks, streaks told apart up to 3. The
  clock is set back while every next run is less than `MaxAhead` = 3 ticks away.
* `Rates`: two names, so that one goes while the other stays and one is cut from the
  busiest (`MaxProcesses` 1); counters that wrap at 3 after at most two counts between
  readings; a clock of three values, so that it can be set forward, back and between.
* `Lifecycle`: three revisions of the file, as many as the first load and a reload that
  is overtaken need; two updaters, two releases and two chunks, the least that mixes.
* `ServiceNames`: three entries of three names; no bound below three shows the divergence.

`CHECK_DEADLOCK FALSE` is set for `MCSender` (a call that has returned stops) and
`MCServiceNames` (so does a loop at the end of its input); every other run checks
for deadlock.

### Fairness, and why the code justifies it

* `Delivery`: weak fairness of each goroutine's next step, because Go schedules
  goroutines, timers fire, and every request and sleep has a deadline. Strong fairness
  of an answer for good in `send` and `resend`, used by `EventuallySettled` and
  `ReloadsTakeEffect`: the collector is not unreachable for ever. `StopTerminates` does
  not lean on it: a batch that fails while stopping is stored or requeued, and either
  ends the turn. None is assumed of collections, reloads, faults or signals.
  `EventuallySettled` is claimed of processes that are not ended again and again and of
  a spool that stays where it is: files left in another directory stay there.
* `Sender`: weak fairness of the call's own steps, since requests have timeouts
  (`transport.request_timeout`) and sleeps timers. None of cancellation.
* `LogTail` and `ServiceCollector`: weak fairness of the loop that the timer drives and,
  for services, of time and of checks, which all have timeouts. None of writers, of
  reloads, or of failing reads. `CacheFollowsConfig` and `CheckedForEver` are claimed of
  a clock that is not set back again and again.
* `Lifecycle`: weak fairness of the reload loop and the service manager together. None
  of writers, crashes or updates; `QuietWriteIsLoaded` is claimed of a process that does
  not end again and again and of updates that do not overlap.
* `Rates` has no liveness property and no fairness.

Every property of a passing run is sensitive to a mistake in the code: the mutants
listed in `PROJECT.json` each replace one definition, and the property then fails.

## 4. What TLAPS proves

For every value of the constants that satisfies the modules' assumptions (any set of
configurations of the type, any bounds in `Nat`, any subset of the faults):

| theorem | of | states |
|---|---|---|
| `TypeCorrect` | `DeliveryProofs` | `Spec => []TypeOK` |
| `HandsCorrect` | `DeliveryProofs` | `Spec => []HandsMatchDisk` |
| `NothingLost` | `DeliveryProofs` | `Spec => []NothingVanishes` |
| `PromiseKept` | `DeliveryProofs` | `Spec => KeepsPromise`: Delivery implements Ledger |
| `QueueEmptied` | `DeliveryProofs` | `Spec => []ShutdownEmptiesQueue` |
| `BacklogOrdered` | `BacklogProofs` | `Spec => BacklogStaysInOrder` |
| `OnlyOverflowEvicted` | `BacklogProofs` | `Spec => EvictsOnlyOverflow` |
| `DuplicatesConfined` | `BacklogProofs` | `Spec => SentAgainOnlyUnanswered` |
| `SpoolNeverOverflows` | `BacklogProofs` | `Spec => []SpoolBounded` |
| `OrderUntilStopped` | `BacklogProofs` | `Spec => []OrderedUntilStopped`: without a stop or a failing prune the whole backlog is in the order of capture |
| `OnlyOverflowGivenUp` | `BacklogProofs` | `Spec => GivesUpOnlyOverflow`: with a collector that refuses nothing and a disk that keeps its files, only the oldest file of an overfull directory is given up, or one that a shutdown has overtaken |
| `QueueStaysShort` | `BacklogProofs` | `Spec => []QueueBounded`: at most one snapshot in the queue, two in a shutdown, where every batch can be sent or stored |
| `TurnsAreFinite` | `BacklogProofs` | `Spec => TurnsEnd`: each step of a turn, and each step of a shutdown, goes down a well-founded order |
| `SendTypeCorrect` | `SenderProofs` | `Spec => []TypeOK` |
| `ContractHonoured` | `SenderProofs` | `Spec => []HonoursContract` |
| `PlainBodyTried` | `SenderProofs` | `Spec => []GzipRefusalIsNotFinal` |
| `LoopBounded` | `SenderProofs` | `Spec => []RequestsBounded`: one request for each of at most `max_retries` retries and the first attempt, and one more after a gzip refusal |
| `RetriesExhausted` | `SenderProofs` | `Spec => []TemporaryOnlyAtTheEnd`: "try later" only when the retries are used up or the context ended |
| `DelaysDouble` | `SenderProofs` | `Spec => []BackoffClosedForm` |
| `CallEnds` | `SenderProofs` | a call has at most `2 * max_retries + 4` steps: each leaves fewer |
| `TailTypeCorrect` | `LogTailProofs` | `Spec => []TypeOK` |
| `LinesForwardedOnce` | `LogTailProofs` | `Spec => []ForwardedOnceInOrder` |
| `OffsetsTellTruth` | `LogTailProofs` | `Spec => []NoLineSkipped` |
| `SkippedOnlyAfterEmpty` | `LogTailProofs` | `Spec => SkipsOnlyAfterEmpty`: without truncation, only a file that was empty when looked at is skipped over again |
| `CollectorTypeCorrect` | `ServiceCollectorProofs` | `Spec => []TypeOK` |
| `StreaksToldRight` | `ServiceCollectorProofs` | `Spec => []StreaksTellHistory` |
| `MapsAlwaysAgree` | `ServiceCollectorProofs` | `Spec => []MapsAgree` |
| `WholeConfigReported` | `ServiceCollectorProofs` | `Spec => ReportsWholeConfig` |
| `RoundsAreShort` | `ServiceCollectorProofs` | a round has at most two steps for each entry, each leaves fewer, and at most `Limit` checks run at once |
| `NeverPutOff` | `ServiceCollectorProofs` | `Spec /\ [][~SetBack]_vars => []ScheduledSoon`: no service waits longer than an interval some configuration gave it |
| `RatesTypeCorrect` | `RatesProofs` | `Spec => []TypeOK` |
| `RatesNeverOverstated` | `RatesProofs` | `Spec => NeverOverstated` |
| `RatesNothingUncounted` | `RatesProofs` | `Spec => NothingUncounted` |
| `RatesSpeedBounded` | `RatesProofs` | `Spec => SpeedBounded` |
| `PartsImplemented` | `LifecycleProofs` | `LifeSpec => Spec /\ UpdateSpec`: the host does what its parts do |
| `HostTypeCorrect` | `LifecycleProofs` | `LifeSpec => []HostTypeOK` |
| `HostStampTellsTruth` | `LifecycleProofs` | `LifeSpec => []StaleOnlyAfterRace` |
| `HostMovesForward` | `LifecycleProofs` | `LifeSpec => NeverGoesBack` |
| `HostExecutableWhole` | `LifecycleProofs` | `LifeSpec => []BrokenOnlyAfterOverlap` |
| `HostAlwaysStartable` | `LifecycleProofs` | `LifeSpec => [](~overlapped => Startable)` |
| `SettingsUsable` | `SanitiserProofs` | every setting made of any file has the type the agent needs |
| `ChecksFitTheirInterval` | `SanitiserProofs` | a check's timeout is positive and within its interval |
| `NothingSetMeansDefaults` | `SanitiserProofs` | the file `{}` means the defaults, but for the place of the spool |
| `NamesUniqueIfUnambiguous` | `SanitiserProofs` | `Spec => [](Unambiguous => NamesUnique)` of `ServiceNames`, for any names and any number of services |

**Delivery.** `NothingVanishes` is not inductive. The step that deletes a sent file
is harmless only because the file has the contents that were sent and these are
settled, and the step that forgets a batch after `Store` only because the batch is on
disk or settled, in spite of what other goroutines delete meanwhile. That is
`HandsMatchDisk`, and the inductive invariant is `TypeOK /\ HandsMatchDisk /\
NothingVanishes`. The argument runs along `DiskStep`: whatever a step does, the file
of a stamp keeps its batch until it goes, a new file has a new stamp, and a file that
goes is settled; that is shown once for each action (`NextDisk`) and is then all that a
goroutine needs to know of the others (`HandKept`). One case needs care: `Forget`
deletes a file without settling it, which only what its own hand says makes harmless. `PromiseKept`
then shows that a step captures one snapshot (`FlushOnce` with a dirty cache), or
takes hold of nothing and lets go only of settled snapshots (`OwnStep`, `FilesCome`),
or changes nothing of the promise. `QueueEmptied` needs an invariant about who is
bound to empty the queue: a batch that is sent or stored has at most `batch_size`
snapshots (`Fits`), so that with a spool that takes such batches a flusher stops only
over an empty queue (`LeavesEmpty`), and nobody but flushers works on it
(`FlushersOnly`).

**The backlog.** Each of these properties needs to know what the goroutines hold
together, which the hand of one does not say.
`BacklogOrdered` rests on `FlushesAlone`: as long as the process is not told to stop,
only the flush loop works on the queue, its hand and the queue rise, and its temporary
file is the last that was written. A file then stays behind what is in memory
(`SpoolBehind`), because a new file takes the oldest of it and the newest stamp.
`OnlyOverflowEvicted` rests on a fact about listings that are stale: files leave a
directory from the oldest on (`OldestFirst`), so a file that is still there has all the
newer ones of the listing beside it, and these are at least `max_batches`
(`Overflowing`). A deletion that fails, or a file that cannot be read and stays, breaks
the order in which they leave; hence the faults that the property excludes. So does a
file that arrives in the middle of the order: while the process runs, a new file is the
newest (`NewFiles`, from `FlushesAlone`), but in a shutdown the flush loop may rename
what it wrote before main's file, find it surplus, and evict it after main has drained the
others. The property therefore speaks of no file that a shutdown has overtaken
(`Overtaken`); without this exception TLC finds that behaviour in the run `shutdown`.
Restarted, the process makes no exception of the same file.
`DuplicatesConfined` rests on `Apart`, by which no snapshot is in two places (queue,
hands, files), and on `Unsent`, by which what `Send` has answered for good is in none of
them but the file that its sender is about to delete. Only a shutdown has a second
goroutine that may send that file meanwhile. The property is about what the agent knows,
so it needs no promise about answers: a batch that was accepted and never answered,
because the answer was lost or the stop cut the request short, is stored and sent again,
by the next process if not by this one, and that cannot be helped on this side.
`SpoolNeverOverflows` counts, and a count over several goroutines that prune at once is
not inductive. `WithinExcess` therefore says, for every set of pruning goroutines whose
evictions are taken as done, that the files spared are within the bound and one more for
each goroutine that has yet to list the directory or is not of the set.
`OrderUntilStopped` is the same step (`OrderKept`) over any number of lives: without a
stop there is one flusher for ever, so that the queue and its hand rise (`MemoryAlone`),
and a crash only forgets them. `OnlyOverflowGivenUp` puts the listings (`Overfull`), the
files that stay readable (`AllIntact`) and the tokens together: of all the places where
snapshots are written off, one is left: eviction, of the oldest file of an overfull
directory or of one that was overtaken.
`QueueStaysShort` goes along the turns of the flushers: the loop and main each push one
snapshot into a queue that is theirs to empty, and requeue nothing (`NeverRequeued`), so
what is queued is at most what the pushes of the turns under way put there.
`TurnsAreFinite` orders what is left lexicographically (`Remaining`): what remains of
the turns, the length of the queue, the stages of the batches in hand, the files of the
listings. A step of one goroutine leaves the shares of the others alone
(`OthersUntouched`), except for the queue, into which only a push and a requeue put
something, and both bring a turn forward (`StepCloser`). A listing must not be empty for its
last file to count (`Listed`). This is the part of `StopTerminates` that is about the
code and not about the scheduler: the goroutines have finitely many steps left, whatever
fails, and weak fairness is needed only for these to be taken.

**Sender.** The invariant `OnTheWay` describes a call under way: before it returns a
copy was accepted only if an answer was lost, a redirection followed, or the context has
ended (`Excused`), nothing was sent without a token, the
counter is within its bound, and there was one request for each attempt besides the
one after a gzip refusal. With `TypeOK` it makes the properties inductive. That a
permanent status is a refusal, and a success an acceptance, for every status in
200..599 that comes from the collector is part of the proof.
`DelaysDouble` compares the loop, which doubles and caps step by step, with powers of
two, which `PowerOfTwo` defines by recursion. That such a function exists and unfolds is
proved from the least number without one (`PowersExist`, `PowersAgree`,
`PowerOfTwoUnfolds`), since the well-foundedness of `<` can be used where an induction
rule, which takes an operator, cannot. The invariant (`RetryDelays`, `NextDelays`) is
about the delay of the next retry; once it has met the cap, doubling keeps it there.
`CallEnds` counts a request and a sleep for each retry that is left (`StepsLeft`), with
the one request after a gzip refusal on top.

**LogTail.** The order of the stream depends on where reading resumes. The invariant
says that a position is *behind* nothing that was forwarded: either all lines of the
file that were forwarded have been truncated away, or the position is within the file
and at least as far as the last of them (`Behind`). A truncation turns the second case
into the first, and only the first can hold of an offset that is beyond the end of the
file, so that starting over repeats nothing. The three parts of the stream are ordered
in themselves and before one another (`InOrder`), which survives the limits because
they cut from the front (`LastOfFacts`, `Joined`). For `NoLineSkipped` the invariant
`Complete` adds that, as long as nothing is excused, no offset is beyond its file and a
scan begins at the offset.
For `SkippedOnlyAfterEmpty` it is `OnlyGrown`: in a file that was never cut, an offset is
never beyond the end, so that starting over can only mean an offset of 0, which only an
empty file leaves behind. It says how far the divergence `firstsight` of section 5 goes.

**ServiceCollector.** `MapsAgree` is silent during a round of checks, so `RoundsAgree`
adds what holds then: the schedule is complete, and the results will be once the
entries of the round have theirs. That the schedule covers the configuration
(`ScheduleCovers`) needs the first entry of each name, whence the least element of a
set of positions (`Least`, from the well-foundedness of `<`). `StreaksToldRight` rests
on what one more outcome does to the run at the end of a history (`RunGrows`,
`RunEmpty`) and on the cut to the last `MaxStreak` outcomes (`RunCut`).
`RoundsAreShort` counts two steps for a check that waits and one for a check under way
(`ChecksLeft`), which only `CollectDue` sets, and not before the last round has ended.
`NeverPutOff` follows each next run through ticks and new schedules; its assumption is
that the clock is not set back, and a set-back clock does put every check off.

**Rates.** The invariant `HonestReadings` ties a counter to the reading kept of it
(`ReadingsBound`: at most that reading and what was counted since, exactly that for a
counter that ran on) and, while nobody sets the clock, what was counted to the time it
took (`ClockBounds`). `CollectionSound` carries the first property over the steps of
one collection. The proof does not use the width of the counters beyond its being
positive.

**ConfigReload, SelfUpdate and Lifecycle.** `LooksAgree` says that the file, when there
is one, is the newest revision; that the agent is about to read only what it has not
stamped; and that what it has read is what it will stamp, unless a write came between.
A write then always makes the file newer than every stamp and every configuration the
agent knows. `UpdateInv` says of commands that do not overlap that at most one is under
way, that what it has copied so far is in the temporary file, and that what it runs and
renames is whole (`Alone`, `Sound`). `PartsImplemented` carries both over to the
composition, whose steps are steps of the parts. `HostAlwaysStartable` is what the two say
of the moments at which `Restart=always` matters: the file is whole, and nobody has it
open for writing.

**ServiceNames.** `Unambiguous` says what the naming loop silently assumes: a name is
used at most twice, and none is what another becomes with its number. The invariant
`GivenOnce` says where each name that was given comes from (`Given`: an entry, or two
entries and the number), and that no count has gone beyond one.

**Model-checked only.** Liveness (`StopTerminates`, `EventuallySettled`,
`ReloadsTakeEffect`, `Returns`, `TailKeepsUp`, `QuietWriteIsLoaded`,
`CacheFollowsConfig`, `CheckedForEver`) is out of the prover's reach, as is `ENABLED`. What
`TurnsAreFinite`, `CallEnds` and `RoundsAreShort` prove is that the steps run out; that
they are taken is what TLC checks under fairness. Every invariant and every action
property that a passing run checks is a theorem. `NamesUnique` does not hold.

**Only proved.** No run repeats `LoopBounded`, `RetriesExhausted`, `CallEnds`,
`OrderUntilStopped`, `OnlyOverflowGivenUp`, `QueueStaysShort`, `TurnsAreFinite`,
`SkippedOnlyAfterEmpty`, `RoundsAreShort`, `NeverPutOff`, `HostAlwaysStartable`,
`NamesUniqueIfUnambiguous`, `PartsImplemented` and the theorems on the sanitiser's operators.

## 5. Where code and text disagree

Each is the counterexample of a run:

* **readerror**: `drainOnce` deletes the file after any error of `Load`, a failed read
  included, while it reports "failed to decode buffered batch; deleting corrupt file"
  (agent.go:317). A batch that could not be read for a moment is lost.
* **tokenless**: a missing token is a permanent error of `Send`, so queue and spool are
  emptied while config.go:435 announces that delivery is disabled *until a token is
  configured*. In the run the token is taken out of the file, or the file is emptied,
  which is valid: then the spool, too, is looked for in the working directory
  (config.go:256-262), and only the queue is lost.
* **firstsight**: offset 0 means both "never seen" and "was empty"; a log that was empty
  when first looked at loses what is written before the next collection, against the
  comment of logs.go:72.
* **names**: only the renamed name is counted, so a third `db` becomes `db-2` like the
  second, against the test's "expected duplicate names to be normalized"
  (config_test.go:73). Such services share schedule, streaks and result.

Noted while reading, without a run: `README.md` line 37 says that the agent falls back to
safe defaults when the configuration file is corrupt, which holds at start and
not of a reload, where the configuration in use is kept; `README.md` line 35 calls the
spool encrypted, while batches are plain JSON files; logs.go:47 speaks of a
limit on each *snapshot*, but 500 is the limit of one collection, and a snapshot may
carry the 1000 lines of the cache; `init-config` looks for the file and then renames
over it (agent.go:167-178), so a file written in between is replaced without `--force`
(both steps are actions of `ConfigReload`); service.go:166 makes a transport for each
check, whose idle connections nobody closes; process.go:82 warns of skipped processes
also when they were only filtered out; `time.Now().UTC()` has no monotonic reading, so a
clock that is set moves schedules and rates (both are in the models); and the CPU time a
process uses between its read and `rebuildProcessCPUMap` is in no rate
(`NothingUncounted` is not claimed of processes). The HTTP client has no `CheckRedirect`
(client.go:69-71): it follows a 301, 302 or 303 with a GET that has no body, and takes a
200 from wherever that leads for the acceptance of the batch (the fault `redirect`). A
stop that ends a request the collector has accepted leaves the batch to be stored and
sent again by the next process (`cancel`). And at shutdown a file may be evicted from a
directory that holds no more than `max_batches` (`Overtaken`, section 4).

## 6. Not modelled, and why

* `run --once` and `status`: sequential, one collection and one `Send`.
* Payload types, version, command line, logging, installer, web page, release workflow:
  no state or pure I/O. `Restart=always` of the installed unit is `Restart`.
* Readings that keep no state (CPU, load, memory, disk usage, connections) and what else
  is told of a process: copied data.
* Of the sanitiser: identity, labels, process filters, logging, headers, methods, names
  derived from targets, and the warnings. Text is copied or replaced there without a
  decision another part relies on.
* Panics, which `safeStep` and `recoverLoop` turn into log lines: no step of the
  modelled code is known to panic.
* Warnings attached to snapshots, the jitter of backoffs, temporary files of the spool
  left behind by a crash, and, for the spool only, clocks that are set back: stamps follow
  the order in which temporary files are written.
* An error of `Close` on the downloaded file, which update.go:49 does not look at.
* In `Rates`, a name that appears counts from zero.
* Lines are written whole: `LogTail` does not have a scanner that reads half a line.
* Tokens are present or absent: a token that was replaced is one the collector still
  takes or refuses, which is an answer of `Send`.
* The order in which writes reach the disk: `update.go` renames without a sync, so a
  power failure may leave less than `SelfUpdate` shows.
* Marshalling, compressing and building a request do not fail in `Sender`, and the
  context of a batch is not split into its parts.
* A check that the end of the context aborts is one of the outcomes of `EndCheck`;
  `ServiceCollector` has no shutdown that would tell it from a failing one.

## 7. Plan

Done, in this order: `Delivery` with the spool; `Ledger` and the refinement; `Sender`
against `SendContract`; the theorems on both; `LogTail`; `ConfigReload`;
`ServiceCollector`; `ServiceNames`; `Rates`; `Sanitiser` and the instances made with it;
`SelfUpdate` and `Lifecycle`; the theorems on all of these; the termination measures and
the theorems beyond the runs' properties.

Next, models:
1. the end of the context in `ServiceCollector`, beside main's flush at shutdown;
2. a clock that is set back between two writes to the spool;
3. tokens as values known to the collector;
4. partial lines in `LogTail`.

Next, theorems: the safety properties of these models, on the invariants of section 4.
