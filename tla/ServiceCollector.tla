-------------------------- MODULE ServiceCollector --------------------------
(***************************************************************************)
(* The service checks (internal/collector/service.go) and the loop that    *)
(* runs them (serviceLoop of internal/app/agent.go): which services are    *)
(* due, the concurrent checks behind a semaphore, the streaks of passing   *)
(* and failing results, and what the snapshot cache is told.               *)
(*                                                                         *)
(* Abstractions: time is relative, counted in ticks until a service is due *)
(* and in results since its last transition; streaks are counted up to     *)
(* MaxStreak; a check gives any outcome, whether the target, the timeout   *)
(* or the end of the context decides it.                                   *)
(***************************************************************************)
EXTENDS Integers, FiniteSets, Sequences, SequencesExt

CONSTANTS
    Configs,   \* the lists cfg.Services can be; entries with name and interval
    Limit,     \* 4: capacity of the semaphore
    MaxStreak, \* bound: the length up to which streaks are told apart
    MaxAhead   \* bound: how far ahead a next run may be

Service == [name : STRING, interval : Nat \ {0}]

ASSUME ConfigsAssumption == Configs \subseteq Seq(Service) /\ Configs # {}
ASSUME BoundsAssumption == {Limit, MaxStreak, MaxAhead} \subseteq Nat \ {0}

VARIABLES
    config,   \* Agent.config, its services
    cfg,      \* the services of the configuration the loop has read
    pc,       \* serviceLoop: reading, sleeping, checking
    nextRun,  \* ServiceCollector.nextRun: name -> ticks until the next run
    states,   \* ServiceCollector.states: name -> serviceState
    results,  \* ServiceCollector.results: name -> result with its streaks
    waiting,  \* due entries whose goroutine waits for the semaphore
    checking, \* due entries whose check is under way
    outcomes, \* the results channel: entry -> Success
    cached,   \* snapshotCache.services
    recent    \* name -> its last MaxStreak outcomes since it was configured

schedule == <<nextRun, states, results>>
checks   == <<waiting, checking, outcomes>>
vars     == <<config, cfg, pc, schedule, checks, cached, recent>>

Names(services) == {services[i].name : i \in DOMAIN services}

Smaller(m, n) == IF m < n THEN m ELSE n

Without(f, S) == [x \in DOMAIN f \ S |-> f[x]]

\* The zero serviceState, whose lastTransitionAt is the zero time.
Never == -1
NoState == [lastSuccess |-> FALSE, successes |-> 0, failures |-> 0, transition |-> Never]

StateOf(name) == IF name \in DOMAIN states THEN states[name] ELSE NoState

\* One more result of the same kind since the last transition.
Older(transition) == Smaller(transition + 1, MaxStreak - 1)

\* Mutant: a passing check leaves the count of failures.
AfterResultKeepsFailures(state, success) ==
    IF success
    THEN [state EXCEPT !.lastSuccess = TRUE,
                       !.successes = Smaller(@ + 1, MaxStreak),
                       !.transition = IF ~state.lastSuccess THEN 0 ELSE Older(@)]
    ELSE [lastSuccess |-> FALSE, successes |-> 0,
          failures |-> Smaller(state.failures + 1, MaxStreak),
          transition |-> IF state.lastSuccess \/ state.transition = Never
                         THEN 0 ELSE Older(state.transition)]

\* What a result makes of the state of its service.
AfterResult(state, success) ==
    IF success
    THEN [lastSuccess |-> TRUE,
          successes |-> Smaller(state.successes + 1, MaxStreak),
          failures |-> 0,
          transition |-> IF ~state.lastSuccess THEN 0 ELSE Older(state.transition)]
    ELSE [lastSuccess |-> FALSE,
          successes |-> 0,
          failures |-> Smaller(state.failures + 1, MaxStreak),
          transition |-> IF state.lastSuccess \/ state.transition = Never
                         THEN 0 ELSE Older(state.transition)]

\* Mutant: a service is due once.
ElapsedOnce(name) == name \notin DOMAIN nextRun

Elapsed(name) == name \notin DOMAIN nextRun \/ nextRun[name] = 0

\* The entries that are due.  An entry with the name of an earlier one finds
\* that one's next run.
Due == {i \in DOMAIN cfg :
          /\ Elapsed(cfg[i].name)
          /\ \A j \in DOMAIN cfg : j < i => cfg[j].name # cfg[i].name}

\* Mutant: removed services are not looked for.
NoneRemoved == {}

\* The services that are no longer configured.
Removed == DOMAIN results \ Names(cfg)

Renewed == {cfg[i].name : i \in Due}
Interval(name) == cfg[CHOOSE i \in Due : cfg[i].name = name].interval

\* Mutant: the schedule of a removed service is kept.
ReschedulesRemoved ==
    [name \in DOMAIN nextRun \cup Renewed |->
       IF name \in Renewed THEN Interval(name) ELSE nextRun[name]]

\* nextRun once the due services are given their next run and the removed ones
\* are forgotten.
Rescheduled ==
    [name \in (DOMAIN nextRun \ Removed) \cup Renewed |->
       IF name \in Renewed THEN Interval(name) ELSE nextRun[name]]

\* Mutant: nothing stops at the due time.
LaterUnchecked(ticks) == ticks - 1

\* Ticks until a next run, one tick later.
Later(ticks) == IF ticks = 0 THEN 0 ELSE ticks - 1

-----------------------------------------------------------------------------
Init ==
    /\ config \in Configs
    /\ cfg = <<>>
    /\ pc = "reading"
    /\ nextRun = <<>> /\ states = <<>> /\ results = <<>>
    /\ waiting = {} /\ checking = {} /\ outcomes = <<>>
    /\ cached = <<>>
    /\ recent = <<>>

\* reloadConfig
Reload ==
    /\ config' \in Configs
    /\ UNCHANGED <<cfg, pc, schedule, checks, cached, recent>>

\* Time passes.
Tick ==
    /\ nextRun' = [name \in DOMAIN nextRun |-> Later(nextRun[name])]
    /\ UNCHANGED <<config, cfg, pc, states, results, checks, cached, recent>>

\* The wall clock, which the times of the next runs are taken from, is set
\* back: time.Now().UTC() has no monotonic reading.
SetBack ==
    /\ \A name \in DOMAIN nextRun : nextRun[name] < MaxAhead
    /\ nextRun' = [name \in DOMAIN nextRun |-> nextRun[name] + 1]
    /\ UNCHANGED <<config, cfg, pc, states, results, checks, cached, recent>>

\* The loop reads the configuration before it sleeps, not after.
ReadConfig ==
    /\ pc = "reading"
    /\ cfg' = config
    /\ pc' = "sleeping"
    /\ UNCHANGED <<config, schedule, checks, cached, recent>>

\* CollectDue with no services forgets everything.
ForgetAll ==
    /\ pc = "sleeping"
    /\ cfg = <<>>
    /\ nextRun' = <<>> /\ states' = <<>> /\ results' = <<>>
    /\ cached' = IF results # <<>> THEN <<>> ELSE cached
    /\ recent' = <<>>
    /\ pc' = "reading"
    /\ UNCHANGED <<config, cfg, checks>>

\* CollectDue picks the services that are due and forgets the removed ones; it
\* reports no change when none is due.
CollectDue ==
    /\ pc = "sleeping"
    /\ cfg # <<>>
    /\ nextRun' = Rescheduled
    /\ states' = Without(states, Removed)
    /\ results' = Without(results, Removed)
    /\ recent' = Without(recent, DOMAIN recent \ Names(cfg))
    /\ waiting' = Due
    /\ pc' = IF Due = {} THEN "reading" ELSE "checking"
    /\ UNCHANGED <<config, cfg, checking, outcomes, cached>>

\* A goroutine gets into the semaphore, whose capacity is at most Limit.
StartCheck(i) ==
    /\ i \in waiting
    /\ Cardinality(checking) < Limit
    /\ waiting' = waiting \ {i}
    /\ checking' = checking \cup {i}
    /\ UNCHANGED <<config, cfg, pc, schedule, outcomes, cached, recent>>

\* checkService returns, and its result is sent on the channel.
EndCheck(i) ==
    /\ i \in checking
    /\ checking' = checking \ {i}
    /\ \E success \in BOOLEAN :
         outcomes' = [j \in DOMAIN outcomes \cup {i} |-> IF j = i THEN success ELSE outcomes[j]]
    /\ UNCHANGED <<config, cfg, pc, schedule, waiting, cached, recent>>

\* wait.Wait returns: CollectDue applies the results and serviceLoop caches
\* its snapshot of all of them.
ApplyResults ==
    /\ pc = "checking"
    /\ waiting = {} /\ checking = {}
    /\ LET checked == {cfg[i].name : i \in DOMAIN outcomes}
           Success(name) == outcomes[CHOOSE i \in DOMAIN outcomes : cfg[i].name = name] IN
         /\ states' = [name \in DOMAIN states \cup checked |->
                         IF name \in checked THEN AfterResult(StateOf(name), Success(name))
                                             ELSE states[name]]
         /\ results' = [name \in DOMAIN results \cup checked |->
                          IF name \in checked THEN states'[name] ELSE results[name]]
         /\ recent' = [name \in DOMAIN recent \cup checked |->
                         LET before == IF name \in DOMAIN recent THEN recent[name] ELSE <<>>
                             all    == Append(before, Success(name)) IN
                           IF name \notin checked THEN before
                           ELSE IF Len(all) > MaxStreak THEN Tail(all) ELSE all]
    /\ cached' = results'
    /\ outcomes' = <<>>
    /\ pc' = "reading"
    /\ UNCHANGED <<config, cfg, nextRun, waiting, checking>>

Checks == \E i \in DOMAIN cfg : StartCheck(i) \/ EndCheck(i)

Next ==
    \/ Reload \/ Tick \/ SetBack
    \/ ReadConfig \/ ForgetAll \/ CollectDue
    \/ Checks
    \/ ApplyResults

Spec == Init /\ [][Next]_vars

\* Time passes, the loop is scheduled, and every check has a timeout.
FairSpec ==
    Spec /\ WF_vars(Tick) /\ WF_vars(ReadConfig \/ ForgetAll \/ CollectDue \/ ApplyResults)
         /\ WF_vars(Checks)

-----------------------------------------------------------------------------
(* Properties. *)

ServiceState ==
    [lastSuccess : BOOLEAN, successes : 0..MaxStreak, failures : 0..MaxStreak,
     transition : Never..(MaxStreak - 1)]

\* The state has its type.
TypeOK ==
    /\ config \in Configs
    /\ cfg \in Configs \cup {<<>>}
    /\ pc \in {"reading", "sleeping", "checking"}
    /\ \A name \in DOMAIN nextRun : nextRun[name] \in Nat
    /\ \A name \in DOMAIN states : states[name] \in ServiceState
    /\ \A name \in DOMAIN results : results[name] \in ServiceState
    /\ waiting \cup checking \cup DOMAIN outcomes \subseteq DOMAIN cfg
    /\ \A name \in DOMAIN cached : cached[name] \in ServiceState

\* The length of the run of outcomes b at the end of a history.
Run(history, b) ==
    CHOOSE n \in 0..Len(history) :
        /\ \A k \in (Len(history) - n + 1)..Len(history) : history[k] = b
        /\ n < Len(history) => history[Len(history) - n] # b

\* What is reported of a service is its history: how many of its last checks
\* passed, or failed, one after the other since it was configured, and that its
\* last transition is the first of these, also for a service that has failed
\* since its first check, or was removed and added again (service.go:66-72,
\* 104-127).
StreaksTellHistory ==
    \A name \in DOMAIN results :
        LET history == recent[name]
            last    == history[Len(history)] IN
          /\ name \in DOMAIN recent
          /\ results[name] =
               [lastSuccess |-> last,
                successes   |-> Run(history, TRUE),
                failures    |-> Run(history, FALSE),
                transition  |-> Run(history, last) - 1]

\* CollectDue forgets a service in all three maps or in none, though it looks
\* for removed ones only among the results: no schedule survives that would
\* delay a service that is added again (service.go:43-51, 66-72).
MapsAgree ==
    pc # "checking" => DOMAIN nextRun = DOMAIN results /\ DOMAIN states = DOMAIN results

\* Whatever reloads did meanwhile, what is cached for the next snapshot lists
\* the services of the configuration they were checked for, all of them and no
\* other (service.go:54-133, agent.go:233-236).
ReportsWholeConfig ==
    [][cached' # cached => DOMAIN cached' = Names(cfg)]_vars

\* After the last reload a removed service leaves the snapshots and an added
\* one enters them, although CollectDue reports no change for the removal, and
\* although the clock may have been set back (service.go:66-75,
\* agent.go:226-238).
CacheFollowsConfig ==
    (<>[][~SetBack]_vars) =>
        \A c \in Configs : (<>[](config = c)) => <>[](DOMAIN cached = Names(c))

\* The checks of a service never cease while it is configured, however many
\* services wait for the semaphore and however long, and whatever the clock
\* did, once it is no longer set back (service.go:53-101).
CheckedForEver ==
    (<>[][~SetBack]_vars) =>
        \A c \in Configs : \A name \in Names(c) :
            (<>[](config = c)) =>
                []<>(\E i \in DOMAIN cfg : cfg[i].name = name /\ i \in checking)

=============================================================================
