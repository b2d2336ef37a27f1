-------------------------------- MODULE Rates ---------------------------------
(***************************************************************************)
(* How counters of the kernel become rates: the disk and network counters  *)
(* of SystemCollector (internal/collector/system.go) and the CPU times of  *)
(* ProcessCollector (internal/collector/process.go), with the kernel that  *)
(* counts and the wall clock that dates the readings.                      *)
(*                                                                         *)
(* The three tables, prevDiskIO, prevNet and prevCPU, share no state, so a *)
(* behaviour is about one of them, chosen by the variable table.           *)
(*                                                                         *)
(* Abstractions: one counter stands for the bytes read and written, sent   *)
(* and received; a rate is the difference of two readings, the division by *)
(* the time between them is left out; readings that keep no state (CPU,    *)
(* load, memory, disk usage, what else is told of a process) are left out. *)
(* The clock counts ticks, in each of which a counter grows by one at most.*)
(* A device that takes the name of another one, and a process that takes   *)
(* its pid, starts from zero.                                              *)
(***************************************************************************)
EXTENDS Integers, FiniteSets

CONSTANTS
    Names,        \* devices, interfaces or pids
    Modulus,      \* 2^64, or 2^32 where the kernel counts so: counters wrap
    MaxClock,     \* bound: the time on the wall clock
    MaxSince,     \* bound: what a counter counts between two readings
    MaxProcesses  \* cfg.Processes.MaxProcesses

ASSUME BoundsAssumption ==
    /\ Modulus \in Nat \ {0}
    /\ MaxClock \in Nat /\ MaxSince \in Nat
    /\ MaxProcesses \in Nat \ {0}

VARIABLES
    table,    \* which of the three tables this is
    enabled,  \* cfg.Collection.IncludeDiskIO, or cfg.Processes.Enabled
    clock,    \* the wall clock
    counter,  \* the kernel's counters: name -> reading, of those that exist
    prev,     \* prevDiskIO, prevNet or prevCPU: name -> reading
    prevAt,   \* the time of these readings: counterSnapshot.at, or lastAt
    pc,       \* Collect: idle or reading
    now,      \* the time Collect took when it began
    listed,   \* processes listed by this collection
    todo,     \* those not looked at yet
    rates,    \* the rates of this collection, or the last one
    since,    \* name -> really counted since the reading kept in prev
    whole,    \* names whose counter ran on since then: no reset, no wrap
    jumped    \* the clock was set "before" this collection, "during" it, or "no"

collection == <<pc, now, listed, todo>>
previous   == <<prev, prevAt>>
history    == <<since, whole, jumped>>
vars       == <<table, enabled, clock, counter, previous, collection, rates, history>>

NeverAt == -1

Tables == {"disk", "network", "process"}

\* Mutant: a counter that went back is not noticed.
DifferenceWraps(n, elapsed) ==
    IF n \notin DOMAIN prev \/ prevAt = NeverAt \/ elapsed <= 0 THEN 0
    ELSE (counter[n] - prev[n]) % Modulus

\* Mutant: a counter that went back gives a negative rate.
DifferenceSigned(n, elapsed) ==
    IF n \notin DOMAIN prev \/ prevAt = NeverAt \/ elapsed <= 0 THEN 0
    ELSE counter[n] - prev[n]

\* ratePerSecond, and the same for processes: nothing for a name seen for the
\* first time, a counter that went back, or a clock that did not advance.
Difference(n, elapsed) ==
    IF n \notin DOMAIN prev \/ prevAt = NeverAt \/ elapsed <= 0 THEN 0
    ELSE IF counter[n] < prev[n] THEN 0
    ELSE counter[n] - prev[n]

Elapsed == now - prevAt

With(f, n, value) == [x \in DOMAIN f \cup {n} |-> IF x = n THEN value ELSE f[x]]

-----------------------------------------------------------------------------
Init ==
    /\ table \in Tables
    /\ enabled = TRUE
    /\ clock = 0
    /\ counter \in UNION {[S -> {0, 1}] : S \in SUBSET Names}
    /\ prev = <<>> /\ prevAt = NeverAt
    /\ pc = "idle" /\ now = 0 /\ listed = {} /\ todo = {}
    /\ rates = <<>>
    /\ since = [n \in Names |-> 0] /\ whole = {} /\ jumped = "no"

-----------------------------------------------------------------------------
(* The kernel, the clock and the configuration. *)

\* Time passes, and some counters grow; one that reaches its width wraps.
Tick ==
    /\ clock < MaxClock
    /\ clock' = clock + 1
    /\ \E busy \in SUBSET {n \in DOMAIN counter : since[n] < MaxSince} :
         LET wrapping == {n \in busy : counter[n] + 1 = Modulus} IN
           /\ counter' = [n \in DOMAIN counter |->
                            IF n \in wrapping THEN 0
                            ELSE IF n \in busy THEN counter[n] + 1
                            ELSE counter[n]]
           /\ since' = [n \in Names |-> IF n \in busy THEN since[n] + 1 ELSE since[n]]
           /\ whole' = whole \ wrapping
    /\ UNCHANGED <<table, enabled, previous, collection, rates, jumped>>

\* Somebody sets the clock.  UTC() strips the monotonic reading of Now(), so
\* the time between two collections is that of the wall clock.
SetClock ==
    /\ clock' \in 0..MaxClock \ {clock}
    /\ jumped' = IF pc = "idle" THEN "before" ELSE "during"
    /\ UNCHANGED <<table, enabled, counter, previous, collection, rates, since, whole>>

\* A device is unplugged, or a process ends.
Vanish(n) ==
    /\ n \in DOMAIN counter
    /\ counter' = [x \in DOMAIN counter \ {n} |-> counter[x]]
    /\ whole' = whole \ {n}
    /\ UNCHANGED <<table, enabled, clock, previous, collection, rates, since, jumped>>

\* One appears, perhaps with the name, or the pid, of one that was there.
Appear(n) ==
    /\ n \in Names \ DOMAIN counter
    /\ counter' = With(counter, n, 0)
    /\ UNCHANGED <<table, enabled, clock, previous, collection, rates, history>>

\* reloadConfig; the network counters are always collected.
Reload ==
    /\ table # "network"
    /\ enabled' = ~enabled
    /\ UNCHANGED <<table, clock, counter, previous, collection, rates, history>>

-----------------------------------------------------------------------------
(* Collect. *)

\* The collection takes the time, and ProcessCollector its list of processes.
Collect ==
    /\ pc = "idle"
    /\ enabled
    /\ pc' = "reading"
    /\ now' = clock
    /\ IF table = "process"
       THEN listed' = DOMAIN counter /\ todo' = DOMAIN counter
       ELSE UNCHANGED <<listed, todo>>
    /\ rates' = <<>>
    /\ UNCHANGED <<table, enabled, clock, counter, previous, history>>

\* What is disabled is not collected, nor are processes that cannot be listed.
NoResults ==
    /\ pc = "idle"
    /\ ~enabled \/ table = "process"
    /\ rates' = <<>>
    /\ UNCHANGED <<table, enabled, clock, counter, previous, collection, history>>

\* The clock set during this collection dates its readings wrongly.
JumpedBefore(read) ==
    CASE jumped = "during"      -> "before"
      [] jumped = "before"      -> IF read THEN "no" ELSE "before"
      [] OTHER                  -> "no"

\* collectDiskIO and collectNetwork read all counters, compute the rates and
\* replace the table.
ReadCounters ==
    /\ pc = "reading"
    /\ table # "process"
    /\ rates' = [n \in DOMAIN counter |-> Difference(n, Elapsed)]
    /\ prev' = counter
    /\ prevAt' = now
    /\ since' = [n \in Names |-> 0]
    /\ whole' = DOMAIN counter
    /\ jumped' = JumpedBefore(TRUE)
    /\ pc' = "idle"
    /\ UNCHANGED <<table, enabled, clock, counter, now, listed, todo>>

\* Mutants: a failed read forgets the table, or dates it anew.
ForgetTable == prev' = <<>> /\ prevAt' = prevAt
RedateTable == prev' = prev /\ prevAt' = now

\* The table outlives a read that fails.
KeepTable == UNCHANGED previous

ReadFails ==
    /\ pc = "reading"
    /\ table # "process"
    /\ KeepTable
    /\ jumped' = JumpedBefore(FALSE)
    /\ pc' = "idle"
    /\ UNCHANGED <<table, enabled, clock, counter, now, listed, todo, rates, since, whole>>

\* collectProcess: the process is sampled, or its CPU times cannot be read, or
\* it is skipped: it is gone, restricted, or not what the filters ask for.
CollectProcess(n) ==
    /\ pc = "reading"
    /\ n \in todo
    /\ todo' = todo \ {n}
    /\ \/ n \in DOMAIN counter /\ rates' = With(rates, n, Difference(n, Elapsed))
       \/ n \in DOMAIN counter /\ rates' = With(rates, n, 0)
       \/ UNCHANGED rates
    /\ UNCHANGED <<table, enabled, clock, counter, previous, pc, now, listed, history>>

\* The results are those with the highest rates.
Busiest(S) ==
    /\ S \subseteq DOMAIN rates
    /\ Cardinality(S) <= MaxProcesses
    /\ Cardinality(S) < MaxProcesses => S = DOMAIN rates
    /\ \A n \in S, other \in DOMAIN rates \ S : rates[n] >= rates[other]

\* rebuildProcessCPUMap reads the CPU times of the listed processes again, for
\* the next collection; then the results are cut.
RebuildProcessCPUMap ==
    /\ pc = "reading"
    /\ table = "process"
    /\ todo = {}
    /\ \E read \in SUBSET (listed \cap DOMAIN counter) :
         /\ prev' = [n \in read |-> counter[n]]
         /\ whole' = read
    /\ prevAt' = now
    /\ since' = [n \in Names |-> 0]
    /\ jumped' = JumpedBefore(TRUE)
    /\ \E S \in SUBSET DOMAIN rates :
         Busiest(S) /\ rates' = [n \in S |-> rates[n]]
    /\ listed' = {}
    /\ pc' = "idle"
    /\ UNCHANGED <<table, enabled, clock, counter, now, todo>>

Environment ==
    \/ Tick \/ SetClock \/ Reload
    \/ \E n \in Names : Vanish(n) \/ Appear(n)

Collector ==
    \/ Collect \/ NoResults
    \/ ReadCounters \/ ReadFails
    \/ \E n \in todo : CollectProcess(n)
    \/ RebuildProcessCPUMap

Next == Environment \/ Collector

Spec == Init /\ [][Next]_vars

-----------------------------------------------------------------------------
(* Properties. *)

\* The state has its type; the collection's own variables fit its phase.
TypeOK ==
    /\ table \in Tables
    /\ enabled \in BOOLEAN
    /\ clock \in Nat
    /\ DOMAIN counter \subseteq Names /\ counter \in [DOMAIN counter -> Nat]
    /\ DOMAIN prev \subseteq Names /\ prev \in [DOMAIN prev -> Nat]
    /\ prevAt \in Nat \cup {NeverAt}
    /\ pc \in {"idle", "reading"}
    /\ now \in Nat
    /\ todo \subseteq listed /\ listed \subseteq Names
    /\ DOMAIN rates \subseteq Names /\ rates \in [DOMAIN rates -> Nat]
    /\ since \in [Names -> Nat]
    /\ whole \subseteq Names
    /\ jumped \in {"no", "before", "during"}

\* What a collection reports is never more than what was really counted since
\* the readings it compares with, whatever resets, wraps, comes and goes, and
\* whichever reads fail in between (system.go:164-199, 277-286,
\* process.go:119-128, 160-172).
NeverOverstated ==
    [][rates' # rates => \A n \in DOMAIN rates' : rates'[n] <= since[n]]_vars

\* And nothing a device counts goes unreported while it stays, its counter
\* runs on and the clock advances: a read that fails, or a time in which disk
\* counters are not collected, only makes the next interval longer
\* (system.go:164-169, 193-197).
NothingUncounted ==
    [][table # "process" /\ rates' # rates /\ now > prevAt =>
          \A n \in whole \cap DOMAIN rates' : rates'[n] = since[n]]_vars

\* A rate exceeds what the counter can really do only by what it did between
\* the time Collect took and the read, in which the CPU is sampled; unless the
\* clock was set since the last collection (system.go:44, 67, 112-115,
\* process.go:46-50, 66).
SpeedBounded ==
    [][jumped = "no" /\ rates' # rates =>
          \A n \in DOMAIN rates' : rates'[n] <= Elapsed + (clock - now)]_vars

=============================================================================
