------------------------------ MODULE LogTail -------------------------------
(***************************************************************************)
(* Tailing log files (internal/collector/logs.go), the log part of the     *)
(* snapshot cache (setLogs and popSnapshot of internal/app/agent.go) and   *)
(* the programs that write and truncate the files meanwhile.               *)
(*                                                                         *)
(* Abstractions: offsets count lines, and lines are written whole; the     *)
(* lines of a file are numbered for ever, and a truncation moves the start *)
(* of the file past all of them (a rotation between two collections looks  *)
(* the same).  How far the scanner has read ahead of the line it returned  *)
(* last is any point up to the end of the file.                            *)
(***************************************************************************)
EXTENDS Integers, Sequences, SequencesExt

CONSTANTS
    LogFiles,      \* the paths of cfg.Logs, in their order
    FileLimit,     \* 200 entries of a file in one collection
    CollectLimit,  \* 500 entries in one collection
    CacheLimit,    \* 1000 entries in the cache
    MaxLines,      \* bound: lines written to each file
    Faults         \* "truncate", "readError", "crash"

Paths == ToSet(LogFiles)

ASSUME LogFilesAssumption == LogFiles \in Seq(STRING) /\ IsInjective(LogFiles)
ASSUME LimitsAssumption ==
    /\ {FileLimit, CollectLimit, CacheLimit} \subseteq Nat \ {0}
    /\ MaxLines \in [Paths -> Nat \ {0}]

VARIABLES
    base,       \* lines of the file that a truncation has removed
    written,    \* lines ever written to the file
    offsets,    \* LogCollector.offsets, relative to the start of the file
    todo,       \* the paths this collection has still to visit
    from,       \* collectFile between Stat and Seek: lastOffset, or -1
    allEntries, \* entries of this collection
    warned,     \* this collection has a warning to report
    logs,       \* snapshotCache.logs
    dirty,      \* snapshotCache.dirty
    sent,       \* log entries of all snapshots popped so far
    excused,    \* a limit was met, a file truncated, or a read failed
    seen,       \* the paths collectFile has looked at
    start       \* the last line skipped when tailing started from the end

files     == <<base, written>>
collector == <<offsets, todo, from, allEntries, warned>>
cache     == <<logs, dirty>>
history   == <<sent, excused, seen, start>>
vars      == <<files, collector, cache, history>>

Entry == [path : Paths, line : Nat]

Size(f) == written[f] - base[f]

\* Mutant: one element too many.
LastOfOneMore(s, n) == IF Len(s) > n THEN SubSeq(s, Len(s) - n, Len(s)) ELSE s

\* The last n elements of a sequence: s[len(s)-n:].
LastOf(s, n) == IF Len(s) > n THEN SubSeq(s, Len(s) - n + 1, Len(s)) ELSE s

\* The entries of n lines of file f after the first pos lines.
Lines(f, pos, n) == [i \in 1..n |-> [path |-> f, line |-> base[f] + pos + i]]

\* Mutant: a file that has not grown is taken for a truncated one.
ResumeUnlessGrown(f) == IF Size(f) <= offsets[f] THEN 0 ELSE offsets[f]

\* Where reading resumes: at the start when the file has been truncated.
ResumeAt(f) == IF Size(f) < offsets[f] THEN 0 ELSE offsets[f]

\* Mutant: a collection replaces what is cached.
CachedLast == LastOf(allEntries, CollectLimit)

\* What the cache holds after this collection.
Cached == LastOf(logs \o LastOf(allEntries, CollectLimit), CacheLimit)

-----------------------------------------------------------------------------
Init ==
    /\ base = [f \in Paths |-> 0]
    /\ written \in [Paths -> {0, 1}]
    /\ offsets = [f \in Paths |-> 0]
    /\ todo = <<>>
    /\ from = -1
    /\ allEntries = <<>> /\ warned = FALSE
    /\ logs = <<>> /\ dirty = FALSE
    /\ sent = <<>> /\ excused = FALSE
    /\ seen = {}
    /\ start = [f \in Paths |-> 0]

\* A program appends a line.
Write(f) ==
    /\ written[f] < MaxLines[f]
    /\ written' = [written EXCEPT ![f] = @ + 1]
    /\ UNCHANGED <<base, collector, cache, history>>

\* A program, or a log rotation, empties the file.
Truncate(f) ==
    /\ "truncate" \in Faults
    /\ Size(f) > 0
    /\ base' = [base EXCEPT ![f] = written[f]]
    /\ excused' = TRUE
    /\ UNCHANGED <<written, collector, cache, sent, seen, start>>

\* logsLoop starts a collection.
Collect ==
    /\ todo = <<>> /\ allEntries = <<>> /\ ~warned
    /\ todo' = LogFiles
    /\ UNCHANGED <<files, offsets, from, allEntries, warned, cache, history>>

\* collectFile up to its decision: skip to the end, start over, or go on.
Stat ==
    /\ todo # <<>> /\ from = -1
    /\ LET f == Head(todo) IN
         /\ seen' = seen \cup {f}
         /\ \/ /\ offsets[f] = 0
               /\ offsets' = [offsets EXCEPT ![f] = Size(f)]
               /\ start' = [start EXCEPT ![f] = written[f]]
               /\ todo' = Tail(todo)
               /\ UNCHANGED from
            \/ /\ offsets[f] # 0
               /\ from' = ResumeAt(f)
               /\ UNCHANGED <<offsets, start, todo>>
    /\ UNCHANGED <<files, allEntries, warned, cache, sent, excused>>

\* Open, Stat or Seek fails: the file is left for the next collection.
OpenFails ==
    /\ "readError" \in Faults
    /\ todo # <<>>
    /\ todo' = Tail(todo)
    /\ from' = -1
    /\ warned' = TRUE
    /\ excused' = TRUE
    /\ UNCHANGED <<files, offsets, allEntries, cache, sent, seen, start>>

\* Seek, scan up to the limit, and remember how far the file was read.  When
\* the scanner fails, the entries are discarded but the offset is kept.
Scan ==
    /\ from >= 0
    /\ LET f     == Head(todo)
           avail == IF Size(f) > from THEN Size(f) - from ELSE 0
           n     == IF avail > FileLimit THEN FileLimit ELSE avail IN
         /\ \E ahead \in 0..(avail - n) :
               offsets' = [offsets EXCEPT ![f] = from + n + ahead]
         /\ \/ /\ allEntries' = allEntries \o Lines(f, from, n)
               /\ excused' = (excused \/ avail > FileLimit)
               /\ UNCHANGED warned
            \/ /\ "readError" \in Faults
               /\ warned' = TRUE
               /\ excused' = TRUE
               /\ UNCHANGED allEntries
    /\ todo' = Tail(todo)
    /\ from' = -1
    /\ UNCHANGED <<files, cache, sent, seen, start>>

\* Collect returns the newest entries, and logsLoop caches them.
SetLogs ==
    /\ todo = <<>>
    /\ allEntries # <<>> \/ warned
    /\ logs' = Cached
    /\ dirty' = TRUE
    /\ excused' = \/ excused
                  \/ Len(allEntries) > CollectLimit
                  \/ Len(logs) + Len(allEntries) > CacheLimit
    /\ allEntries' = <<>> /\ warned' = FALSE
    /\ UNCHANGED <<files, offsets, todo, from, sent, seen, start>>

\* popSnapshot
PopSnapshot ==
    /\ dirty
    /\ sent' = sent \o logs
    /\ logs' = <<>>
    /\ dirty' = FALSE
    /\ UNCHANGED <<files, collector, excused, seen, start>>

\* The process ends, at any point, and is started again: what it had read and
\* not handed to the queue is lost, and so is where it was.
Restart ==
    /\ "crash" \in Faults
    /\ offsets' = [f \in Paths |-> 0]
    /\ todo' = <<>> /\ from' = -1
    /\ allEntries' = <<>> /\ warned' = FALSE
    /\ logs' = <<>> /\ dirty' = FALSE
    /\ seen' = {}
    /\ excused' = TRUE
    /\ UNCHANGED <<files, sent, start>>

Next ==
    \/ \E f \in Paths : Write(f) \/ Truncate(f)
    \/ Collect \/ Stat \/ OpenFails \/ Scan \/ SetLogs
    \/ PopSnapshot
    \/ Restart

Spec == Init /\ [][Next]_vars

\* The timers of the logs loop and of the flush loop fire.
FairSpec == Spec /\ WF_vars(Collect \/ Stat \/ Scan \/ SetLogs) /\ WF_vars(PopSnapshot)

-----------------------------------------------------------------------------
(* Properties. *)

Stream == sent \o logs \o allEntries

\* The state has its type, and the cache is within its limit.
TypeOK ==
    /\ base \in [Paths -> Nat] /\ written \in [Paths -> Nat]
    /\ \A f \in Paths : base[f] <= written[f]
    /\ offsets \in [Paths -> Nat]
    /\ IsSuffix(todo, LogFiles)
    /\ from \in Nat \cup {-1}
    /\ Stream \in Seq(Entry)
    /\ Len(logs) <= CacheLimit
    /\ dirty \in BOOLEAN /\ warned \in BOOLEAN
    /\ excused \in BOOLEAN
    /\ seen \subseteq Paths
    /\ start \in [Paths -> Nat]

\* No line is forwarded twice, and the lines of a file are forwarded in the
\* order they were written, even when the file is truncated between Stat and
\* Seek or while lines wait in the cache (logs.go:70-108, agent.go:596-606).
ForwardedOnceInOrder ==
    \A i, j \in 1..Len(Stream) :
        i < j /\ Stream[i].path = Stream[j].path => Stream[i].line < Stream[j].line

\* As long as no limit is met, no file truncated and nothing fails to be read,
\* the offset of a file tells the truth: each line between the one tailing
\* started from and the offset is in this collection, in the cache or forwarded
\* (logs.go:82-108, agent.go:596-606).
NoLineSkipped ==
    ~excused =>
        \A f \in Paths : \A n \in (start[f] + 1)..(base[f] + offsets[f]) :
            [path |-> f, line |-> n] \in ToSet(Stream)

\* And then a line written after tailing has started is forwarded in the end,
\* however writers, collections and flushes interleave (logs.go:26-108,
\* agent.go:241-255, 608-632).
TailKeepsUp ==
    \A f \in Paths : \A n \in 1..MaxLines[f] :
        (offsets[f] > 0 /\ start[f] < n /\ n <= written[f])
            ~> (excused \/ [path |-> f, line |-> n] \in ToSet(sent))

\* "First time seeing this file, start from the end" (logs.go:72): only a
\* file that was never looked at before has its lines skipped.
SkipsOnlyOnFirstSight ==
    [][\A f \in Paths : start'[f] # start[f] => f \notin seen]_vars

=============================================================================
