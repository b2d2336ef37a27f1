----------------------------- MODULE Sanitiser ------------------------------
(***************************************************************************)
(* What the agent makes of a configuration file it can parse               *)
(* (runtimeFromFile and its helpers, internal/config/config.go): settings  *)
(* that are left out or make no sense get their defaults, unusable         *)
(* services and logs are left out, and a relative buffer directory is      *)
(* taken from the directory of the file.                                   *)
(*                                                                         *)
(* Abstractions: a duration is a number, and 0 when its text is empty or   *)
(* no duration; a switch that is left out is "unset"; a path is the        *)
(* sequence of its parts, absolute when the first is "/"; a target is      *)
(* valid or not.  Warnings, the identity of the host, labels, process      *)
(* filters, logging and what is sent of a request are left out; the names  *)
(* of services, and with them their order, are in ServiceNames.            *)
(***************************************************************************)
EXTENDS Integers, Sequences, SequencesExt

CONSTANTS
    Defaults,       \* DefaultFile, as runtimeFromFile reads it
    DefaultTimeout  \* 3s, of a service check

Positive == Nat \ {0}
Switch   == {"unset", "true", "false"}
Path     == Seq(STRING)

Intervals == {"metrics", "process", "service", "flush", "drain", "reload", "cpuSample"}

\* config.File, of which any field may be missing.
BufferFile ==
    [enabled : Switch, directory : Path, maxBatches : Int, maxBatchBytes : Int,
     maxBatchAge : Int]
TransportFile ==
    [batchSize : Int, requestTimeout : Int, maxRetries : Int, initialBackoff : Int,
     maxBackoff : Int, compression : Switch]
ServiceFile ==
    [name : STRING, enabled : Switch, type : STRING, validTarget : BOOLEAN,
     interval : Int, timeout : Int, statuses : SUBSET Int]
LogFile == [path : Path, enabled : Switch]
File ==
    [token : BOOLEAN, collection : [Intervals -> Int], buffer : BufferFile,
     transport : TransportFile, services : Seq(ServiceFile), logs : Seq(LogFile)]

\* config.Runtime, as the rest of the agent relies on it.
CollectionRuntime == [Intervals -> Positive]
BufferRuntime ==
    [enabled : BOOLEAN, directory : Path, maxBatches : Positive, maxBatchBytes : Positive,
     maxBatchAge : Positive]
TransportRuntime ==
    [batchSize : Positive, requestTimeout : Positive, maxRetries : Positive,
     initialBackoff : Positive, maxBackoff : Positive, compression : BOOLEAN]
ServiceRuntime ==
    [name : STRING, interval : Positive, timeout : Positive, statuses : SUBSET (100..599)]
Runtime ==
    [token : BOOLEAN, collection : CollectionRuntime, buffer : BufferRuntime,
     transport : TransportRuntime, services : Seq(ServiceRuntime), logs : Seq(Path)]

ASSUME DefaultsAssumption ==
    /\ Defaults \in [collection : CollectionRuntime, buffer : BufferRuntime,
                     transport : TransportRuntime]
    /\ DefaultTimeout \in Positive

-----------------------------------------------------------------------------
\* normalizeInt, normalizeInt64 and parseDurationWithFallback: zero is no
\* setting, so nothing can be switched off by it.
PositiveOr(value, fallback) == IF value > 0 THEN value ELSE fallback

\* valueOrDefault
SwitchOr(switch, fallback) == IF switch = "unset" THEN fallback ELSE switch = "true"

IsAbs(path) == path # <<>> /\ path[1] = "/"

\* resolvePath: source is the path of the file, or <<>> when there is none.
ResolvePath(source, path) ==
    IF IsAbs(path) \/ path = <<>> \/ source = <<>> THEN path ELSE Front(source) \o path

Directory(file, source) ==
    ResolvePath(source, IF file.directory = <<>> THEN Defaults.buffer.directory
                                                 ELSE file.directory)

Collection(file) == [i \in Intervals |-> PositiveOr(file[i], Defaults.collection[i])]

Buffer(file, source) ==
    [enabled       |-> SwitchOr(file.enabled, Defaults.buffer.enabled),
     directory     |-> Directory(file, source),
     maxBatches    |-> PositiveOr(file.maxBatches, Defaults.buffer.maxBatches),
     maxBatchBytes |-> PositiveOr(file.maxBatchBytes, Defaults.buffer.maxBatchBytes),
     maxBatchAge   |-> PositiveOr(file.maxBatchAge, Defaults.buffer.maxBatchAge)]

Transport(file) ==
    [batchSize      |-> PositiveOr(file.batchSize, Defaults.transport.batchSize),
     requestTimeout |-> PositiveOr(file.requestTimeout, Defaults.transport.requestTimeout),
     maxRetries     |-> PositiveOr(file.maxRetries, Defaults.transport.maxRetries),
     initialBackoff |-> PositiveOr(file.initialBackoff, Defaults.transport.initialBackoff),
     maxBackoff     |-> PositiveOr(file.maxBackoff, Defaults.transport.maxBackoff),
     compression    |-> SwitchOr(file.compression, Defaults.transport.compression)]

\* An entry that sanitizeServices keeps.
IsUsable(service) ==
    /\ service.enabled # "false"
    /\ service.type \in {"http", "tcp"}
    /\ service.validTarget

\* sanitizeStatuses; none stands for every 2xx status.
ExpectedStatuses(values) == {status \in values : 100 <= status /\ status <= 599}

\* A check may take no longer than its interval.
Service(service, defaultInterval) ==
    LET interval == PositiveOr(service.interval, defaultInterval)
        timeout  == PositiveOr(service.timeout, DefaultTimeout) IN
      [name     |-> service.name,
       interval |-> interval,
       timeout  |-> IF interval < timeout THEN interval ELSE timeout,
       statuses |-> ExpectedStatuses(service.statuses)]

Services(services, defaultInterval) ==
    LET usable == SelectSeq(services, IsUsable) IN
      [i \in DOMAIN usable |-> Service(usable[i], defaultInterval)]

IsFollowed(log) == log.enabled # "false" /\ log.path # <<>>

Logs(logs) ==
    LET followed == SelectSeq(logs, IsFollowed) IN [i \in DOMAIN followed |-> followed[i].path]

\* runtimeFromFile
RuntimeFromFile(file, source) ==
    [token      |-> file.token,
     collection |-> Collection(file.collection),
     buffer     |-> Buffer(file.buffer, source),
     transport  |-> Transport(file.transport),
     services   |-> Services(file.services, Collection(file.collection)["service"]),
     logs       |-> Logs(file.logs)]

\* DefaultRuntime: what an empty file, and at the start a broken or missing
\* one, stands for.  It has no source, so its buffer directory is relative to
\* the working directory of the process.
DefaultRuntime ==
    [token      |-> FALSE,
     collection |-> Defaults.collection,
     buffer     |-> Defaults.buffer,
     transport  |-> Defaults.transport,
     services   |-> <<>>,
     logs       |-> <<>>]

\* The file {}: nothing is set.
NothingSet ==
    [token      |-> FALSE,
     collection |-> [i \in Intervals |-> 0],
     buffer     |-> [enabled |-> "unset", directory |-> <<>>, maxBatches |-> 0,
                     maxBatchBytes |-> 0, maxBatchAge |-> 0],
     transport  |-> [batchSize |-> 0, requestTimeout |-> 0, maxRetries |-> 0,
                     initialBackoff |-> 0, maxBackoff |-> 0, compression |-> "unset"],
     services   |-> <<>>,
     logs       |-> <<>>]

=============================================================================
