---------------------------- MODULE ServiceNames ----------------------------
(***************************************************************************)
(* How sanitizeServices (internal/config/config.go) names the services of  *)
(* a configuration file: one step for each entry, in their order.  The     *)
(* names matter because the collector of the service checks keeps its      *)
(* schedule, its streaks and its results by name.                          *)
(*                                                                         *)
(* Abstractions: a name is a sequence, <<"db">>, or <<"db", 2>> for the    *)
(* name "db-2", whether a file gives it or a renaming makes it; a name     *)
(* that deriveServiceName finds for an entry without one is like any       *)
(* other; an entry is usable when its type and target are.                 *)
(***************************************************************************)
EXTENDS Naturals, FiniteSets, Sequences, SequencesExt

CONSTANTS
    InputNames,  \* names entries have in the file
    MaxServices  \* bound: entries in the file

Entry == [name : InputNames, usable : BOOLEAN]

VARIABLES
    services,  \* the entries of the file
    idx,       \* the entry the loop is at
    seenNames, \* how often a name was given: name -> count
    names      \* the names of the services so far

vars == <<services, idx, seenNames, names>>

\* fmt.Sprintf("%s-%d", name, count+1)
Renamed(name, count) == Append(name, count + 1)

Count(name) == IF name \in DOMAIN seenNames THEN seenNames[name] ELSE 0

\* The name an entry gets: its own, unless that was given before.
NameFor(name) == IF Count(name) > 0 THEN Renamed(name, Count(name)) ELSE name

-----------------------------------------------------------------------------
Init ==
    /\ services \in SeqOf(Entry, MaxServices)
    /\ idx = 1
    /\ seenNames = <<>>
    /\ names = <<>>

\* The entry is disabled, or has an unsupported type or no valid target.
Skip ==
    /\ idx <= Len(services)
    /\ ~services[idx].usable
    /\ idx' = idx + 1
    /\ UNCHANGED <<services, seenNames, names>>

Accept ==
    /\ idx <= Len(services)
    /\ services[idx].usable
    /\ LET name == NameFor(services[idx].name) IN
         /\ names' = Append(names, name)
         /\ seenNames' = [n \in DOMAIN seenNames \cup {name} |->
                            IF n = name THEN Count(n) + 1 ELSE seenNames[n]]
    /\ idx' = idx + 1
    /\ UNCHANGED services

Next == Skip \/ Accept

Spec == Init /\ [][Next]_vars

-----------------------------------------------------------------------------
\* "expected duplicate names to be normalized" (config_test.go:73): no two of
\* the services that CollectDue, its maps and the reports tell apart by their
\* names have the same name (config.go:497-506).
NamesUnique == IsInjective(names)

=============================================================================
