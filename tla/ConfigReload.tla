---------------------------- MODULE ConfigReload ----------------------------
(***************************************************************************)
(* The life of the configuration file: the agent loads it when it starts   *)
(* and polls it afterwards (loadRuntimeConfigWithFallback, reloadConfig),  *)
(* while init-config, update-config and editors replace it (InitConfig,    *)
(* UpdateConfig and WriteFileAtomically).  The process may end at any      *)
(* moment and is started again (Restart=always).                           *)
(*                                                                         *)
(* Abstractions: each write gives the file a new revision, which stands    *)
(* for its content and for its stamp (modification time and size).  A file *)
(* is valid or corrupt; what an editor leaves half written is corrupt,     *)
(* but an empty file is valid: Parse makes the defaults of it.             *)
(***************************************************************************)
EXTENDS Naturals

CONSTANT MaxRevisions   \* bound: writes of the file

ASSUME BoundAssumption == MaxRevisions \in Nat \ {0}

VARIABLES
    file,       \* the file: its revision and kind
    newest,     \* revisions written so far
    config,     \* Agent.config: a revision, or Defaults
    configStat, \* Agent.configStat: the stamp of a revision, or NoStamp
    pc,         \* where the goroutine that loads the file is
    loaded,     \* the revision LoadFile has read, or Defaults
    initPc,     \* where a running init-config is
    raced       \* the last write fell between LoadFile's read and the Stat

vars == <<file, newest, config, configStat, pc, loaded, initPc, raced>>

\* DefaultRuntime, the zero fileStamp, and the revision of a missing file.
Defaults == 0
NoStamp  == 0

Absent == [rev |-> 0, kind |-> "absent"]

Init ==
    /\ file \in {Absent, [rev |-> 1, kind |-> "valid"], [rev |-> 1, kind |-> "corrupt"]}
    /\ newest = 1
    /\ config = Defaults
    /\ configStat = NoStamp
    /\ pc = "boot"
    /\ loaded = Defaults
    /\ initPc = "idle"
    /\ raced = FALSE

-----------------------------------------------------------------------------
(* Programs that write the file. *)

\* The file becomes a new revision.
Replace(kind) ==
    /\ newest < MaxRevisions
    /\ newest' = newest + 1
    /\ file' = [rev |-> newest + 1, kind |-> kind]
    /\ raced' = (pc = "stamp")

\* update-config validates the payload and renames a temporary into place; so
\* does init-config --force with the defaults.
UpdateConfig ==
    /\ Replace("valid")
    /\ UNCHANGED <<config, configStat, pc, loaded, initPc>>

\* init-config without --force: refuse an existing file, else write defaults.
InitConfigStat ==
    /\ initPc = "idle"
    /\ initPc' = IF file = Absent THEN "writing" ELSE "idle"
    /\ UNCHANGED <<file, newest, config, configStat, pc, loaded, raced>>

InitConfigWrite ==
    /\ initPc = "writing"
    /\ Replace("valid")
    /\ initPc' = "idle"
    /\ UNCHANGED <<config, configStat, pc, loaded>>

\* Somebody edits the file in place, or breaks it, or removes it.
Edit ==
    /\ \E kind \in {"valid", "corrupt"} : Replace(kind)
    /\ UNCHANGED <<config, configStat, pc, loaded, initPc>>

Remove ==
    /\ file # Absent
    /\ file' = Absent
    /\ raced' = FALSE
    /\ UNCHANGED <<newest, config, configStat, pc, loaded, initPc>>

-----------------------------------------------------------------------------
(* The agent. *)

\* Mutant: only an agent without a configuration reloads.
UnchangedOnceLoaded == file = Absent \/ config # Defaults

\* The file is gone, or has the stamp reloadConfig knows.
Unchanged == file = Absent \/ file.rev = configStat

Poll ==
    /\ pc = "idle"
    /\ pc' = IF Unchanged THEN "idle" ELSE "read"
    /\ UNCHANGED <<file, newest, config, configStat, loaded, initPc, raced>>

\* Mutants: a failed reload installs the defaults; it keeps the new stamp.
FailedInstalls == pc' = "stamp" /\ loaded' = Defaults /\ UNCHANGED configStat
FailedStamps   == pc' = "idle" /\ configStat' = file.rev /\ UNCHANGED loaded

\* A reload that fails keeps what it has, and a start that fails falls back to
\* the defaults with no stamp.
ReadFailed == pc' = "idle" /\ UNCHANGED <<configStat, loaded>>

\* LoadFile reads and parses.
Read ==
    /\ pc \in {"boot", "read"}
    /\ \/ /\ file.kind = "valid"
          /\ loaded' = file.rev
          /\ pc' = "stamp"
          /\ raced' = FALSE
          /\ UNCHANGED configStat
       \/ /\ file.kind # "valid"
          /\ ReadFailed
          /\ UNCHANGED raced
    /\ UNCHANGED <<file, newest, config, initPc>>

\* Stat once more, and install what was read with the stamp found now.
Install ==
    /\ pc = "stamp"
    /\ config' = loaded
    /\ configStat' = IF file = Absent THEN NoStamp ELSE file.rev
    /\ loaded' = Defaults
    /\ pc' = "idle"
    /\ UNCHANGED <<file, newest, initPc, raced>>

\* The process ends: what it knew of the file is gone.
Crash ==
    /\ pc # "down"
    /\ pc' = "down"
    /\ config' = Defaults
    /\ configStat' = NoStamp
    /\ loaded' = Defaults
    /\ raced' = FALSE
    /\ UNCHANGED <<file, newest, initPc>>

Start ==
    /\ pc = "down"
    /\ pc' = "boot"
    /\ UNCHANGED <<file, newest, config, configStat, loaded, initPc, raced>>

Writers == UpdateConfig \/ InitConfigStat \/ InitConfigWrite \/ Edit \/ Remove
Loader  == Poll \/ Read \/ Install

Next == Writers \/ Loader \/ Crash \/ Start

Spec == Init /\ [][Next]_vars

-----------------------------------------------------------------------------
(* Properties. *)

\* The state has its type.
TypeOK ==
    /\ file \in [rev : 0..MaxRevisions, kind : {"absent", "valid", "corrupt"}]
    /\ newest \in Nat
    /\ {config, configStat, loaded} \subseteq 0..newest
    /\ pc \in {"boot", "idle", "read", "stamp", "down"}
    /\ initPc \in {"idle", "writing"}
    /\ raced \in BOOLEAN

\* While it runs, the agent never goes back to an older file, nor from a file
\* to the defaults, however writers and the two looks at the file interleave;
\* only a restart forgets what was loaded (agent.go:396-413, 439-468).
NeverGoesBack == [][config' >= config \/ pc' = "down"]_vars

\* The agent can believe that it runs the file while it does not only when the
\* last write fell between the read of the file and the Stat that stamps what
\* was read (agent.go:403-405, 441-450).
StaleOnlyAfterRace ==
    pc = "idle" /\ file # Absent /\ configStat = file.rev /\ ~raced => config = file.rev

=============================================================================
