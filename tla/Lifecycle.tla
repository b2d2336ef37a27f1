----------------------------- MODULE Lifecycle ------------------------------
(***************************************************************************)
(* The agent on its host: the process that loads and polls the             *)
(* configuration file (ConfigReload), the commands that replace its        *)
(* executable meanwhile (SelfUpdate), and the service manager that starts  *)
(* the process again whenever it ends (Restart=always, script.sh:139),     *)
(* which it can only while the executable can be started.                  *)
(***************************************************************************)
EXTENDS ConfigReload, SelfUpdate

host == <<vars, updateVars>>

LifeInit == Init /\ UpdateInit

\* The reload loop, and what the service manager does.
Restart     == Start /\ Startable
LoaderSteps == (Loader \/ Restart) /\ UNCHANGED updateVars

LifeNext ==
    \/ LoaderSteps
    \/ (Writers \/ Crash) /\ UNCHANGED updateVars
    \/ UpdateNext /\ UNCHANGED vars

LifeSpec == LifeInit /\ [][LifeNext]_host

\* The reload timer fires, the reload loop is scheduled, and the service
\* manager starts what can be started.
FairLife == LifeSpec /\ WF_host(LoaderSteps)

-----------------------------------------------------------------------------
(* Properties. *)

\* The state of both parts has its type.
HostTypeOK == TypeOK /\ UpdateTypeOK

\* A last write outside the window between read and Stat is loaded in the
\* end, unless the file it leaves is corrupt or gone, although the process
\* ends and is started again and updates replace its executable, as long as
\* these do not overlap (agent.go:277-289, 396-420, 439-468; update.go:38-60).
QuietWriteIsLoaded ==
    \A rev \in 1..MaxRevisions :
        /\ <>[](file = [rev |-> rev, kind |-> "valid"] /\ ~raced)
        /\ <>[][~Crash]_host
        /\ [](~overlapped)
        => <>[](config = rev)

=============================================================================
