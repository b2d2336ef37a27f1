----------------------------- MODULE SelfUpdate -----------------------------
(***************************************************************************)
(* The self-update command (internal/app/update.go), as several processes  *)
(* may run it at once: each downloads a release into the one temporary     *)
(* file beside the executable, runs what it finds there, and renames it    *)
(* over the executable.                                                    *)
(*                                                                         *)
(* Abstractions: a file has Chunks chunks, each of a release or missing; a *)
(* handle follows its file when that is renamed.  A release is served      *)
(* whole or the download breaks off.  The system refuses to run a file     *)
(* that is open for writing and to open one for writing that runs          *)
(* (ETXTBSY).  An error that leaves everything as it was is no step.       *)
(***************************************************************************)
EXTENDS Naturals

CONSTANTS
    Updaters,   \* processes that run self-update
    Releases,   \* what the server may serve
    Chunks      \* writes io.Copy makes of a download

Missing == "missing"

ASSUME ChunksAssumption == Chunks \in Nat \ {0}
ASSUME ReleasesAssumption == Releases # {} /\ Missing \notin Releases

VARIABLES
    exe,        \* the file at executablePath
    temp,       \* the file at tempPath, or NoFile
    updaters,   \* where each command is, and the file it has open
    overlapped  \* a command opened tempPath while another was under way

updateVars == <<exe, temp, updaters, overlapped>>

Content == [1..Chunks -> Releases \cup {Missing}]
Empty   == [c \in 1..Chunks |-> Missing]
NoFile  == <<>>

\* A program that is sure to run: one release from end to end.
Whole(file) == \E release \in Releases : file = [c \in 1..Chunks |-> release]

\* The files that are open for writing, and those that run as `version`, by
\* the path that leads to them; "gone" when none does.
Written == {updaters[u].file : u \in {v \in Updaters : updaters[v].at = "copying"}}
Running == {updaters[u].file : u \in {v \in Updaters : updaters[v].at = "running"}}

Idle == [at |-> "idle", file |-> "gone", release |-> Missing, chunk |-> 1, passes |-> FALSE]

\* Where the files that processes have open are, once paths have changed.
Paths   == {"temp", "exe", "gone"}
Same    == [file \in Paths |-> file]
Removed == [file \in Paths |-> IF file = "temp" THEN "gone" ELSE file]
Renamed == [file \in Paths |-> IF file = "temp" THEN "exe" ELSE "gone"]

\* u is at another place, and the files that the others have open have moved.
Updated(u, new, moved) ==
    updaters' = [v \in Updaters |->
                   IF v = u THEN new ELSE [updaters[v] EXCEPT !.file = moved[@]]]

\* The executable can be started.
Startable == Whole(exe) /\ "exe" \notin Written

-----------------------------------------------------------------------------
UpdateInit ==
    /\ \E release \in Releases : exe = [c \in 1..Chunks |-> release]
    /\ temp = NoFile
    /\ updaters = [u \in Updaters |-> Idle]
    /\ overlapped = FALSE

\* OpenFile with O_TRUNC: a temporary file that is there is emptied and shared.
Open(u) ==
    /\ updaters[u].at = "idle"
    /\ "temp" \notin Running
    /\ temp' = Empty
    /\ \E r \in Releases :
         Updated(u, [Idle EXCEPT !.at = "copying", !.file = "temp", !.release = r], Same)
    /\ overlapped' = (overlapped \/ \E v \in Updaters : updaters[v].at # "idle")
    /\ UNCHANGED exe

\* io.Copy writes the next chunk, at the offset of its own handle.
Copy(u) ==
    LET me == updaters[u]
        Put(file) == [file EXCEPT ![me.chunk] = me.release] IN
      /\ me.at = "copying"
      /\ me.chunk <= Chunks
      /\ temp' = IF me.file = "temp" THEN Put(temp) ELSE temp
      /\ exe' = IF me.file = "exe" THEN Put(exe) ELSE exe
      /\ Updated(u, [me EXCEPT !.chunk = @ + 1], Same)
      /\ UNCHANGED overlapped

Close(u) ==
    /\ updaters[u].at = "copying"
    /\ updaters[u].chunk > Chunks
    /\ Updated(u, [Idle EXCEPT !.at = "copied"], Same)
    /\ UNCHANGED <<exe, temp, overlapped>>

\* The command ends, and its deferred Remove takes whatever tempPath is now.
Abandon(u) ==
    /\ temp' = NoFile
    /\ Updated(u, Idle, Removed)
    /\ UNCHANGED <<exe, overlapped>>

\* Mutant: what came before the connection broke is taken for the download.
CopyFailsUnnoticed(u) ==
    /\ updaters[u].at = "copying"
    /\ Updated(u, [Idle EXCEPT !.at = "copied"], Same)
    /\ UNCHANGED <<exe, temp, overlapped>>

\* The download breaks off or the disk is full.
CopyFails(u) ==
    /\ updaters[u].at = "copying"
    /\ Abandon(u)

\* exec of what tempPath is now.  `version` passes for a whole program, and
\* may pass for a damaged one.
Run(u) ==
    /\ updaters[u].at = "copied"
    /\ temp # NoFile /\ "temp" \notin Written
    /\ \E passes \in BOOLEAN :
         /\ Whole(temp) => passes
         /\ passes => temp # Empty
         /\ Updated(u, [Idle EXCEPT !.at = "running", !.file = "temp", !.passes = passes], Same)
    /\ UNCHANGED <<exe, temp, overlapped>>

\* exec finds no file, or one that somebody writes.
RunRefused(u) ==
    /\ updaters[u].at = "copied"
    /\ temp = NoFile \/ "temp" \in Written
    /\ Abandon(u)

RunEnds(u) ==
    /\ updaters[u].at = "running"
    /\ IF updaters[u].passes
       THEN /\ Updated(u, [Idle EXCEPT !.at = "verified"], Same)
            /\ UNCHANGED <<exe, temp, overlapped>>
       ELSE Abandon(u)

\* Mutant: the old executable is removed first, even for a missing new one.
RemoveAndRename(u) ==
    /\ updaters[u].at = "verified"
    /\ exe' = temp
    /\ temp' = NoFile
    /\ Updated(u, Idle, Renamed)
    /\ UNCHANGED overlapped

\* Rename, which fails when tempPath is gone; the deferred Remove finds nothing.
Rename(u) ==
    /\ updaters[u].at = "verified"
    /\ IF temp = NoFile
       THEN /\ Updated(u, Idle, Same)
            /\ UNCHANGED <<exe, temp>>
       ELSE /\ exe' = temp
            /\ temp' = NoFile
            /\ Updated(u, Idle, Renamed)
    /\ UNCHANGED overlapped

\* The command is killed: nothing is cleaned up.
Kill(u) ==
    /\ updaters[u].at # "idle"
    /\ Updated(u, Idle, Same)
    /\ UNCHANGED <<exe, temp, overlapped>>

Update(u) ==
    \/ Open(u) \/ Copy(u) \/ Close(u) \/ CopyFails(u)
    \/ Run(u) \/ RunRefused(u) \/ RunEnds(u)
    \/ Rename(u)
    \/ Kill(u)

UpdateNext == \E u \in Updaters : Update(u)

UpdateSpec == UpdateInit /\ [][UpdateNext]_updateVars

-----------------------------------------------------------------------------
(* Properties. *)

\* The state has its type.
UpdateTypeOK ==
    /\ exe \in Content
    /\ temp \in Content \cup {NoFile}
    /\ updaters \in [Updaters ->
         [at : {"idle", "copying", "copied", "running", "verified"},
          file : Paths, release : Releases \cup {Missing},
          chunk : 1..(Chunks + 1), passes : BOOLEAN]]
    /\ overlapped \in BOOLEAN

\* Whatever downloads break off and whenever a command is killed, the
\* executable is one whole release, unless a second self-update opened the
\* temporary file while one was under way: the name is shared, and the run
\* that verifies the download says nothing of what is renamed after it
\* (update.go:38-60).
BrokenOnlyAfterOverlap == ~overlapped => Whole(exe)

=============================================================================
