-------------------------- MODULE LifecycleProofs ---------------------------
(***************************************************************************)
(* What a reload may install and when it may miss a write, for any number  *)
(* of writes of the configuration file.  An update that runs alone never   *)
(* leaves anything but a whole release at the path of the executable, for  *)
(* any number of commands, any releases and any size.  And the agent on    *)
(* its host does nothing that the loading of the file and the self-update  *)
(* could not do by themselves, so that what is proved of each is so of     *)
(* both together.                                                          *)
(***************************************************************************)
EXTENDS Lifecycle, TLAPS

-----------------------------------------------------------------------------
(* ConfigReload. *)

\* The two looks at the file: what is there is the newest revision, the agent
\* reads it only when it has not stamped it, and what it has read is what it
\* will stamp unless a write came in between.
LooksAgree ==
    /\ newest \in 1..MaxRevisions
    /\ file # Absent => file.rev = newest
    /\ file.kind = "valid" => file # Absent
    /\ pc # "idle" /\ file # Absent => configStat # file.rev
    /\ pc = "stamp" => loaded >= config
    /\ pc = "stamp" /\ file # Absent /\ ~raced => loaded = file.rev

IInv == TypeOK /\ LooksAgree /\ StaleOnlyAfterRace

LEMMA InitInv == Init => IInv
<1> SUFFICES ASSUME Init PROVE IInv
  OBVIOUS
<1>1. /\ newest = 1 /\ 1 \in 1..MaxRevisions
      /\ config = 0 /\ configStat = 0 /\ loaded = 0
      /\ pc = "boot" /\ initPc = "idle"
  BY BoundAssumption DEF Init, Defaults, NoStamp
<1>0. raced \in BOOLEAN /\ ~raced
  BY Zenon DEF Init
<1>2. /\ file \in [rev : 0..MaxRevisions, kind : {"absent", "valid", "corrupt"}]
      /\ file # Absent => file.rev = 1
      /\ file.kind = "valid" => file # Absent
  BY BoundAssumption DEF Init, Absent
<1>3. TypeOK
  BY <1>1, <1>2, <1>0 DEF TypeOK
<1>4. LooksAgree
  BY <1>1, <1>2, <1>0 DEF LooksAgree, TypeOK
<1>5. StaleOnlyAfterRace
  BY <1>1 DEF StaleOnlyAfterRace
<1> QED BY <1>3, <1>4, <1>5 DEF IInv

\* A write makes the file newer than everything the agent has seen.
LEMMA ReplaceInv ==
    ASSUME IInv, NEW kind \in {"valid", "corrupt"}, Replace(kind),
           UNCHANGED <<config, configStat, pc, loaded>>, initPc' \in {"idle", "writing"}
    PROVE  IInv'
<1>0. raced' \in BOOLEAN /\ (pc = "stamp" => raced')
  BY Zenon DEF Replace
<1>1. /\ newest' = newest + 1 /\ newest' \in 1..MaxRevisions
      /\ file' = [rev |-> newest + 1, kind |-> kind]
  BY BoundAssumption DEF Replace, IInv, LooksAgree
<1>2. file' # Absent /\ file'.rev = newest' /\ file'.rev > configStat
  BY <1>1 DEF IInv, TypeOK, LooksAgree, Absent
<1>3. TypeOK'
  BY <1>0, <1>1 DEF IInv, TypeOK, LooksAgree
<1>4. LooksAgree'
  BY <1>0, <1>1, <1>2 DEF IInv, TypeOK, LooksAgree
<1>5. StaleOnlyAfterRace'
  BY <1>1, <1>2 DEF IInv, TypeOK, StaleOnlyAfterRace
<1> QED BY <1>3, <1>4, <1>5 DEF IInv

LEMMA NextInv == IInv /\ [Next]_vars => IInv'
<1> SUFFICES ASSUME IInv, [Next]_vars PROVE IInv'
  OBVIOUS
<1> USE DEF IInv, TypeOK, LooksAgree, StaleOnlyAfterRace
<1>1. CASE UpdateConfig
  BY <1>1, ReplaceInv DEF UpdateConfig
<1>2. CASE InitConfigWrite
  BY <1>2, ReplaceInv DEF InitConfigWrite
<1>3. CASE Edit
  BY <1>3, ReplaceInv DEF Edit
<1>4. CASE InitConfigStat
  BY <1>4 DEF InitConfigStat
<1>5. CASE Remove
  <2>1. /\ file' = Absent /\ Absent.kind # "valid"
        /\ Absent \in [rev : 0..MaxRevisions, kind : {"absent", "valid", "corrupt"}]
        /\ raced' = FALSE
        /\ UNCHANGED <<newest, config, configStat, pc, loaded, initPc>>
    BY <1>5, BoundAssumption DEF Remove, Absent
  <2> QED BY <2>1
<1>6. CASE Poll
  BY <1>6 DEF Poll, Unchanged
<1>7. CASE Read
  <2>1. /\ pc \in {"boot", "read"}
        /\ UNCHANGED <<file, newest, config, initPc, configStat>>
    BY <1>7 DEF Read, ReadFailed
  <2>2. CASE file.kind = "valid" /\ loaded' = file.rev /\ pc' = "stamp" /\ raced' = FALSE
    <3>1. file # Absent /\ file.rev = newest /\ raced' \in BOOLEAN /\ ~raced'
      BY <2>2
    <3>2. loaded' = newest /\ newest >= config /\ configStat # file.rev
      BY <2>1, <2>2, <3>1
    <3>3. TypeOK'
      BY <2>1, <2>2, <3>1, <3>2
    <3>4. LooksAgree'
      BY <2>1, <2>2, <3>1, <3>2
    <3> QED BY <2>2, <3>3, <3>4
  <2>3. CASE pc' = "idle" /\ UNCHANGED <<loaded, raced>>
    BY <2>1, <2>3
  <2> QED BY <1>7, <2>2, <2>3 DEF Read, ReadFailed
<1>8. CASE Install
  BY <1>8 DEF Install, Defaults, NoStamp
<1>9. CASE UNCHANGED vars
  BY <1>9 DEF vars
<1>10. CASE Crash
  <2>1. raced' \in BOOLEAN
    BY <1>10, Zenon DEF Crash
  <2>2. /\ pc' = "down" /\ config' = 0 /\ configStat' = 0 /\ loaded' = 0
        /\ UNCHANGED <<file, newest, initPc>>
    BY <1>10 DEF Crash, Defaults, NoStamp
  <2>3. TypeOK'
    BY <2>1, <2>2
  <2>4. LooksAgree'
    BY <2>2
  <2>5. StaleOnlyAfterRace'
    BY <2>2
  <2> QED BY <2>3, <2>4, <2>5
<1>11. CASE Start
  BY <1>11 DEF Start
<1> QED
  BY <1>1, <1>2, <1>3, <1>4, <1>5, <1>6, <1>7, <1>8, <1>9, <1>10, <1>11
  DEF Next, Writers, Loader

LEMMA Inductive == Spec => []IInv
BY InitInv, NextInv, PTL DEF Spec

\* ConfigReload keeps its types, for any number of writes (agent.go:396-468).
THEOREM ReloadTypeCorrect == Spec => []TypeOK
BY Inductive, PTL DEF IInv

\* The stamp of the agent is that of the file it runs, unless the last write
\* fell into the window between the read and the second Stat (agent.go:441-450).
THEOREM StampTellsTruth == Spec => []StaleOnlyAfterRace
BY Inductive, PTL DEF IInv

\* While the process runs, no interleaving of writers, polls and reloads
\* installs an older file over a newer one, or the defaults over a file
\* (agent.go:396-413).
THEOREM ReloadsMoveForward == Spec => NeverGoesBack
<1>1. IInv /\ [Next]_vars => [config' >= config \/ pc' = "down"]_vars
  <2> SUFFICES ASSUME IInv, [Next]_vars PROVE config' >= config \/ pc' = "down"
    OBVIOUS
  <2>1. CASE Install
    BY <2>1 DEF Install, IInv, LooksAgree
  <2>2. CASE UNCHANGED config
    BY <2>2 DEF IInv, TypeOK
  <2>3. CASE Crash
    BY <2>3 DEF Crash
  <2> QED
    BY <2>1, <2>2, <2>3 DEF Next, Writers, Loader, UpdateConfig, InitConfigStat,
       InitConfigWrite, Edit, Remove, Poll, Read, Start, vars
<1> QED BY <1>1, Inductive, PTL DEF Spec, NeverGoesBack

-----------------------------------------------------------------------------
(* SelfUpdate. *)

Updater ==
    [at : {"idle", "copying", "copied", "running", "verified"},
     file : Paths, release : Releases \cup {Missing},
     chunk : 1..(Chunks + 1), passes : BOOLEAN]

\* What is known of the only command under way: what it has copied so far is
\* in the temporary file, and what it runs and renames is the whole of it.
Sound(me, content) ==
    /\ me.at = "copying" =>
         /\ me.file = "temp"
         /\ me.release \in Releases
         /\ content # NoFile
         /\ \A c \in 1..Chunks : c < me.chunk => content[c] = me.release
    /\ me.at \in {"copied", "running", "verified"} => Whole(content)

Alone ==
    /\ Whole(exe)
    /\ \A u, v \in Updaters : updaters[u].at # "idle" /\ updaters[v].at # "idle" => u = v
    /\ \A u \in Updaters : Sound(updaters[u], temp)

UpdateInv == UpdateTypeOK /\ (~overlapped => Alone)

LEMMA ContentFacts ==
    /\ Empty \in Content
    /\ NoFile \notin Content
    /\ \A content : Whole(content) => content \in Content
    /\ \A content \in Content, c \in 1..Chunks, r \in Releases \cup {Missing} :
         [content EXCEPT ![c] = r] \in Content
<1>1. 1 \in 1..Chunks
  BY ChunksAssumption
<1>2. NoFile \notin Content
  <2>1. \A f \in Content : DOMAIN f = 1..Chunks
    BY DEF Content
  <2>2. DOMAIN NoFile = {}
    BY DEF NoFile
  <2> QED BY <1>1, <2>1, <2>2
<1>3. Empty \in Content
  BY DEF Empty, Content
<1>4. \A content : Whole(content) => content \in Content
  BY DEF Whole, Content
<1>5. \A content \in Content, c \in 1..Chunks, r \in Releases \cup {Missing} :
         [content EXCEPT ![c] = r] \in Content
  BY DEF Content
<1> QED BY <1>2, <1>3, <1>4, <1>5

LEMMA UpdaterFacts ==
    /\ Idle \in Updater /\ Idle.at = "idle" /\ (\A content : Sound(Idle, content))
    /\ \A moved \in {Same, Removed, Renamed}, path \in Paths : moved[path] \in Paths
    /\ \A path \in Paths : Same[path] = path
<1>1. Idle \in Updater
  BY ChunksAssumption DEF Idle, Updater, Paths
<1> QED BY <1>1 DEF Idle, Sound, Same, Removed, Renamed, Paths

\* The new state of every command, whatever happens to the files it has open.
LEMMA UpdatedFacts ==
    ASSUME UpdateTypeOK, NEW u \in Updaters, NEW new \in Updater, NEW moved \in {Same, Removed, Renamed},
           Updated(u, new, moved)
    PROVE  /\ updaters' \in [Updaters -> Updater]
           /\ updaters'[u] = new
           /\ \A v \in Updaters : v # u => updaters'[v].at = updaters[v].at
           /\ moved = Same => \A v \in Updaters : v # u => updaters'[v] = updaters[v]
<1>1. \A v \in Updaters : updaters[v] \in Updater
  BY DEF UpdateTypeOK, Updater
<1>2. updaters' = [v \in Updaters |->
                   IF v = u THEN new ELSE [updaters[v] EXCEPT !.file = moved[updaters[v].file]]]
  BY DEF Updated
<1>3. \A v \in Updaters : [updaters[v] EXCEPT !.file = moved[updaters[v].file]] \in Updater
  BY <1>1, UpdaterFacts DEF Updater
<1>4. updaters' \in [Updaters -> Updater]
  BY <1>2, <1>3
<1>5. updaters'[u] = new
  BY <1>2
<1>6. \A v \in Updaters : v # u => updaters'[v].at = updaters[v].at
  BY <1>1, <1>2 DEF Updater
<1>7. moved = Same => \A v \in Updaters : v # u => updaters'[v] = updaters[v]
  BY <1>1, <1>2, UpdaterFacts DEF Updater
<1> QED BY <1>4, <1>5, <1>6, <1>7

\* When the others are idle, only what the one that moves knows is at stake.
LEMMA AloneKept ==
    ASSUME UpdateTypeOK, NEW u \in Updaters, NEW new \in Updater, NEW moved \in {Same, Removed, Renamed},
           Updated(u, new, moved),
           \A v \in Updaters : v # u => updaters[v].at = "idle",
           Whole(exe'), Sound(new, temp')
    PROVE  Alone'
<1>1. \A v \in Updaters : v # u => updaters'[v].at = "idle"
  BY UpdatedFacts
<1>2. updaters'[u] = new
  BY UpdatedFacts
<1>3. \A v \in Updaters : Sound(updaters'[v], temp')
  <2> SUFFICES ASSUME NEW v \in Updaters PROVE Sound(updaters'[v], temp')
    OBVIOUS
  <2>1. CASE v = u
    BY <1>2, <2>1 DEF Sound
  <2>2. CASE v # u
    BY <1>1, <2>2 DEF Sound
  <2> QED BY <2>1, <2>2
<1>4. Whole(exe)'
  BY DEF Whole
<1> QED BY <1>1, <1>2, <1>3, <1>4 DEF Alone

\* In the same way for the types.
LEMMA TypeKept ==
    ASSUME UpdateTypeOK, NEW u \in Updaters, NEW new \in Updater, NEW moved \in {Same, Removed, Renamed},
           Updated(u, new, moved),
           exe' \in Content, temp' \in Content \cup {NoFile}, overlapped' \in BOOLEAN
    PROVE  UpdateTypeOK'
BY UpdatedFacts DEF UpdateTypeOK, Updater

LEMMA UpdateInitInv == UpdateInit => UpdateInv
<1> SUFFICES ASSUME UpdateInit PROVE UpdateInv
  OBVIOUS
<1>1. Whole(exe) /\ exe \in Content
  BY ContentFacts DEF UpdateInit, Whole
<1>2. UpdateTypeOK
  BY <1>1, UpdaterFacts DEF UpdateInit, UpdateTypeOK, Updater
<1>3. Alone
  BY <1>1, UpdaterFacts DEF UpdateInit, Alone, Sound
<1> QED BY <1>2, <1>3 DEF UpdateInv

LEMMA OpenInv ==
    ASSUME UpdateInv, NEW u \in Updaters, Open(u) PROVE UpdateInv'
<1>1. PICK r \in Releases :
        Updated(u, [Idle EXCEPT !.at = "copying", !.file = "temp", !.release = r], Same)
  BY DEF Open
<1> DEFINE new == [Idle EXCEPT !.at = "copying", !.file = "temp", !.release = r]
<1>2. new \in Updater /\ new.at = "copying" /\ new.file = "temp" /\ new.release = r /\ new.chunk = 1
  BY UpdaterFacts DEF Updater, Idle, Paths
<1>3. /\ temp' = Empty /\ exe' = exe
      /\ overlapped' = (overlapped \/ \E v \in Updaters : updaters[v].at # "idle")
  BY DEF Open
<1>4. UpdateTypeOK'
  <2>1. overlapped' \in BOOLEAN
    BY <1>3
  <2> HIDE DEF new
  <2> QED BY <1>1, <1>2, <1>3, <2>1, ContentFacts, TypeKept DEF UpdateInv, UpdateTypeOK, new
<1>5. ASSUME ~overlapped' PROVE Alone'
  <2>1. ~overlapped /\ \A v \in Updaters : updaters[v].at = "idle"
    BY <1>3, <1>5
  <2>2. Whole(exe')
    BY <1>3, <2>1 DEF UpdateInv, Alone
  <2>3. Sound(new, temp')
    <3>1. \A c \in 1..Chunks : ~(c < 1)
      OBVIOUS
    <3>2. temp' # NoFile
      BY <1>3, ContentFacts
    <3> HIDE DEF new
    <3> QED BY <1>2, <3>1, <3>2 DEF Sound
  <2> HIDE DEF new
  <2> QED BY <1>1, <1>2, <2>1, <2>2, <2>3, AloneKept DEF UpdateInv, new
<1> QED BY <1>4, <1>5 DEF UpdateInv

\* The steps of a command under way.
LEMMA UnderWayInv ==
    ASSUME UpdateInv, NEW u \in Updaters, updaters[u].at # "idle", Update(u), ~Open(u),
           UNCHANGED overlapped
    PROVE  UpdateInv'
<1> DEFINE me == updaters[u]
<1>0. me \in Updater
  BY DEF UpdateInv, UpdateTypeOK, Updater
<1>1. ~overlapped => (\A v \in Updaters : v # u => updaters[v].at = "idle")
  BY DEF UpdateInv, Alone
<1>2. overlapped' \in BOOLEAN
  BY Zenon DEF UpdateInv, UpdateTypeOK
<1>3. exe \in Content /\ temp \in Content \cup {NoFile}
  BY DEF UpdateInv, UpdateTypeOK
<1>4. ~overlapped => Whole(exe) /\ Sound(me, temp)
  BY DEF UpdateInv, Alone
\* A command that ends, wherever its files go.
<1>5. ASSUME NEW moved \in {Same, Removed, Renamed}, Updated(u, Idle, moved),
             exe' \in Content, temp' \in Content \cup {NoFile},
             ~overlapped => Whole(exe')
      PROVE  UpdateInv'
  <2>1. UpdateTypeOK'
    BY <1>2, <1>5, UpdaterFacts, TypeKept DEF UpdateInv
  <2>2. Sound(Idle, temp')
    BY DEF Sound, Idle
  <2>3. ~overlapped => Alone'
    BY <1>1, <1>5, <2>2, UpdaterFacts, AloneKept DEF UpdateInv
  <2> QED BY <2>1, <2>3 DEF UpdateInv
\* A command that goes on, and leaves the others' files where they are.
<1>6. ASSUME NEW new \in Updater, Updated(u, new, Same),
             exe' \in Content, temp' \in Content \cup {NoFile},
             ~overlapped => Whole(exe') /\ Sound(new, temp')
      PROVE  UpdateInv'
  <2>1. UpdateTypeOK'
    BY <1>2, <1>6, TypeKept DEF UpdateInv
  <2>2. ~overlapped => Alone'
    BY <1>1, <1>6, AloneKept DEF UpdateInv
  <2> QED BY <2>1, <2>2 DEF UpdateInv
<1>7. Abandon(u) => UpdateInv'
  BY <1>3, <1>4, <1>5 DEF Abandon
<1>8. CASE Copy(u)
  <2> DEFINE new == [me EXCEPT !.chunk = @ + 1]
  <2>1. /\ me.at = "copying" /\ me.chunk \in 1..Chunks
        /\ me.release \in Releases \cup {Missing}
    BY <1>0, <1>8, ChunksAssumption DEF Copy, Updater
  <2>2. /\ new \in Updater /\ new.at = "copying" /\ new.file = me.file
        /\ new.release = me.release /\ new.chunk = me.chunk + 1
    BY <1>0, <2>1, ChunksAssumption DEF Updater
  <2>3. /\ temp' = IF me.file = "temp" THEN [temp EXCEPT ![me.chunk] = me.release] ELSE temp
        /\ exe' = IF me.file = "exe" THEN [exe EXCEPT ![me.chunk] = me.release] ELSE exe
        /\ Updated(u, new, Same)
    BY <1>8 DEF Copy
  <2>4. [NoFile EXCEPT ![me.chunk] = me.release] = NoFile
    BY DEF NoFile
  <2>5. exe' \in Content /\ temp' \in Content \cup {NoFile}
    BY <1>3, <2>1, <2>3, <2>4, ContentFacts
  <2>6. ASSUME ~overlapped PROVE Whole(exe') /\ Sound(new, temp')
    <3>1. me.file = "temp" /\ temp # NoFile /\ me.release \in Releases
      BY <1>4, <2>1, <2>6 DEF Sound
    <3>2. temp \in Content /\ temp' = [temp EXCEPT ![me.chunk] = me.release] /\ exe' = exe
      BY <1>3, <2>3, <3>1
    <3>3. \A c \in 1..Chunks : c < me.chunk + 1 => temp'[c] = me.release
      BY <1>4, <2>1, <2>6, <3>2 DEF Sound, Content
    <3>4. temp' # NoFile
      BY <2>1, <3>1, <3>2, ContentFacts
    <3> QED BY <1>4, <2>2, <2>6, <3>1, <3>2, <3>3, <3>4 DEF Sound
  <2> HIDE DEF new
  <2> QED BY <1>6, <2>2, <2>3, <2>5, <2>6
<1>9. CASE Close(u)
  <2> DEFINE new == [Idle EXCEPT !.at = "copied"]
  <2>1. /\ me.at = "copying" /\ me.chunk > Chunks
        /\ Updated(u, new, Same) /\ exe' = exe /\ temp' = temp
    BY <1>9 DEF Close
  <2>2. new \in Updater /\ new.at = "copied"
    BY UpdaterFacts DEF Updater, Idle
  <2>3. ASSUME ~overlapped PROVE Whole(temp)
    <3>1. /\ temp \in Content /\ me.release \in Releases
          /\ \A c \in 1..Chunks : c < me.chunk => temp[c] = me.release
      BY <1>3, <1>4, <2>1, <2>3 DEF Sound
    <3>2. \A c \in 1..Chunks : c < me.chunk
      BY <1>0, <2>1, ChunksAssumption DEF Updater
    <3>3. temp = [c \in 1..Chunks |-> me.release]
      BY <3>1, <3>2 DEF Content
    <3> QED BY <3>1, <3>3 DEF Whole
  <2>4. ~overlapped => Sound(new, temp')
    BY <2>1, <2>2, <2>3 DEF Sound
  <2> HIDE DEF new
  <2> QED BY <1>3, <1>4, <1>6, <2>1, <2>2, <2>4
<1>10. CASE CopyFails(u)
  BY <1>7, <1>10 DEF CopyFails
<1>11. CASE Run(u)
  <2>1. PICK passes \in BOOLEAN :
          Updated(u, [Idle EXCEPT !.at = "running", !.file = "temp", !.passes = passes], Same)
    BY <1>11 DEF Run
  <2> DEFINE new == [Idle EXCEPT !.at = "running", !.file = "temp", !.passes = passes]
  <2>2. me.at = "copied" /\ exe' = exe /\ temp' = temp
    BY <1>11 DEF Run
  <2>3. new \in Updater /\ new.at = "running"
    BY UpdaterFacts DEF Updater, Idle, Paths
  <2>4. ~overlapped => Sound(new, temp')
    BY <1>4, <2>2, <2>3 DEF Sound
  <2> HIDE DEF new
  <2>5. Updated(u, new, Same)
    BY <2>1 DEF new
  <2> QED BY <1>3, <1>4, <1>6, <2>2, <2>3, <2>4, <2>5
<1>12. CASE RunRefused(u)
  BY <1>7, <1>12 DEF RunRefused
<1>13. CASE RunEnds(u)
  <2>1. CASE Abandon(u)
    BY <1>7, <2>1
  <2>2. CASE Updated(u, [Idle EXCEPT !.at = "verified"], Same) /\ UNCHANGED <<exe, temp>>
    <3> DEFINE new == [Idle EXCEPT !.at = "verified"]
    <3>1. new \in Updater /\ new.at = "verified"
      BY UpdaterFacts DEF Updater, Idle
    <3>2. ~overlapped => Sound(new, temp')
      BY <1>4, <1>13, <2>2, <3>1 DEF Sound, RunEnds
    <3> HIDE DEF new
    <3>3. Updated(u, new, Same)
      BY <2>2 DEF new
    <3> QED BY <1>3, <1>4, <1>6, <2>2, <3>1, <3>2, <3>3
  <2> QED BY <1>13, <2>1, <2>2 DEF RunEnds
<1>14. CASE Rename(u)
  <2>1. CASE temp = NoFile
    BY <1>3, <1>4, <1>5, <1>14, <2>1 DEF Rename
  <2>2. CASE temp # NoFile
    <3>1. exe' = temp /\ temp' = NoFile /\ Updated(u, Idle, Renamed) /\ me.at = "verified"
      BY <1>14, <2>2 DEF Rename
    <3>2. ~overlapped => Whole(exe')
      BY <1>4, <3>1 DEF Sound
    <3> QED BY <1>3, <1>5, <2>2, <3>1, <3>2
  <2> QED BY <2>1, <2>2
<1>15. CASE Kill(u)
  BY <1>3, <1>4, <1>5, <1>15 DEF Kill
<1> QED
  BY <1>8, <1>9, <1>10, <1>11, <1>12, <1>13, <1>14, <1>15 DEF Update

LEMMA UpdateNextInv == UpdateInv /\ [UpdateNext]_updateVars => UpdateInv'
<1> SUFFICES ASSUME UpdateInv, [UpdateNext]_updateVars PROVE UpdateInv'
  OBVIOUS
<1>1. CASE UNCHANGED updateVars
  BY <1>1 DEF updateVars, UpdateInv, UpdateTypeOK, Alone, Sound, Whole
<1>2. ASSUME NEW u \in Updaters, Update(u) PROVE UpdateInv'
  <2>1. CASE Open(u)
    BY <2>1, OpenInv
  <2>2. CASE ~Open(u)
    <3>1. updaters[u].at # "idle" /\ UNCHANGED overlapped
      BY <1>2, <2>2
      DEF Update, Copy, Close, CopyFails, Abandon, Run, RunRefused, RunEnds, Rename, Kill
    <3> QED BY <1>2, <2>2, <3>1, UnderWayInv
  <2> QED BY <2>1, <2>2
<1> QED BY <1>1, <1>2 DEF UpdateNext

LEMMA UpdateInductive == UpdateSpec => []UpdateInv
BY UpdateInitInv, UpdateNextInv, PTL DEF UpdateSpec

\* SelfUpdate keeps its types, for any number of commands (update.go:12-63).
THEOREM UpdateTypeCorrect == UpdateSpec => []UpdateTypeOK
BY UpdateInductive, PTL DEF UpdateInv

\* Without overlapping updates the executable is always one whole release, for
\* any number of commands, releases and chunks (update.go:38-60).
THEOREM WholeUnlessOverlap == UpdateSpec => []BrokenOnlyAfterOverlap
<1>1. UpdateInv => BrokenOnlyAfterOverlap
  BY DEF UpdateInv, Alone, BrokenOnlyAfterOverlap
<1> QED BY <1>1, UpdateInductive, PTL

-----------------------------------------------------------------------------
(* The composition. *)

\* Restarts that wait for an executable and updates between the steps of a
\* reload are behaviours of ConfigReload and of SelfUpdate (agent.go:277-289,
\* 396-468; update.go:12-63).
THEOREM PartsImplemented == LifeSpec => Spec /\ UpdateSpec
<1>1. LifeInit => Init /\ UpdateInit
  BY DEF LifeInit
<1>2. [LifeNext]_host => [Next]_vars /\ [UpdateNext]_updateVars
  BY DEF LifeNext, LoaderSteps, Restart, Next, Loader, host, vars, updateVars
<1> QED BY <1>1, <1>2, PTL DEF LifeSpec, Spec, UpdateSpec

\* Crashes, restarts and updates do not make the agent mistake an older
\* configuration for the file (agent.go:396-420, 439-468).
THEOREM HostStampTellsTruth == LifeSpec => []StaleOnlyAfterRace
BY PartsImplemented, StampTellsTruth, PTL

\* Nor go back to an older one while the process runs (agent.go:396-413).
THEOREM HostMovesForward == LifeSpec => NeverGoesBack
BY PartsImplemented, ReloadsMoveForward, PTL

\* The executable stays whole, whatever the agent and the writers of its
\* configuration do meanwhile (update.go:38-60).
THEOREM HostExecutableWhole == LifeSpec => []BrokenOnlyAfterOverlap
BY PartsImplemented, WholeUnlessOverlap, PTL

\* Updates that do not overlap never leave the service manager without a program
\* it can start, at whatever point the agent or the update ends: the executable
\* is whole and nobody is writing it (update.go:38-60, script.sh:139).
THEOREM HostAlwaysStartable == LifeSpec => [](~overlapped => Startable)
<1>1. UpdateInv => (~overlapped => Startable)
  <2> SUFFICES ASSUME UpdateInv, ~overlapped PROVE Startable
    OBVIOUS
  <2>1. Whole(exe)
    BY DEF UpdateInv, Alone
  <2>2. \A u \in Updaters : updaters[u].at = "copying" => updaters[u].file = "temp"
    BY DEF UpdateInv, Alone, Sound
  <2>3. "exe" \notin Written
    BY <2>2 DEF Written
  <2> QED BY <2>1, <2>3 DEF Startable
<1> QED BY <1>1, PartsImplemented, UpdateInductive, PTL

\* Both parts keep their types (agent.go:396-468; update.go:12-63).
THEOREM HostTypeCorrect == LifeSpec => []HostTypeOK
BY PartsImplemented, ReloadTypeCorrect, UpdateTypeCorrect, PTL DEF HostTypeOK

=============================================================================
