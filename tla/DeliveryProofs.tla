--------------------------- MODULE DeliveryProofs ---------------------------
(***************************************************************************)
(* Proofs about Delivery, for every set of configurations, every bound and *)
(* every set of faults.                                                    *)
(***************************************************************************)
EXTENDS Delivery, SequenceTheorems, WellFoundedInduction, TLAPS

-----------------------------------------------------------------------------
(* Sequences as the sets of snapshots they carry. *)

LEMMA SetIsRange == \A s : ToSet(s) = Range(s)
BY DEF ToSet, Range

\* push and requeueFront join a batch and the queue (agent.go:542-546, 561-569).
LEMMA Join ==
    ASSUME NEW s \in Seq(Nat), NEW t \in Seq(Nat)
    PROVE  s \o t \in Seq(Nat) /\ ToSet(s \o t) = ToSet(s) \cup ToSet(t)
BY RangeConcatenation, ConcatProperties, SetIsRange

\* pop splits the queue and loses nothing (agent.go:548-559).
LEMMA Halves ==
    ASSUME NEW s \in Seq(Nat), NEW n \in 0..Len(s)
    PROVE  SubSeq(s, 1, n) \o SubSeq(s, n + 1, Len(s)) = s
<1>1. SubSeq(s, 1, Len(s)) = s
  BY SubSeqFull
<1>2. 1 \in 1..Len(s)+1 /\ n \in 1-1..Len(s) /\ Len(s) \in n..Len(s)
  OBVIOUS
<1> QED BY <1>1, <1>2, ConcatAdjacentSubSeq

LEMMA Split ==
    ASSUME NEW s \in Seq(Nat), NEW n \in 0..Len(s)
    PROVE  /\ SubSeq(s, 1, n) \in Seq(Nat)
           /\ SubSeq(s, n + 1, Len(s)) \in Seq(Nat)
           /\ ToSet(s) = ToSet(SubSeq(s, 1, n)) \cup ToSet(SubSeq(s, n + 1, Len(s)))
<1>1. SubSeq(s, 1, n) \in Seq(Nat) /\ SubSeq(s, n + 1, Len(s)) \in Seq(Nat)
  BY SubSeqProperties
<1> QED BY <1>1, Halves, Join

LEMMA Empty == <<>> \in Seq(Nat) /\ ToSet(<<>>) = {}
BY DEF ToSet

LEMMA Singleton ==
    ASSUME NEW x \in Nat
    PROVE  <<x>> \in Seq(Nat) /\ ToSet(<<x>>) = {x}
BY DEF ToSet

-----------------------------------------------------------------------------
(* What the helpers of Delivery do. *)

\* An answer of Send, and what the collector has by then.
LEMMA SendFacts ==
    ASSUME NEW token, NEW faults, NEW r \in SendResults(token, faults)
    PROVE  /\ r.answer \in Answers
           /\ r.copies \in 0..2
           /\ r.answer = "ok" /\ r.copies = 0 => "redirect" \in faults
BY DEF SendResults, Answers

LEMMA FaultsOfSends == SendFaults \subseteq Faults
BY DEF SendFaults

LEMMA ReceiveFacts ==
    ASSUME NEW S, NEW r, Receive(S, r)
    PROVE  /\ delivered \subseteq delivered' /\ delivered' \subseteq delivered \cup S
           /\ r.copies # 0 => S \subseteq delivered'
BY DEF Receive

\* A batch that Send has answered for good is settled, and lost only behind a
\* redirection.
LEMMA SettleFacts ==
    ASSUME NEW S, NEW token, NEW faults, NEW r \in SendResults(token, faults),
           ~IsTemporary(r.answer), Receive(S, r), Settle(S, r)
    PROVE  /\ delivered \subseteq delivered' /\ delivered' \subseteq delivered \cup S
           /\ answered' = answered \cup S
           /\ writtenOff \subseteq writtenOff' /\ writtenOff' \subseteq writtenOff \cup S
           /\ lost \subseteq lost' /\ lost' \subseteq lost \cup S
           /\ S \subseteq Settled'
           /\ lost' # lost => "redirect" \in faults
<1>1. r.answer \in {"ok", "permanent"}
  BY SendFacts DEF Answers, IsTemporary
<1>2. r.answer = "ok" /\ r.copies = 0 => "redirect" \in faults
  BY SendFacts
<1>3. /\ delivered' = IF r.copies = 0 THEN delivered ELSE delivered \cup S
      /\ answered' = answered \cup S
      /\ writtenOff' = IF r.answer = "permanent" THEN writtenOff \cup S ELSE writtenOff
      /\ lost' = IF r.answer = "ok" /\ r.copies = 0 THEN lost \cup S ELSE lost
  BY DEF Receive, Settle
<1> QED BY <1>1, <1>2, <1>3 DEF Settled

\* Files carry snapshots that were taken.
LEMMA FilesKnown ==
    ASSUME TypeOK, NEW S
    PROVE  SamplesOf(S) \subseteq 1..captured
BY DEF TypeOK, Taken, SamplesOf

-----------------------------------------------------------------------------
(* What a step leaves alone, and what a goroutine has to go on with. *)

\* A step of one goroutine leaves the variables of the others alone.
LEMMA OthersUntouched ==
    ASSUME TypeOK, NEW p \in Procs, Step(p), NEW q \in Procs \ {p}
    PROVE  /\ pc'[q] = pc[q] /\ cfg'[q] = cfg[q]
           /\ batch'[q] = batch[q] /\ paths'[q] = paths[q]
<1>1. CASE TimerFires(p) \/ LoopExits(p) \/ FlushOnce(p) \/ Push(p) \/ Pop(p)
  BY <1>1 DEF TimerFires, LoopExits, FlushOnce, CurrentConfig, Push, Pop, Goto, TypeOK
<1>2. CASE SendSettles(p) \/ SendFails(p) \/ StoreRefused(p) \/ StoreFails(p) \/ PruneFails(p)
  BY <1>2 DEF SendSettles, SendFails, StoreRefused, StoreFails, PruneFails, Requeue, Goto, TypeOK
<1>3. CASE Prune(p) \/ Evict(p) \/ WriteTemp(p) \/ Publish(p)
  BY <1>3 DEF Prune, Evict, WriteTemp, Publish, Goto, TypeOK
<1>4. CASE \/ DrainOnce(p) \/ Load(p) \/ LoadFails(p)
            \/ ResendSettles(p) \/ ResendFails(p) \/ Forget(p)
  BY <1>4 DEF DrainOnce, CurrentConfig, Load, LoadFails, ResendSettles, ResendFails, Forget,
     NextEntry, Goto, TypeOK
<1> QED BY <1>1, <1>2, <1>3, <1>4 DEF Step, FlushStep, DrainStep

\* A set of stamps that is not empty has a least one.
LEMMA Least ==
    ASSUME NEW S \in SUBSET Nat, S # {}
    PROVE  Oldest(S) \in S /\ \A x \in S : Oldest(S) <= x
<1> DEFINE R == OpToRel(<, Nat)
<1>1. IsWellFoundedOn(R, Nat)
  BY NatLessThanWellFounded
<1>2. PICK m \in S : \A n \in S : <<n, m>> \notin R
  <2> HIDE DEF R
  <2> QED BY <1>1, WFMin
<1>3. \A n \in S : ~(n < m)
  BY <1>2 DEF OpToRel
<1>4. \A n \in S : m <= n
  BY <1>3
<1> QED BY <1>4 DEF Oldest

\* A goroutine that works through a listing has a file to go on with, and one
\* that is about to rename has its temporary file.
Listing == {"evict", "reevict", "load"} \cup Resending

Listed == \A p \in Procs : pc[p] \in Listing \cup {"publish"} => paths[p] # {}

LEMMA NextListed == TypeOK /\ Listed /\ [Next]_vars => Listed'
<1> SUFFICES ASSUME TypeOK, Listed, [Next]_vars PROVE Listed'
  OBVIOUS
<1>1. CASE UNCHANGED locals
  BY <1>1 DEF Listed, locals
<1>2. CASE Exit \/ Crash
  BY <1>2 DEF Exit, Crash, ProcessEnds, Listed, Listing, Resending
<1>3. ASSUME NEW p \in Procs, Step(p) PROVE Listed'
  <2>1. \A q \in Procs \ {p} : pc'[q] = pc[q] /\ paths'[q] = paths[q]
    BY <1>3, OthersUntouched
  <2>2. SUFFICES ASSUME pc'[p] \in Listing \cup {"publish"} PROVE paths'[p] # {}
    BY <2>1 DEF Listed
  <2>3. CASE Prune(p) \/ Evict(p) \/ DrainOnce(p) \/ LoadFails(p) \/ Forget(p)
    <3>1. CASE Prune(p)
      BY <2>2, <3>1 DEF Prune, Goto, TypeOK, Listed, Listing, Resending
    <3>2. CASE Evict(p)
      BY <2>2, <3>2 DEF Evict, Goto, TypeOK, Listed, Listing, Resending
    <3>3. CASE DrainOnce(p)
      BY <2>2, <3>3 DEF DrainOnce, AfterDrain, Goto, TypeOK, Listing, Resending
    <3>4. CASE NextEntry(p)
      BY <2>2, <3>4 DEF NextEntry, AfterDrain, Goto, TypeOK, Listing, Resending
    <3> QED BY <2>3, <3>1, <3>2, <3>3, <3>4 DEF LoadFails, Forget
  <2>4. CASE Load(p) \/ ResendSettles(p) \/ WriteTemp(p)
    BY <2>4 DEF Load, ResendSettles, WriteTemp, Goto, TypeOK, Listed, Listing, Resending
  <2>5. \/ Prune(p) \/ Evict(p) \/ WriteTemp(p) \/ DrainOnce(p)
        \/ LoadFails(p) \/ Forget(p) \/ Load(p) \/ ResendSettles(p)
    BY <1>3, <2>2 DEF Step, FlushStep, DrainStep, TimerFires, LoopExits, FlushOnce, Push, Pop,
       SendSettles, SendFails, StoreRefused, StoreFails, PruneFails, Requeue, Publish,
       ResendFails, AfterFlush, AfterDrain, Goto, TypeOK, Listing, Resending
  <2> QED BY <2>3, <2>4, <2>5
<1> QED
  BY <1>1, <1>2, <1>3 DEF Next, Collect, Reload, Stop, Restart, Corrupt, vars

-----------------------------------------------------------------------------
(* Type correctness. *)

LEMMA InitType == Init => TypeOK
<1> SUFFICES ASSUME Init PROVE TypeOK
  OBVIOUS
<1>1. DOMAIN spool = {} /\ Taken(queue) /\ \A p \in Procs : Taken(batch[p])
  BY Empty DEF Init, Taken
<1> QED BY <1>1, Empty DEF Init, TypeOK, Locations

LEMMA NextType == TypeOK /\ Listed /\ [Next]_vars => TypeOK'
<1> SUFFICES ASSUME TypeOK, Listed, [Next]_vars PROVE TypeOK'
  OBVIOUS
<1> USE Empty
<1>1. CASE Collect
  BY <1>1 DEF Collect, TypeOK, Taken, locals, disk, ledger
<1>2. CASE Reload
  BY <1>2 DEF Reload, TypeOK, Taken, pipeline, locals, disk, ledger
<1>3. ASSUME NEW p \in Procs, Step(p) PROVE TypeOK'
  <2>1. CASE TimerFires(p)
    BY <2>1 DEF TimerFires, Goto, TypeOK, Taken, pipeline, disk, ledger, Locations
  <2>2. CASE LoopExits(p)
    BY <2>2 DEF LoopExits, Goto, TypeOK, Taken, pipeline, disk, ledger, Locations
  <2>3. CASE FlushOnce(p)
    <3>1. CASE dirty
      <4>1. /\ captured' = captured + 1 /\ captured + 1 \in Nat
            /\ batch' = [batch EXCEPT ![p] = <<captured + 1>>]
            /\ pc' = [pc EXCEPT ![p] = "push"] /\ dirty' = FALSE
            /\ cfg' = [cfg EXCEPT ![p] = config]
            /\ UNCHANGED <<config, phase, queue, disk, paths, ledger>>
        BY <2>3, <3>1 DEF FlushOnce, CurrentConfig, Goto, TypeOK
      <4>2. 1..captured \subseteq 1..captured'
        BY <4>1 DEF TypeOK
      <4>3. ASSUME NEW q \in Procs PROVE Taken(batch[q])'
        <5>1. CASE q = p
          BY <4>1, <5>1, Singleton DEF TypeOK, Taken
        <5>2. CASE q # p
          BY <4>1, <4>2, <5>2 DEF TypeOK, Taken
        <5> QED BY <5>1, <5>2
      <4>4. batch' \in [Procs -> Seq(Nat)]
        BY <4>1, Singleton DEF TypeOK
      <4> QED
        BY <4>1, <4>2, <4>3, <4>4 DEF TypeOK, Taken, disk, ledger, Locations, Holding
    <3>2. CASE ~dirty
      BY <2>3, <3>2 DEF FlushOnce, CurrentConfig, Goto, TypeOK, Taken, disk, ledger, Locations
    <3> QED BY <3>1, <3>2
  <2>4. CASE Push(p)
    <3>1. Taken(queue)'
      BY <2>4, Join DEF Push, TypeOK, Taken
    <3>2. batch' \in [Procs -> Seq(Nat)] /\ \A q \in Procs : Taken(batch[q])'
      BY <2>4 DEF Push, TypeOK, Taken
    <3> QED BY <2>4, <3>1, <3>2 DEF Push, Goto, TypeOK, Taken, disk, ledger, Locations
  <2>5. CASE Pop(p)
    <3>1. CASE queue = <<>>
      BY <2>5, <3>1 DEF Pop, Goto, AfterFlush, TypeOK, Taken, disk, ledger, Locations
    <3>2. CASE queue # <<>>
      <4> DEFINE n == Smaller(cfg[p].batchSize, Len(queue))
      <4>1. n \in 0..Len(queue)
        BY ConfigsAssumption, <2>5 DEF TypeOK, Taken, Smaller, ConfigType
      <4>2. /\ batch' = [batch EXCEPT ![p] = SubSeq(queue, 1, n)]
            /\ queue' = SubSeq(queue, n + 1, Len(queue))
            /\ captured' = captured
        BY <2>5, <3>2 DEF Pop
      <4>3. /\ SubSeq(queue, 1, n) \in Seq(Nat) /\ queue' \in Seq(Nat)
            /\ ToSet(SubSeq(queue, 1, n)) \subseteq 1..captured
            /\ ToSet(queue') \subseteq 1..captured
        BY <4>1, <4>2, Split DEF TypeOK, Taken
      <4>4. batch' \in [Procs -> Seq(Nat)] /\ \A q \in Procs : Taken(batch[q])'
        BY <4>2, <4>3 DEF TypeOK, Taken
      <4>5. Taken(queue)'
        BY <4>2, <4>3 DEF Taken
      <4> QED
        BY <2>5, <3>2, <4>4, <4>5 DEF Pop, Goto, TypeOK, Taken, disk, ledger, Locations, Holding
    <3> QED BY <3>1, <3>2
  <2>6. CASE SendSettles(p) \/ ResendSettles(p)
    <3>1. PICK r \in SendResults(cfg[p].token, SendFaults) :
            ~IsTemporary(r.answer) /\ Receive(ToSet(batch[p]), r) /\ Settle(ToSet(batch[p]), r)
      BY <2>6 DEF SendSettles, ResendSettles
    <3>2. /\ delivered' \subseteq 1..captured /\ answered' \subseteq 1..captured
          /\ writtenOff' \subseteq 1..captured /\ lost' \subseteq 1..captured
      <4> DEFINE S == ToSet(batch[p])
      <4>1. S \subseteq 1..captured
        BY DEF TypeOK, Taken
      <4>2. Receive(S, r) /\ Settle(S, r)
        BY <3>1
      <4> HIDE DEF S
      <4>3. /\ delivered' \subseteq delivered \cup S /\ answered' = answered \cup S
            /\ writtenOff' \subseteq writtenOff \cup S /\ lost' \subseteq lost \cup S
        BY <3>1, <4>2, SettleFacts
      <4> QED BY <4>1, <4>3 DEF TypeOK
    <3> QED
      BY <2>6, <3>2 DEF SendSettles, ResendSettles, Goto, TypeOK, Taken, pipeline,
                        disk, Locations, Holding, Resending
  <2>7. CASE SendFails(p) \/ ResendFails(p)
    <3>1. PICK r \in SendResults(cfg[p].token, SendFaults) : Receive(ToSet(batch[p]), r)
      BY <2>7 DEF SendFails, ResendFails
    <3>2. delivered' \subseteq 1..captured
      BY <3>1, ReceiveFacts DEF TypeOK, Taken
    <3> QED
      BY <2>7, <3>2 DEF SendFails, ResendFails, AfterDrain, Goto, TypeOK, Taken,
                        pipeline, disk, Locations, Holding, Storing
  <2>8. CASE StoreRefused(p) \/ StoreFails(p) \/ PruneFails(p)
    <3>1. Requeue(p)
      BY <2>8 DEF StoreRefused, StoreFails, PruneFails
    <3>2. Taken(queue)'
      BY <3>1, Join DEF Requeue, TypeOK, Taken
    <3>3. batch' \in [Procs -> Seq(Nat)] /\ \A q \in Procs : Taken(batch[q])'
      BY <3>1 DEF Requeue, TypeOK, Taken
    <3> QED
      BY <3>1, <3>2, <3>3 DEF Requeue, AfterFlush, Goto, TypeOK, Taken, disk, ledger, Locations
  <2>9. CASE Prune(p)
    <3>1. PICK gone, aged :
            /\ spool' = Without(gone)
            /\ writtenOff' = writtenOff \cup SamplesOf(gone)
            /\ paths' = [paths EXCEPT ![p] =
                           Surplus(Entries(cfg[p].dir) \ aged, cfg[p].maxBatches)]
      BY <2>9 DEF Prune
    <3>2. writtenOff' \subseteq 1..captured
      BY <3>1, FilesKnown DEF TypeOK
    <3>3. paths' \in [Procs -> SUBSET (1..clock)]
      BY <3>1 DEF TypeOK, Surplus, Entries
    <3>4. /\ DOMAIN spool' \subseteq 1..clock
          /\ \A st \in DOMAIN spool' : spool'[st] \in File /\ Taken(spool[st].batch)'
      BY <2>9, <3>1 DEF TypeOK, Without, Prune, pipeline, Taken
    <3>5. pc' \in [Procs -> Locations]
      BY <2>9 DEF Prune, Goto, TypeOK, Locations, Holding, Storing, Published
    <3>6. batch' \in [Procs -> Seq(Nat)] /\ \A q \in Procs : Taken(batch[q])'
      BY <2>9 DEF Prune, TypeOK, Taken, pipeline
    <3> QED
      BY <2>9, <3>2, <3>3, <3>4, <3>5, <3>6 DEF Prune, TypeOK, Taken, pipeline
  <2>10. CASE Evict(p)
    <3>1. writtenOff' \subseteq 1..captured
      BY <2>10, FilesKnown DEF Evict, TypeOK
    <3>2. /\ DOMAIN spool' \subseteq 1..clock
          /\ \A st \in DOMAIN spool' : spool'[st] \in File /\ Taken(spool[st].batch)'
      BY <2>10 DEF TypeOK, Without, Evict, pipeline, Taken
    <3>3. pc' \in [Procs -> Locations]
      BY <2>10 DEF Evict, Goto, TypeOK, Locations, Holding, Storing
    <3>4. batch' \in [Procs -> Seq(Nat)] /\ \A q \in Procs : Taken(batch[q])'
      BY <2>10 DEF Evict, TypeOK, Taken, pipeline
    <3>5. paths' \in [Procs -> SUBSET (1..clock)]
      BY <2>10 DEF TypeOK, Evict
    <3> QED
      BY <2>10, <3>1, <3>2, <3>3, <3>4, <3>5 DEF Evict, TypeOK, Taken, pipeline
  <2>11. CASE WriteTemp(p)
    <3>1. clock' = clock + 1 /\ clock \in Nat /\ paths' = [paths EXCEPT ![p] = {clock + 1}]
      BY <2>11 DEF WriteTemp, TypeOK
    <3>2. /\ 1..clock \subseteq 1..clock' /\ clock' \in Nat
          /\ paths' \in [Procs -> SUBSET (1..clock')]
      BY <3>1 DEF TypeOK
    <3>3. pc' \in [Procs -> Locations]
      BY <2>11 DEF WriteTemp, Goto, TypeOK, Locations, Holding, Storing
    <3>4. UNCHANGED <<config, phase, captured, queue, dirty, cfg, batch, spool, ledger>>
      BY <2>11 DEF WriteTemp, pipeline
    <3> QED
      BY <3>2, <3>3, <3>4 DEF TypeOK, Taken, ledger
  <2>12. CASE Publish(p)
    <3> DEFINE st  == Oldest(paths[p])
               new == [dir |-> cfg[p].dir, batch |-> batch[p], intact |-> TRUE,
                       overtaken |-> clock # st]
    <3>1. /\ spool' = With(st, new) /\ paths' = [paths EXCEPT ![p] = {}]
          /\ UNCHANGED <<config, phase, clock, captured, queue, dirty, cfg, batch, ledger>>
      BY <2>12 DEF Publish, pipeline
    <3>2. st \in 1..clock
      BY <2>12, Least DEF Publish, Listed, TypeOK
    <3>3. cfg[p].dir \in Seq(STRING)
      BY ConfigsAssumption DEF TypeOK, ConfigType
    <3>4. new \in File /\ Taken(new.batch)
      BY <3>3 DEF TypeOK, File
    <3>5. pc' \in [Procs -> Locations]
      BY <2>12 DEF Publish, Goto, TypeOK, Locations, Holding, Published
    <3> HIDE DEF new, st
    <3>6. /\ DOMAIN spool' = DOMAIN spool \cup {st}
          /\ \A x \in DOMAIN spool' : spool'[x] = IF x = st THEN new ELSE spool[x]
      BY <3>1 DEF With
    <3>7. /\ DOMAIN spool' \subseteq 1..clock'
          /\ \A x \in DOMAIN spool' : spool'[x] \in File /\ Taken(spool[x].batch)'
      BY <3>1, <3>2, <3>4, <3>6 DEF TypeOK, Taken
    <3>8. paths' \in [Procs -> SUBSET (1..clock')]
      BY <3>1 DEF TypeOK
    <3> QED
      BY <3>1, <3>5, <3>7, <3>8 DEF TypeOK, Taken, ledger
  <2>13. CASE DrainOnce(p)
    BY <2>13 DEF DrainOnce, CurrentConfig, Entries, AfterDrain, Goto, TypeOK, Taken, pipeline, disk, ledger, Locations
  <2>14. CASE Load(p)
    <3>1. batch' \in [Procs -> Seq(Nat)] /\ \A q \in Procs : Taken(batch[q])'
      BY <2>14 DEF Load, TypeOK, Taken, pipeline
    <3> QED
      BY <2>14, <3>1 DEF Load, Goto, TypeOK, Taken, pipeline, disk, ledger, Locations, Resending
  <2>15. CASE LoadFails(p) \/ Forget(p)
    <3>1. /\ pc' \in [Procs -> Locations]
          /\ paths' \in [Procs -> SUBSET (1..clock)]
      BY <2>15 DEF LoadFails, Forget, NextEntry, AfterDrain, Goto, TypeOK, Locations
    <3>2. batch' \in [Procs -> Seq(Nat)] /\ \A q \in Procs : Taken(batch[q])'
      BY <2>15 DEF LoadFails, Forget, NextEntry, TypeOK, Taken, pipeline
    <3>3. writtenOff' \subseteq 1..captured
      BY <2>15, FilesKnown DEF LoadFails, Forget, TypeOK, ledger
    <3>4. /\ DOMAIN spool' \subseteq 1..clock
          /\ \A st \in DOMAIN spool' : spool'[st] \in File /\ Taken(spool[st].batch)'
      BY <2>15 DEF LoadFails, Forget, TypeOK, Without, pipeline, Taken
    <3> QED
      BY <2>15, <3>1, <3>2, <3>3, <3>4 DEF LoadFails, Forget, TypeOK, Taken, pipeline, ledger
  <2> QED
    BY <1>3, <2>1, <2>2, <2>3, <2>4, <2>5, <2>6, <2>7, <2>8, <2>9, <2>10, <2>11, <2>12,
       <2>13, <2>14, <2>15 DEF Step, FlushStep, DrainStep
<1>4. CASE Stop
  BY <1>4 DEF Stop, TypeOK, Taken, pipeline, locals, disk, ledger
<1>5. CASE Exit \/ Crash
  <2>1. ProcessEnds
    BY <1>5 DEF Exit, Crash
  <2>2. InMemory \subseteq 1..captured
    BY DEF InMemory, TypeOK, Taken
  <2>3. lost' \subseteq 1..captured
    BY <2>1, <2>2 DEF ProcessEnds, TypeOK
  <2> QED
    BY <2>1, <2>3 DEF ProcessEnds, TypeOK, Taken, disk, Locations
<1>6. CASE Restart
  BY <1>6 DEF Restart, TypeOK, Taken, pipeline, locals, disk, ledger
<1>7. CASE Corrupt
  <2>1. /\ DOMAIN spool' \subseteq 1..clock
        /\ \A st \in DOMAIN spool' : spool'[st] \in File /\ Taken(spool[st].batch)'
    <3>1. PICK x \in DOMAIN spool : spool' = With(x, [spool[x] EXCEPT !.intact = FALSE])
      BY <1>7 DEF Corrupt
    <3>2. /\ [spool[x] EXCEPT !.intact = FALSE] \in File
          /\ [spool[x] EXCEPT !.intact = FALSE].batch = spool[x].batch
      BY <3>1 DEF TypeOK, File
    <3>3. captured' = captured
      BY <1>7 DEF Corrupt, pipeline
    <3>4. /\ DOMAIN spool' = DOMAIN spool
          /\ \A st \in DOMAIN spool : spool'[st] \in File /\ spool'[st].batch = spool[st].batch
      BY <3>1, <3>2 DEF With, TypeOK
    <3> QED BY <3>3, <3>4 DEF TypeOK, Taken
  <2>2. UNCHANGED <<config, phase, captured, queue, dirty, clock, locals, ledger>>
    BY <1>7 DEF Corrupt, pipeline
  <2> QED BY <2>1, <2>2 DEF TypeOK, Taken, locals, ledger
<1>8. CASE UNCHANGED vars
  BY <1>8 DEF vars, TypeOK, Taken, pipeline, locals, disk, ledger
<1> QED
  BY <1>1, <1>2, <1>3, <1>4, <1>5, <1>6, <1>7, <1>8 DEF Next

\* Every state of the pipeline is well typed, and every number in the queue,
\* in a hand or in a file is that of a snapshot that was taken.
THEOREM TypeCorrect == Spec => []TypeOK
<1>1. Init => TypeOK /\ Listed
  BY InitType DEF Init, Listed, Listing, Resending
<1>2. TypeOK /\ Listed /\ [Next]_vars => TypeOK' /\ Listed'
  BY NextType, NextListed
<1> QED BY <1>1, <1>2, PTL DEF Spec

LEMMA AlwaysListed == Spec => []Listed
<1>1. Init => Listed
  BY DEF Init, Listed, Listing, Resending
<1> QED BY <1>1, NextListed, TypeCorrect, PTL DEF Spec


-----------------------------------------------------------------------------
(* The hands of the goroutines and the disk. *)

\* What a step does to the disk: a new file is the temporary file of the one
\* that renames it, files are never written again, and one that goes away
\* carries only snapshots that are settled by then.
DiskStep ==
    /\ clock <= clock' /\ clock' \in Nat
    /\ Settled \subseteq Settled'
    /\ \A st \in DOMAIN spool' : st \notin DOMAIN spool =>
         \E p \in Procs : pc[p] = "publish" /\ pc'[p] = "rescan" /\ paths[p] = {st}
    /\ \A st \in DOMAIN spool :
         IF st \in DOMAIN spool'
         THEN /\ spool'[st].batch = spool[st].batch /\ spool'[st].dir = spool[st].dir
              /\ spool'[st].overtaken = spool[st].overtaken
         ELSE ToSet(spool[st].batch) \subseteq Settled'

LEMMA Erased ==
    ASSUME NEW S, TypeOK, spool' = Without(S), UNCHANGED clock,
           Settled \subseteq Settled',
           \A st \in S \cap DOMAIN spool : ToSet(spool[st].batch) \subseteq Settled'
    PROVE  DiskStep
BY DEF DiskStep, Without, TypeOK

LEMMA DiskUntouched ==
    ASSUME TypeOK, UNCHANGED disk, Settled \subseteq Settled'
    PROVE  DiskStep
BY DEF DiskStep, disk, TypeOK

\* What a file carries is among the samples of any set that has the file.
LEMMA SamplesMember ==
    ASSUME NEW S, NEW st \in S \cap DOMAIN spool
    PROVE  ToSet(spool[st].batch) \subseteq SamplesOf(S)
BY DEF SamplesOf

LEMMA NextDisk ==
    ASSUME TypeOK, HandsMatchDisk, [Next]_vars
    PROVE  DiskStep
<1>1. CASE UNCHANGED vars
  BY <1>1, DiskUntouched DEF vars, ledger, Settled
<1>2. CASE Collect \/ Reload \/ Stop \/ Restart \/ Exit \/ Crash
  BY <1>2, DiskUntouched DEF Collect, Reload, Stop, Restart, Exit, Crash, ProcessEnds,
     disk, ledger, Settled
<1>3. CASE Corrupt
  <2>1. PICK x \in DOMAIN spool : spool' = With(x, [spool[x] EXCEPT !.intact = FALSE])
    BY <1>3 DEF Corrupt
  <2>2. LET damaged == [spool[x] EXCEPT !.intact = FALSE] IN
          /\ damaged.batch = spool[x].batch /\ damaged.dir = spool[x].dir
          /\ damaged.overtaken = spool[x].overtaken
    BY <2>1 DEF TypeOK, File
  <2>3. UNCHANGED <<clock, ledger>>
    BY <1>3 DEF Corrupt
  <2> QED BY <2>1, <2>2, <2>3 DEF DiskStep, With, TypeOK, ledger, Settled
<1>4. ASSUME NEW p \in Procs, Step(p) PROVE DiskStep
  <2>1. CASE \/ TimerFires(p) \/ LoopExits(p) \/ FlushOnce(p) \/ Push(p) \/ Pop(p)
             \/ DrainOnce(p) \/ Load(p)
    BY <2>1, DiskUntouched DEF TimerFires, LoopExits, FlushOnce, CurrentConfig, Push, Pop, DrainOnce, Load,
       disk, ledger, Settled
  <2>2. CASE StoreRefused(p) \/ StoreFails(p) \/ PruneFails(p)
    BY <2>2, DiskUntouched DEF StoreRefused, StoreFails, PruneFails, Requeue, ledger, Settled
  <2>3. CASE SendSettles(p) \/ ResendSettles(p)
    <3>1. PICK r \in SendResults(cfg[p].token, SendFaults) :
            ~IsTemporary(r.answer) /\ Receive(ToSet(batch[p]), r) /\ Settle(ToSet(batch[p]), r)
      BY <2>3 DEF SendSettles, ResendSettles
    <3>2. Settled \subseteq Settled'
      BY <3>1, SettleFacts DEF Settled
    <3> QED BY <2>3, <3>2, DiskUntouched DEF SendSettles, ResendSettles
  <2>4. CASE SendFails(p) \/ ResendFails(p)
    <3>1. UNCHANGED <<disk, writtenOff, lost>> /\ delivered \subseteq delivered'
      BY <2>4 DEF SendFails, ResendFails, Receive
    <3> QED BY <3>1, DiskUntouched DEF Settled
  <2>5. CASE Prune(p)
    <3>1. PICK gone :
            /\ spool' = Without(gone)
            /\ writtenOff' = writtenOff \cup SamplesOf(gone)
            /\ UNCHANGED <<clock, delivered, lost>>
      BY <2>5 DEF Prune
    <3> QED BY <3>1, Erased, SamplesMember DEF Settled
  <2>6. CASE Evict(p)
    BY <2>6, Erased, SamplesMember DEF Evict, Settled
  <2>7. CASE Publish(p)
    <3>1. PICK st \in 1..clock : paths[p] = {st} /\ st \notin DOMAIN spool
      BY <2>7 DEF Publish, HandsMatchDisk, HandMatchesDisk
    <3>2. Oldest(paths[p]) = st
      BY <3>1, Least
    <3>3. pc[p] = "publish" /\ pc'[p] = "rescan"
      BY <2>7 DEF Publish, Goto, TypeOK
    <3>4. /\ DOMAIN spool' = DOMAIN spool \cup {st}
          /\ \A x \in DOMAIN spool : spool'[x] = spool[x]
          /\ UNCHANGED <<clock, ledger>>
      BY <2>7, <3>1, <3>2 DEF Publish, With
    <3> QED BY <3>1, <3>3, <3>4 DEF DiskStep, TypeOK, ledger, Settled
  <2>10. CASE WriteTemp(p)
    BY <2>10 DEF WriteTemp, DiskStep, TypeOK, ledger, Settled
  <2>8. CASE LoadFails(p)
    <3>1. CASE UNCHANGED <<spool, writtenOff>>
      BY <2>8, <3>1, DiskUntouched DEF LoadFails, disk, Settled
    <3>2. CASE /\ spool' = Without({Oldest(paths[p])})
               /\ writtenOff' = writtenOff \cup SamplesOf({Oldest(paths[p])})
      BY <2>8, <3>2, Erased, SamplesMember DEF LoadFails, Settled
    <3> QED BY <2>8, <3>1, <3>2 DEF LoadFails
  <2>9. CASE Forget(p)
    <3>1. CASE UNCHANGED spool
      BY <2>9, <3>1, DiskUntouched DEF Forget, disk, ledger, Settled
    <3>2. CASE spool' = Without({Oldest(paths[p])})
      <4>1. Oldest(paths[p]) \in DOMAIN spool =>
              ToSet(spool[Oldest(paths[p])].batch) \subseteq Settled
        BY <2>9 DEF Forget, HandsMatchDisk, HandMatchesDisk, Resending, Settled
      <4> QED BY <2>9, <3>2, <4>1, Erased DEF Forget, ledger, Settled
    <3> QED BY <2>9, <3>1, <3>2 DEF Forget
  <2> QED
    BY <1>4, <2>1, <2>2, <2>3, <2>4, <2>5, <2>6, <2>7, <2>8, <2>9, <2>10
    DEF Step, FlushStep, DrainStep
<1> QED
  BY <1>1, <1>2, <1>3, <1>4 DEF Next

\* The last part of HandMatchesDisk: nobody else knows of a temporary file.
Temporary(p) ==
    pc[p] = "publish" =>
        \E st \in 1..clock :
            /\ paths[p] = {st}
            /\ st \notin DOMAIN spool
            /\ \A q \in Procs \ {p} : st \notin paths[q]

LEMMA OnlyWriterHasTemporary ==
    ASSUME TypeOK, NEW p \in Procs, Step(p), pc'[p] = "publish"
    PROVE  WriteTemp(p)
BY DEF Step, FlushStep, DrainStep, TimerFires, LoopExits, FlushOnce, Push, Pop, SendSettles,
   SendFails, StoreRefused, StoreFails, PruneFails, Requeue, Prune, Evict, Publish, DrainOnce,
   Load, LoadFails, ResendSettles, ResendFails, Forget, NextEntry, AfterFlush, AfterDrain, Goto,
   TypeOK

\* A goroutine learns of files of the spool and of its own temporary only.
LEMMA PathsFromSpool ==
    ASSUME TypeOK, NEW p \in Procs, Step(p)
    PROVE  paths'[p] \subseteq paths[p] \cup DOMAIN spool \cup {clock + 1}
<1>1. CASE Evict(p) \/ WriteTemp(p) \/ Publish(p)
  BY <1>1 DEF Evict, WriteTemp, Publish, TypeOK
<1>5. CASE Prune(p)
  <2>1. PICK aged :
          paths' = [paths EXCEPT ![p] = Surplus(Entries(cfg[p].dir) \ aged, cfg[p].maxBatches)]
    BY <1>5 DEF Prune
  <2> QED BY <2>1 DEF Surplus, Entries, TypeOK
<1>2. CASE DrainOnce(p) \/ LoadFails(p) \/ Forget(p) \/ ResendFails(p)
  BY <1>2 DEF DrainOnce, Entries, LoadFails, Forget, NextEntry, ResendFails, TypeOK
<1>3. CASE StoreRefused(p) \/ StoreFails(p) \/ PruneFails(p)
  BY <1>3 DEF StoreRefused, StoreFails, PruneFails, Requeue, TypeOK
<1>4. CASE \/ TimerFires(p) \/ LoopExits(p) \/ FlushOnce(p) \/ Push(p) \/ Pop(p)
           \/ SendSettles(p) \/ SendFails(p) \/ Load(p) \/ ResendSettles(p)
  BY <1>4 DEF TimerFires, LoopExits, FlushOnce, Push, Pop, SendSettles, SendFails, Load,
     ResendSettles
<1> QED BY <1>1, <1>2, <1>3, <1>4, <1>5 DEF Step, FlushStep, DrainStep

LEMMA NextTemporary ==
    ASSUME TypeOK, HandsMatchDisk, DiskStep, NEW p \in Procs, Step(p), NEW q \in Procs
    PROVE  Temporary(q)'
<1> SUFFICES ASSUME pc'[q] = "publish" PROVE Temporary(q)'
  BY DEF Temporary
<1>1. CASE q = p
  <2>1. WriteTemp(p)
    BY <1>1, OnlyWriterHasTemporary
  <2>2. /\ clock' = clock + 1 /\ clock \in Nat /\ paths' = [paths EXCEPT ![p] = {clock + 1}]
        /\ spool' = spool /\ DOMAIN spool \subseteq 1..clock
        /\ paths \in [Procs -> SUBSET (1..clock)]
    BY <2>1 DEF WriteTemp, TypeOK
  <2> QED BY <1>1, <2>2 DEF Temporary
<1>2. CASE q # p
  <2>1. pc[q] = "publish" /\ paths'[q] = paths[q]
    BY <1>2, OthersUntouched
  <2>2. PICK st \in 1..clock :
          paths[q] = {st} /\ st \notin DOMAIN spool /\ \A r \in Procs \ {q} : st \notin paths[r]
    BY <2>1 DEF HandsMatchDisk, HandMatchesDisk
  <2>3. st \in 1..clock' /\ st # clock + 1
    BY DEF DiskStep, TypeOK
  <2>4. st \notin DOMAIN spool'
    BY <2>1, <2>2 DEF DiskStep
  <2>5. \A r \in Procs \ {q} : st \notin paths'[r]
    BY <2>2, <2>3, PathsFromSpool, OthersUntouched
  <2> QED BY <2>1, <2>2, <2>3, <2>4, <2>5 DEF Temporary
<1> QED BY <1>1, <1>2

\* A goroutine that a step leaves alone still agrees with the disk.
LEMMA HandKept ==
    ASSUME TypeOK, Listed, HandsMatchDisk, DiskStep, NEW p \in Procs, Temporary(p)',
           pc'[p] = pc[p], batch'[p] = batch[p], paths'[p] = paths[p]
    PROVE  HandMatchesDisk(p)'
<1>1. Oldest(paths'[p]) = Oldest(paths[p])
  BY DEF Oldest
<1>2. pc[p] \in Resending /\ Oldest(paths[p]) \in DOMAIN spool' => Oldest(paths[p]) \in DOMAIN spool
  <2> SUFFICES ASSUME pc[p] \in Resending, NEW st \in DOMAIN spool' \ DOMAIN spool
               PROVE  Oldest(paths[p]) # st
    OBVIOUS
  <2>1. PICK r \in Procs : pc[r] = "publish" /\ pc'[r] = "rescan" /\ paths[r] = {st}
    BY DEF DiskStep
  <2>2. st \notin paths[p]
    BY <2>1 DEF HandsMatchDisk, HandMatchesDisk
  <2>3. Oldest(paths[p]) \in paths[p]
    BY Least DEF Listed, Listing, TypeOK
  <2> QED BY <2>2, <2>3
<1>3. OnDisk \subseteq OnDisk' \cup Settled'
  BY DEF OnDisk, SamplesOf, DiskStep
<1>4. Oldest(paths[p]) \in 1..clock => Oldest(paths[p]) \in 1..clock'
  BY DEF DiskStep, TypeOK
<1>5. Settled \subseteq Settled'
  BY DEF DiskStep
<1>6. pc[p] \in Published => ToSet(batch[p]) \subseteq OnDisk' \cup Settled'
  BY <1>3, <1>5 DEF HandsMatchDisk, HandMatchesDisk
<1>7. pc[p] = "forget" => ToSet(batch[p]) \subseteq Settled'
  BY <1>5 DEF HandsMatchDisk, HandMatchesDisk
<1>8. pc[p] \in Resending =>
        /\ Oldest(paths[p]) \in 1..clock'
        /\ Oldest(paths[p]) \in DOMAIN spool' =>
             spool'[Oldest(paths[p])].batch = batch[p]
  BY <1>2, <1>4 DEF HandsMatchDisk, HandMatchesDisk, DiskStep
<1> QED
  BY <1>1, <1>6, <1>7, <1>8 DEF HandMatchesDisk, Temporary

\* A goroutine that is neither resending nor past the rename owes nothing else.
LEMMA HandFree ==
    ASSUME NEW p \in Procs, pc'[p] \notin Resending \cup Published, Temporary(p)'
    PROVE  HandMatchesDisk(p)'
BY DEF HandMatchesDisk, Resending, Temporary

LEMMA NextHands ==
    ASSUME TypeOK, Listed, HandsMatchDisk, [Next]_vars
    PROVE  HandsMatchDisk'
<1>0. DiskStep
  BY NextDisk
<1>1. CASE UNCHANGED locals
  <2>1. DOMAIN spool' \subseteq DOMAIN spool /\ 1..clock \subseteq 1..clock'
    BY <1>0, <1>1 DEF DiskStep, locals, TypeOK
  <2>2. \A p \in Procs : Temporary(p)'
    BY <1>1, <2>1 DEF HandsMatchDisk, HandMatchesDisk, Temporary, locals
  <2> QED BY <1>0, <1>1, <2>2, HandKept DEF HandsMatchDisk, locals
<1>2. CASE Exit \/ Crash
  BY <1>2, HandFree DEF Exit, Crash, ProcessEnds, HandsMatchDisk, Temporary, Resending, Published
<1>3. ASSUME NEW p \in Procs, Step(p) PROVE HandsMatchDisk'
  <2>0. \A q \in Procs : Temporary(q)'
    BY <1>0, <1>3, NextTemporary
  <2>1. ASSUME NEW q \in Procs \ {p} PROVE HandMatchesDisk(q)'
    <3>1. /\ pc'[q] = pc[q] /\ batch'[q] = batch[q] /\ paths'[q] = paths[q]
      BY <1>3, OthersUntouched
    <3> QED BY <1>0, <2>0, <3>1, HandKept
  <2>2. CASE \/ TimerFires(p) \/ LoopExits(p) \/ FlushOnce(p) \/ Push(p) \/ Pop(p)
             \/ SendSettles(p) \/ SendFails(p) \/ ResendFails(p) \/ WriteTemp(p)
             \/ DrainOnce(p) \/ LoadFails(p) \/ Forget(p)
    <3>1. pc'[p] \notin Resending \cup Published
      BY <2>2 DEF TimerFires, LoopExits, FlushOnce, CurrentConfig, Push, Pop, SendSettles, SendFails,
         ResendFails, WriteTemp, DrainOnce, LoadFails, Forget, NextEntry, AfterFlush, AfterDrain, Goto,
         TypeOK, Resending, Published
    <3> QED BY <2>0, <2>1, <3>1, HandFree DEF HandsMatchDisk
  <2>3. CASE StoreRefused(p) \/ StoreFails(p) \/ PruneFails(p)
    <3>1. pc'[p] \notin Resending \cup Published
      BY <2>3 DEF StoreRefused, StoreFails, PruneFails, Requeue, AfterFlush, Goto, TypeOK,
         Resending, Published
    <3> QED BY <2>0, <2>1, <3>1, HandFree DEF HandsMatchDisk
  <2>4. CASE Prune(p) \/ Evict(p)
    <3>1. CASE pc'[p] \notin Published
      <4>1. pc'[p] \notin Resending \cup Published
        BY <2>4, <3>1 DEF Prune, Evict, Goto, TypeOK, Resending, Published
      <4> QED BY <2>0, <2>1, <4>1, HandFree DEF HandsMatchDisk
    <3>2. CASE pc'[p] \in Published
      <4>1. pc[p] \in Published /\ batch'[p] = batch[p] /\ pc'[p] \notin Resending
            /\ pc'[p] # "forget"
        BY <2>4, <3>2 DEF Prune, Evict, Goto, TypeOK, Published, Resending
      <4>2. OnDisk \subseteq OnDisk' \cup Settled' /\ Settled \subseteq Settled'
        BY <1>0 DEF OnDisk, SamplesOf, DiskStep
      <4>3. ToSet(batch'[p]) \subseteq OnDisk' \cup Settled'
        BY <4>1, <4>2 DEF HandsMatchDisk, HandMatchesDisk
      <4>4. HandMatchesDisk(p)'
        BY <2>0, <4>1, <4>3 DEF HandMatchesDisk, Temporary
      <4> QED BY <2>1, <4>4 DEF HandsMatchDisk
    <3> QED BY <3>1, <3>2
  <2>5. CASE Publish(p)
    <3>1. Oldest(paths[p]) \in DOMAIN spool' /\ spool'[Oldest(paths[p])].batch = batch[p]
          /\ batch' = batch /\ pc'[p] = "rescan"
      BY <2>5 DEF Publish, With, Goto, TypeOK
    <3>2. ToSet(batch'[p]) \subseteq OnDisk'
      BY <3>1 DEF OnDisk, SamplesOf
    <3>3. HandMatchesDisk(p)'
      BY <2>0, <3>1, <3>2 DEF HandMatchesDisk, Temporary, Resending
    <3> QED BY <2>1, <3>3 DEF HandsMatchDisk
  <2>6. CASE Load(p)
    <3>1. /\ paths' = paths /\ spool' = spool /\ clock' = clock
          /\ Oldest(paths[p]) \in DOMAIN spool
          /\ batch'[p] = spool[Oldest(paths[p])].batch
          /\ pc'[p] = "resend"
      BY <2>6 DEF Load, Goto, TypeOK, disk
    <3>2. Oldest(paths[p]) \in 1..clock
      BY <3>1 DEF TypeOK
    <3>3. HandMatchesDisk(p)'
      BY <3>1, <3>2 DEF HandMatchesDisk, Published, Oldest
    <3> QED BY <2>1, <3>3 DEF HandsMatchDisk
  <2>7. CASE ResendSettles(p)
    <3>1. PICK r \in SendResults(cfg[p].token, SendFaults) :
            ~IsTemporary(r.answer) /\ Receive(ToSet(batch[p]), r) /\ Settle(ToSet(batch[p]), r)
      BY <2>7 DEF ResendSettles
    <3>2. ToSet(batch[p]) \subseteq Settled'
      BY <3>1, SettleFacts
    <3>3. /\ UNCHANGED <<spool, clock, batch, paths>>
          /\ pc[p] = "resend" /\ pc'[p] = "forget"
      BY <2>7 DEF ResendSettles, Goto, TypeOK, disk
    <3>4. HandMatchesDisk(p)'
      BY <3>2, <3>3 DEF HandsMatchDisk, HandMatchesDisk, Oldest, Resending, Published
    <3> QED BY <2>1, <3>4 DEF HandsMatchDisk
  <2> QED
    BY <1>3, <2>2, <2>3, <2>4, <2>5, <2>6, <2>7 DEF Step, FlushStep, DrainStep
<1> QED
  BY <1>1, <1>2, <1>3 DEF Next, Collect, Reload, Stop, Restart, Corrupt, vars

\* The file drainOnce deletes has the contents it sent, and a batch renamed
\* into the spool is there or settled, however goroutines interleave.
THEOREM HandsCorrect == Spec => []HandsMatchDisk
<1>1. Init => HandsMatchDisk
  BY DEF Init, HandsMatchDisk, HandMatchesDisk, Resending, Published
<1>2. TypeOK /\ Listed /\ HandsMatchDisk /\ [Next]_vars => HandsMatchDisk'
  BY NextHands
<1> QED BY <1>1, <1>2, TypeCorrect, AlwaysListed, PTL DEF Spec

-----------------------------------------------------------------------------
(* The promise of Ledger, and that nothing vanishes. *)

\* The memory one goroutine answers for: its hands and the shared queue.
Hands(p) == IF pc[p] \in Holding THEN ToSet(batch[p]) ELSE {}
Own(p) == ToSet(queue) \cup Hands(p)

\* All memory is the queue and the hands.
LEMMA MemoryIsHands == InMemory = ToSet(queue) \cup UNION {Hands(p) : p \in Procs}
BY DEF InMemory, Hands

\* A step of p moves snapshots only within p's reach.
LEMMA MemoryMoves ==
    ASSUME NEW p \in Procs,
           \A q \in Procs \ {p} : pc'[q] = pc[q] /\ batch'[q] = batch[q]
    PROVE  /\ InMemory \subseteq InMemory' \cup Own(p)
           /\ InMemory' \subseteq InMemory \cup Own(p)'
           /\ Own(p) \subseteq InMemory
           /\ Own(p)' \subseteq InMemory'
<1>1. InMemory = ToSet(queue) \cup UNION {Hands(q) : q \in Procs}
  BY DEF InMemory, Hands
<1>2. InMemory' = ToSet(queue') \cup UNION {Hands(q)' : q \in Procs}
  BY DEF InMemory, Hands
<1>3. \A q \in Procs \ {p} : Hands(q)' = Hands(q)
  BY DEF Hands
<1> QED BY <1>1, <1>2, <1>3 DEF Own

\* What a step of p does with the snapshots in p's reach, unless it takes a
\* new one: none is added, and one that goes is on disk or settled.
LEMMA OwnStep ==
    ASSUME TypeOK, HandsMatchDisk, DiskStep, NEW p \in Procs, Step(p),
           captured' = captured
    PROVE  /\ Own(p)' \subseteq Own(p)
           /\ Own(p) \subseteq Own(p)' \cup OnDisk' \cup Settled'
<1>1. CASE TimerFires(p) \/ LoopExits(p)
  BY <1>1, Empty DEF TimerFires, LoopExits, Goto, Own, Hands, TypeOK, pipeline, Holding, Storing, Published
<1>2. CASE FlushOnce(p)
  <2>1. ~dirty
    BY <1>2 DEF FlushOnce, CurrentConfig, TypeOK
  <2> QED
    BY <1>2, <2>1 DEF FlushOnce, CurrentConfig, Goto, Own, Hands, TypeOK, Holding, Storing, Published
<1>3. CASE Push(p)
  <2>1. /\ pc[p] \in Holding /\ pc'[p] \notin Holding /\ queue' = queue \o batch[p]
    BY <1>3 DEF Push, Goto, TypeOK, Holding, Storing, Published
  <2> QED BY <2>1, Join DEF Own, Hands, TypeOK, Taken
<1>4. CASE Pop(p)
  <2>1. CASE queue = <<>>
    BY <1>4, <2>1 DEF Pop, AfterFlush, Goto, Own, Hands, TypeOK, Holding, Storing, Published
  <2>2. CASE queue # <<>>
    <3> DEFINE n == Smaller(cfg[p].batchSize, Len(queue))
    <3>1. n \in 0..Len(queue)
      BY ConfigsAssumption DEF TypeOK, Taken, Smaller, ConfigType
    <3>2. /\ batch'[p] = SubSeq(queue, 1, n)
          /\ queue' = SubSeq(queue, n + 1, Len(queue))
          /\ pc[p] \notin Holding /\ pc'[p] \in Holding
      BY <1>4, <2>2 DEF Pop, Goto, TypeOK, Holding, Storing, Published
    <3>3. ToSet(queue) = ToSet(batch'[p]) \cup ToSet(queue')
      BY <3>1, <3>2, Split DEF TypeOK, Taken
    <3> QED BY <3>2, <3>3 DEF Own, Hands
  <2> QED BY <2>1, <2>2
<1>5. CASE SendSettles(p)
  <2>1. PICK r \in SendResults(cfg[p].token, SendFaults) :
          ~IsTemporary(r.answer) /\ Receive(ToSet(batch[p]), r) /\ Settle(ToSet(batch[p]), r)
    BY <1>5 DEF SendSettles
  <2>2. ToSet(batch[p]) \subseteq Settled'
    BY <2>1, SettleFacts
  <2>3. queue' = queue /\ pc'[p] \notin Holding
    BY <1>5 DEF SendSettles, Goto, TypeOK, pipeline, Holding, Storing, Published
  <2> QED BY <2>2, <2>3 DEF Own, Hands
<1>6. CASE SendFails(p)
  BY <1>6 DEF SendFails, Goto, Own, Hands, TypeOK, pipeline, Holding, Storing
<1>7. CASE StoreRefused(p) \/ StoreFails(p) \/ PruneFails(p)
  <2>1. /\ pc[p] \in Holding /\ pc'[p] \notin Holding /\ queue' = batch[p] \o queue
    BY <1>7 DEF StoreRefused, StoreFails, PruneFails, Requeue, AfterFlush, Goto, TypeOK,
       Holding, Storing, Published
  <2> QED BY <2>1, Join DEF Own, Hands, TypeOK, Taken
<1>8. CASE Prune(p) \/ Evict(p)
  <2>1. CASE batch' = batch /\ pc'[p] \in Holding
    BY <1>8, <2>1 DEF Prune, Evict, Own, Hands, TypeOK, pipeline, Holding, Storing, Published
  <2>2. CASE pc[p] \in Published /\ pc'[p] \notin Holding
    <3>1. OnDisk \subseteq OnDisk' \cup Settled' /\ Settled \subseteq Settled'
      BY DEF OnDisk, SamplesOf, DiskStep
    <3>2. ToSet(batch[p]) \subseteq OnDisk' \cup Settled'
      BY <2>2, <3>1 DEF HandsMatchDisk, HandMatchesDisk
    <3>3. queue' = queue
      BY <1>8 DEF Prune, Evict, pipeline
    <3> QED BY <2>2, <3>2, <3>3 DEF Own, Hands
  <2>3. \/ batch' = batch /\ pc'[p] \in Holding
        \/ pc[p] \in Published /\ pc'[p] \notin Holding
    BY <1>8 DEF Prune, Evict, Goto, TypeOK, Holding, Storing, Published
  <2> QED BY <2>1, <2>2, <2>3
<1>9. CASE WriteTemp(p) \/ Publish(p)
  BY <1>9 DEF WriteTemp, Publish, Goto, Own, Hands, TypeOK, pipeline, Holding, Storing, Published
<1>10. CASE \/ DrainOnce(p) \/ Load(p) \/ LoadFails(p) \/ Forget(p)
            \/ ResendSettles(p) \/ ResendFails(p)
  BY <1>10 DEF DrainOnce, CurrentConfig, Load, LoadFails, Forget, ResendSettles, ResendFails, NextEntry,
     AfterDrain, Goto, Own, Hands, TypeOK, pipeline, Holding, Storing, Published
<1> QED
  BY <1>1, <1>2, <1>3, <1>4, <1>5, <1>6, <1>7, <1>8, <1>9, <1>10 DEF Step, FlushStep, DrainStep

\* Only Publish adds a file.
LEMMA FilesGo ==
    ASSUME TypeOK, NEW p \in Procs, Step(p), ~Publish(p)
    PROVE  DOMAIN spool' \subseteq DOMAIN spool
BY DEF Step, FlushStep, DrainStep, TimerFires, LoopExits, FlushOnce, CurrentConfig, Push, Pop,
   SendSettles, SendFails, StoreRefused, StoreFails, PruneFails, Requeue, Prune, Evict,
   WriteTemp, DrainOnce, Load, LoadFails, ResendSettles, ResendFails, Forget, Without, disk

\* Every file of the spool was in memory or on disk before.
LEMMA FilesCome ==
    ASSUME TypeOK, DiskStep, NEW p \in Procs, Step(p)
    PROVE  OnDisk' \subseteq Held
<1>1. CASE Publish(p)
  <2>1. \A st \in DOMAIN spool' :
          spool'[st].batch = batch[p] \/ (st \in DOMAIN spool /\ spool'[st] = spool[st])
    <3> DEFINE st  == Oldest(paths[p])
               new == [dir |-> cfg[p].dir, batch |-> batch[p], intact |-> TRUE,
                       overtaken |-> clock # st]
    <3>1. spool' = With(st, new) /\ new.batch = batch[p]
      BY <1>1 DEF Publish
    <3> HIDE DEF new, st
    <3>2. /\ DOMAIN spool' = DOMAIN spool \cup {st}
          /\ \A x \in DOMAIN spool' : spool'[x] = IF x = st THEN new ELSE spool[x]
      BY <3>1 DEF With
    <3>3. ASSUME NEW x \in DOMAIN spool', x = st PROVE spool'[x].batch = batch[p]
      BY <3>1, <3>2, <3>3
    <3>4. ASSUME NEW x \in DOMAIN spool', x # st
          PROVE  x \in DOMAIN spool /\ spool'[x] = spool[x]
      BY <3>2, <3>4
    <3> QED BY <3>3, <3>4
  <2>2. ToSet(batch[p]) \subseteq InMemory
    BY <1>1 DEF Publish, InMemory, Holding, Storing
  <2> QED BY <2>1, <2>2 DEF Held, OnDisk, SamplesOf
<1>2. CASE ~Publish(p)
  <2>1. DOMAIN spool' \subseteq DOMAIN spool
    BY <1>2, FilesGo
  <2> QED BY <2>1 DEF Held, OnDisk, SamplesOf, DiskStep
<1> QED BY <1>1, <1>2

\* Only the step that pops the cache takes a snapshot.
LEMMA StepCaptures ==
    ASSUME TypeOK, NEW p \in Procs, Step(p)
    PROVE  \/ captured' = captured
           \/ FlushOnce(p) /\ dirty
<1>1. CASE FlushOnce(p)
  BY <1>1 DEF FlushOnce, TypeOK
<1>2. CASE TimerFires(p) \/ LoopExits(p) \/ Push(p) \/ Pop(p)
  BY <1>2 DEF TimerFires, LoopExits, Push, Pop, pipeline
<1>3. CASE SendSettles(p) \/ SendFails(p) \/ StoreRefused(p) \/ StoreFails(p) \/ PruneFails(p)
  BY <1>3 DEF SendSettles, SendFails, StoreRefused, StoreFails, PruneFails, Requeue, pipeline
<1>4. CASE Prune(p) \/ Evict(p) \/ WriteTemp(p) \/ Publish(p)
  BY <1>4 DEF Prune, Evict, WriteTemp, Publish, pipeline
<1>5. CASE \/ DrainOnce(p) \/ Load(p) \/ LoadFails(p)
            \/ ResendSettles(p) \/ ResendFails(p) \/ Forget(p)
  BY <1>5 DEF DrainOnce, Load, LoadFails, ResendSettles, ResendFails, Forget, pipeline
<1> QED
  BY <1>1, <1>2, <1>3, <1>4, <1>5 DEF Step, FlushStep, DrainStep

\* The accounts only grow.
LEMMA AccountsGrow ==
    ASSUME TypeOK, [Next]_vars
    PROVE  delivered \subseteq delivered' /\ writtenOff \subseteq writtenOff' /\ lost \subseteq lost'
<1>1. CASE UNCHANGED vars \/ Collect \/ Reload \/ Stop \/ Restart \/ Corrupt \/ Exit \/ Crash
  BY <1>1 DEF Collect, Reload, Stop, Exit, Crash, ProcessEnds, Restart, Corrupt, ledger, vars
<1>2. ASSUME NEW p \in Procs, Step(p)
      PROVE  delivered \subseteq delivered' /\ writtenOff \subseteq writtenOff' /\ lost \subseteq lost'
  <2>1. CASE TimerFires(p) \/ LoopExits(p) \/ FlushOnce(p) \/ Push(p) \/ Pop(p)
    BY <2>1 DEF TimerFires, LoopExits, FlushOnce, Push, Pop, ledger
  <2>2. CASE SendSettles(p) \/ SendFails(p) \/ ResendSettles(p) \/ ResendFails(p)
    BY <2>2 DEF SendSettles, SendFails, ResendSettles, ResendFails, Receive, Settle
  <2>3. CASE StoreRefused(p) \/ StoreFails(p) \/ PruneFails(p) \/ WriteTemp(p) \/ Publish(p)
    BY <2>3 DEF StoreRefused, StoreFails, PruneFails, Requeue, WriteTemp, Publish, ledger
  <2>4. CASE Prune(p) \/ Evict(p)
    BY <2>4 DEF Prune, Evict
  <2>5. CASE DrainOnce(p) \/ Load(p) \/ LoadFails(p) \/ Forget(p)
    BY <2>5 DEF DrainOnce, Load, LoadFails, Forget, ledger
  <2> QED BY <1>2, <2>1, <2>2, <2>3, <2>4, <2>5 DEF Step, FlushStep, DrainStep
<1> QED BY <1>1, <1>2 DEF Next

LEMMA NextPromise ==
    ASSUME TypeOK, TypeOK', HandsMatchDisk, [Next]_vars
    PROVE  Promise!Capture \/ Promise!Settle
<1>0. DiskStep
  BY NextDisk
<1>1. ASSUME captured' = captured, Held' \subseteq Held,
             Held \subseteq Held' \cup Settled'
      PROVE  Promise!Settle
  BY <1>1, AccountsGrow DEF Promise!Settle, Settled, TypeOK
<1>2. CASE UNCHANGED <<captured, queue, spool, pc, batch>>
  <2>1. InMemory' = InMemory /\ OnDisk' = OnDisk
    BY <1>2 DEF InMemory, OnDisk, SamplesOf
  <2> QED BY <1>1, <1>2, <2>1 DEF Held
<1>3. CASE Exit \/ Crash
  <2>1. /\ captured' = captured /\ spool' = spool
        /\ lost' = lost \cup (InMemory \ (OnDisk \cup delivered \cup writtenOff))
        /\ UNCHANGED <<delivered, writtenOff>>
        /\ queue' = <<>> /\ pc' = [p \in Procs |-> "asleep"]
    BY <1>3 DEF Exit, Crash, ProcessEnds, disk
  <2>2. InMemory' = {}
    BY <2>1, Empty DEF InMemory, Holding, Storing, Published
  <2>3. OnDisk' = OnDisk
    BY <2>1 DEF OnDisk, SamplesOf
  <2> QED BY <1>1, <2>1, <2>2, <2>3 DEF Held, Settled
<1>4. CASE Corrupt
  <2>1. UNCHANGED <<captured, queue, pc, batch>> /\ DOMAIN spool' = DOMAIN spool
    BY <1>4 DEF Corrupt, With, pipeline, locals
  <2>2. InMemory' = InMemory /\ OnDisk' = OnDisk
    BY <1>0, <2>1 DEF InMemory, OnDisk, SamplesOf, DiskStep
  <2> QED BY <1>1, <2>1, <2>2 DEF Held
<1>5. ASSUME NEW p \in Procs, Step(p) PROVE Promise!Capture \/ Promise!Settle
  <2>1. \A q \in Procs \ {p} : pc'[q] = pc[q] /\ batch'[q] = batch[q]
    BY <1>5, OthersUntouched
  <2>2. CASE captured' = captured
    <3>1. OnDisk' \subseteq Held
      BY <1>0, <1>5, FilesCome
    <3>2. OnDisk \subseteq OnDisk' \cup Settled'
      BY <1>0 DEF OnDisk, SamplesOf, DiskStep
    <3>3. /\ Own(p)' \subseteq Own(p)
          /\ Own(p) \subseteq Own(p)' \cup OnDisk' \cup Settled'
      BY <1>0, <1>5, <2>2, OwnStep
    <3>4. /\ InMemory \subseteq InMemory' \cup Own(p)
          /\ InMemory' \subseteq InMemory \cup Own(p)'
          /\ Own(p) \subseteq InMemory
          /\ Own(p)' \subseteq InMemory'
      BY <2>1, MemoryMoves
    <3>5. InMemory' \subseteq InMemory /\ InMemory \subseteq InMemory' \cup OnDisk' \cup Settled'
      BY <3>3, <3>4
    <3> QED BY <1>1, <2>2, <3>1, <3>2, <3>5 DEF Held
  <2>3. CASE FlushOnce(p) /\ dirty
    <3>1. /\ captured' = captured + 1 /\ batch'[p] = <<captured + 1>>
          /\ pc[p] \notin Holding /\ pc'[p] \in Holding
          /\ UNCHANGED <<queue, spool, delivered, writtenOff, lost>>
      BY <2>3 DEF FlushOnce, CurrentConfig, Goto, TypeOK, disk, ledger, Holding, Storing, Published
    <3>2. ToSet(batch'[p]) = {captured + 1}
      BY <3>1, Singleton DEF TypeOK
    <3>3. InMemory' = InMemory \cup {captured + 1}
      <4>1. Own(p) = ToSet(queue) /\ Own(p)' = ToSet(queue) \cup {captured + 1}
        BY <3>1, <3>2 DEF Own, Hands
      <4>2. ToSet(queue) \subseteq InMemory'
        BY <3>1 DEF InMemory
      <4> QED BY <2>1, <4>1, <4>2, MemoryMoves
    <3>4. OnDisk' = OnDisk
      BY <3>1 DEF OnDisk, SamplesOf
    <3> QED BY <3>1, <3>3, <3>4 DEF Promise!Capture, Held
  <2> QED BY <1>5, <2>2, <2>3, StepCaptures
<1> QED
  BY <1>2, <1>3, <1>4, <1>5 DEF Next, Collect, Reload, Stop, Restart, vars, pipeline, locals, disk

LEMMA InitPromise == Init => Promise!Init
<1> SUFFICES ASSUME Init PROVE Promise!Init
  OBVIOUS
<1>1. InMemory = {}
  BY Empty DEF Init, InMemory, Holding, Storing, Published
<1>2. OnDisk = {}
  BY DEF Init, OnDisk, SamplesOf
<1> QED BY <1>1, <1>2 DEF Init, Held, Promise!Init

\* Delivery implements Ledger: in whatever order goroutines flush, drain and
\* prune, and wherever the process stops or dies, a snapshot leaves the
\* agent's hands only when it is delivered, written off or lost with the
\* process, and no snapshot comes back (agent.go:291-367, spool.go:44-180).
THEOREM PromiseKept == Spec => KeepsPromise
<1>1. Init => Promise!Init
  BY InitPromise
<1>2. TypeOK /\ TypeOK' /\ HandsMatchDisk /\ [Next]_vars => [Promise!Next]_(Promise!vars)
  BY NextPromise DEF Promise!Next
<1> QED
  BY <1>1, <1>2, TypeCorrect, HandsCorrect, PTL DEF Spec, KeepsPromise, Promise!Spec

\* No snapshot vanishes: it is held, accepted or given up (agent.go:291-367).
THEOREM NothingLost == Spec => []NothingVanishes
<1>1. Init => NothingVanishes
  BY DEF Init, NothingVanishes
<1>2. TypeOK /\ TypeOK' /\ HandsMatchDisk /\ NothingVanishes /\ [Next]_vars => NothingVanishes'
  <2> SUFFICES ASSUME TypeOK, TypeOK', HandsMatchDisk, NothingVanishes, [Next]_vars
               PROVE  NothingVanishes'
    OBVIOUS
  <2>1. CASE Promise!Capture
    BY <2>1 DEF Promise!Capture, NothingVanishes, TypeOK
  <2>2. CASE Promise!Settle
    BY <2>2 DEF Promise!Settle, NothingVanishes
  <2> QED BY <2>1, <2>2, NextPromise
<1> QED
  BY <1>1, <1>2, TypeCorrect, HandsCorrect, PTL DEF Spec

-----------------------------------------------------------------------------
(* The shutdown leaves no snapshot in memory. *)

\* A batch that is being sent or stored has at most batchSize snapshots.
Fits ==
    \A p \in Procs :
        pc[p] \in {"send"} \cup Storing => Len(batch[p]) <= cfg[p].batchSize

LEMMA NextFits == TypeOK /\ Fits /\ [Next]_vars => Fits'
<1> SUFFICES ASSUME TypeOK, Fits, [Next]_vars PROVE Fits'
  OBVIOUS
<1>1. CASE UNCHANGED locals
  BY <1>1 DEF Fits, locals
<1>2. CASE Exit \/ Crash
  BY <1>2 DEF Exit, Crash, ProcessEnds, Fits, Storing
<1>3. ASSUME NEW p \in Procs, Step(p) PROVE Fits'
  <2>1. \A q \in Procs \ {p} : pc'[q] = pc[q] /\ batch'[q] = batch[q] /\ cfg'[q] = cfg[q]
    BY <1>3, OthersUntouched
  <2>2. SUFFICES ASSUME pc'[p] \in {"send"} \cup Storing
                 PROVE  Len(batch'[p]) <= cfg'[p].batchSize
    BY <2>1 DEF Fits
  <2>3. CASE Pop(p)
    <3> DEFINE n == Smaller(cfg[p].batchSize, Len(queue))
    <3>1. /\ queue # <<>> /\ cfg' = cfg
          /\ batch'[p] = SubSeq(queue, 1, n)
      BY <2>2, <2>3 DEF Pop, AfterFlush, Goto, TypeOK, Storing
    <3>2. n \in 0..Len(queue) /\ n <= cfg[p].batchSize
      BY ConfigsAssumption DEF TypeOK, Taken, Smaller, ConfigType
    <3>3. Len(SubSeq(queue, 1, n)) = n
      BY <3>2, SubSeqProperties DEF TypeOK, Taken
    <3> QED BY <3>1, <3>2, <3>3
  <2>4. CASE SendFails(p) \/ Prune(p) \/ Evict(p) \/ WriteTemp(p)
    <3>1. /\ pc[p] \in {"send"} \cup Storing /\ cfg' = cfg /\ batch'[p] = batch[p]
      BY <2>2, <2>4 DEF SendFails, Prune, Evict, WriteTemp, Goto, TypeOK, Storing
    <3> QED BY <3>1 DEF Fits
  <2>5. Pop(p) \/ SendFails(p) \/ Prune(p) \/ Evict(p) \/ WriteTemp(p)
    BY <1>3, <2>2 DEF Step, FlushStep, DrainStep, TimerFires, LoopExits, FlushOnce, CurrentConfig, Push,
       SendSettles, StoreRefused, StoreFails, PruneFails, Requeue, Publish, DrainOnce, Load,
       LoadFails, ResendSettles, ResendFails, Forget, NextEntry, AfterFlush, AfterDrain,
       Goto, TypeOK, Storing
  <2> QED BY <2>3, <2>4, <2>5
<1> QED
  BY <1>1, <1>2, <1>3 DEF Next, Collect, Reload, Stop, Restart, Corrupt, vars

\* The flushers that will come back to the queue.
Working(p) == pc[p] \in {"pop", "send"} \cup Storing \cup Published

\* A batch that fits is stored, and none goes back to the queue.
LEMMA NeverRequeued ==
    ASSUME TypeOK, Fits, StoreReliable, NEW p \in Procs
    PROVE  ~StoreRefused(p) /\ ~StoreFails(p) /\ ~PruneFails(p)
<1>1. ~StoreRefused(p)
  BY ConfigsAssumption DEF StoreRefused, Storable, StoreReliable, Fits, TypeOK, Storing, ConfigType,
     Taken
<1>2. ~StoreFails(p) /\ ~PruneFails(p)
  BY DEF StoreFails, PruneFails, StoreReliable
<1> QED BY <1>1, <1>2

\* When Store cannot fail, a flusher leaves deliverQueued only over an empty
\* queue.
LEMMA LeavesEmpty ==
    ASSUME TypeOK, Fits, StoreReliable, NEW p \in Procs, Step(p),
           queue' # <<>>, ~Working(p)'
    PROVE  ~Working(p) /\ queue' = queue
<1>1. ~StoreRefused(p) /\ ~StoreFails(p) /\ ~PruneFails(p)
  BY NeverRequeued
<1>2. CASE \/ TimerFires(p) \/ LoopExits(p) \/ FlushOnce(p) \/ DrainOnce(p) \/ Load(p)
           \/ LoadFails(p) \/ ResendSettles(p) \/ ResendFails(p) \/ Forget(p)
  BY <1>2 DEF TimerFires, LoopExits, FlushOnce, CurrentConfig, DrainOnce, Load, LoadFails, ResendSettles,
     ResendFails, Forget, Working, Storing, Published, pipeline
<1>3. CASE \/ Push(p) \/ Pop(p) \/ SendSettles(p) \/ SendFails(p)
           \/ Prune(p) \/ Evict(p) \/ WriteTemp(p) \/ Publish(p)
  BY <1>3 DEF Push, Pop, SendSettles, SendFails, Prune, Evict, WriteTemp, Publish, Goto, Working,
     TypeOK, Storing, Published
<1> QED BY <1>1, <1>2, <1>3 DEF Step, FlushStep, DrainStep

\* Only flushers flush.
FlushersOnly == \A p \in Procs : Working(p) \/ pc[p] = "push" => p \in Flushers

LEMMA NextFlushers == TypeOK /\ FlushersOnly /\ [Next]_vars => FlushersOnly'
<1> SUFFICES ASSUME TypeOK, FlushersOnly, [Next]_vars PROVE FlushersOnly'
  OBVIOUS
<1>1. CASE UNCHANGED locals
  BY <1>1 DEF FlushersOnly, Working, locals
<1>2. CASE Exit \/ Crash
  BY <1>2 DEF Exit, Crash, ProcessEnds, FlushersOnly, Working, Storing, Published
<1>3. ASSUME NEW p \in Procs, Step(p) PROVE FlushersOnly'
  <2>1. \A q \in Procs \ {p} : pc'[q] = pc[q]
    BY <1>3, OthersUntouched
  <2>2. p \in Flushers \/ ~(Working(p)' \/ pc'[p] = "push")
    BY <1>3 DEF Step, DrainStep, TimerFires, LoopExits, DrainOnce, Load, LoadFails,
       ResendSettles, ResendFails, Forget, NextEntry, AfterDrain, Goto, TypeOK, Working,
       Storing, Published
  <2> QED BY <2>1, <2>2 DEF FlushersOnly, Working
<1> QED
  BY <1>1, <1>2, <1>3 DEF Next, Collect, Reload, Stop, Restart, Corrupt, vars

LEMMA NextEmpties ==
    ASSUME TypeOK, Fits, FlushersOnly, FlushersOnly', ShutdownEmptiesQueue, [Next]_vars
    PROVE  ShutdownEmptiesQueue'
<1> SUFFICES ASSUME StoreReliable
             PROVE  /\ queue' # <<>> => \E p \in Flushers : Working(p)'
                    /\ Faults \cap {"crash", "redirect"} = {} => lost' = {}
  BY DEF ShutdownEmptiesQueue, StoreReliable, Working
<1>0. /\ queue # <<>> => \E p \in Flushers : Working(p)
      /\ Faults \cap {"crash", "redirect"} = {} => lost = {}
  BY DEF ShutdownEmptiesQueue, Working
<1>1. CASE UNCHANGED <<queue, pc, lost>>
  BY <1>0, <1>1 DEF Working
<1>2. CASE Crash
  BY <1>2 DEF Crash, ProcessEnds
<1>3. CASE Exit
  <2>1. \A p \in Procs : pc[p] \in {"waiting", "exited"}
    BY <1>3 DEF Exit, Procs, Flushers, Drainers
  <2>2. queue = <<>>
    BY <1>0, <2>1 DEF Working, Storing, Published, Procs
  <2>3. InMemory = {}
    BY <2>1, <2>2, Empty DEF InMemory, Holding, Storing, Published
  <2> QED BY <1>0, <1>3, <2>3 DEF Exit, ProcessEnds
<1>4. ASSUME NEW p \in Procs, Step(p)
      PROVE  /\ queue' # <<>> => \E q \in Flushers : Working(q)'
             /\ Faults \cap {"crash", "redirect"} = {} => lost' = {}
  <2>1. \A q \in Procs \ {p} : pc'[q] = pc[q]
    BY <1>4, OthersUntouched
  <2>2. "redirect" \notin Faults => lost' = lost
    <3>1. CASE SendSettles(p) \/ ResendSettles(p)
      <4>1. PICK r \in SendResults(cfg[p].token, SendFaults) :
              ~IsTemporary(r.answer) /\ Receive(ToSet(batch[p]), r) /\ Settle(ToSet(batch[p]), r)
        BY <3>1 DEF SendSettles, ResendSettles
      <4> QED BY <4>1, SettleFacts, FaultsOfSends
    <3>2. CASE ~(SendSettles(p) \/ ResendSettles(p))
      BY <1>4, <3>2 DEF Step, FlushStep, DrainStep, TimerFires, LoopExits, FlushOnce, Push, Pop,
         SendFails, StoreRefused, StoreFails, PruneFails, Requeue, Prune, Evict, WriteTemp,
         Publish, DrainOnce, Load, LoadFails, ResendFails, Forget, ledger
    <3> QED BY <3>1, <3>2
  <2>3. ASSUME queue' # <<>> PROVE \E q \in Flushers : Working(q)'
    <3>1. CASE Working(p)'
      BY <3>1 DEF FlushersOnly
    <3>2. CASE ~Working(p)'
      <4>1. ~Working(p) /\ queue # <<>>
        BY <1>4, <2>3, <3>2, LeavesEmpty
      <4> QED BY <1>0, <2>1, <4>1 DEF Working, Procs
    <3> QED BY <3>1, <3>2
  <2> QED BY <1>0, <2>2, <2>3
<1> QED
  BY <1>1, <1>2, <1>3, <1>4 DEF Next, Collect, Reload, Stop, Restart, Corrupt, vars, pipeline,
     locals, ledger

\* When batches can always be stored, the process that is told to stop, or
\* that has stopped, has left nothing behind in memory (agent.go:128-135).
THEOREM QueueEmptied == Spec => []ShutdownEmptiesQueue
<1>1. Init => Fits /\ FlushersOnly /\ ShutdownEmptiesQueue
  BY DEF Init, Fits, FlushersOnly, Working, ShutdownEmptiesQueue, Storing, Published
<1>2. TypeOK /\ Fits /\ FlushersOnly /\ ShutdownEmptiesQueue /\ [Next]_vars
        => Fits' /\ FlushersOnly' /\ ShutdownEmptiesQueue'
  BY NextFits, NextFlushers, NextEmpties
<1> QED BY <1>1, <1>2, TypeCorrect, PTL DEF Spec

=============================================================================
