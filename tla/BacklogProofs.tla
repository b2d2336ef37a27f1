---------------------------- MODULE BacklogProofs ----------------------------
(***************************************************************************)
(* The backlog of Delivery: it stays in the order of capture, no snapshot  *)
(* is sent again once it is answered for but in a shutdown, the spool is   *)
(* pruned to its bound and not below it but for files that a shutdown has  *)
(* overtaken, the queue stays short, and no turn goes on for ever.         *)
(* Each holds for every set of configurations, every bound and the sets of *)
(* faults that the property names.                                         *)
(***************************************************************************)
EXTENDS DeliveryProofs, FiniteSetTheorems, WellFoundedInduction

-----------------------------------------------------------------------------
(* The order of the backlog. *)

Rising(s) == \A i, j \in 1..Len(s) : i < j => s[i] < s[j]

\* What the flush loop has in hand, and what of it is not on disk yet.
FlushHand  == IF pc["flush"] \in Holding THEN batch["flush"] ELSE <<>>
Unsaved(p) == IF pc[p] \in Holding \ Published THEN batch[p] ELSE <<>>
UnsavedHand == Unsaved("flush")

\* With nobody else to touch the queue, memory keeps the order of capture.
MemoryInOrder ==
    IF pc["flush"] = "push"
    THEN batch["flush"] = <<captured>> /\ ToSet(queue) \subseteq 1..(captured - 1) /\ Rising(queue)
    ELSE Rising(FlushHand) /\ Rising(queue) /\ Precedes(FlushHand, queue)

\* Main does not flush before the stop, so the temporary file of the flush loop
\* is the last written; and a process begins with nothing.
FlushesAlone ==
    /\ phase # "stopping" => pc["main"] = "asleep"
    /\ phase = "running" => MemoryInOrder
    /\ phase # "stopping" /\ pc["flush"] = "publish" => paths["flush"] = {clock}
    /\ phase = "down" => queue = <<>> /\ pc["flush"] = "asleep"

\* Files are older than later files and than what is in memory only.
SpoolBehind ==
    \A st \in DOMAIN spool :
        /\ \A later \in DOMAIN spool : st < later => Precedes(spool[st].batch, spool[later].batch)
        /\ Precedes(spool[st].batch, UnsavedHand) /\ Precedes(spool[st].batch, queue)

\* Where the elements of a concatenation come from.
LEMMA JoinPlaces ==
    ASSUME NEW s \in Seq(Nat), NEW t \in Seq(Nat)
    PROVE  LET st == s \o t IN
             /\ Len(st) = Len(s) + Len(t) /\ Len(s) \in Nat /\ Len(t) \in Nat
             /\ \A i \in 1..Len(s) : st[i] = s[i]
             /\ \A i \in 1..Len(t) : st[Len(s) + i] = t[i]
             /\ \A i \in (Len(s) + 1)..Len(st) : i - Len(s) \in 1..Len(t) /\ st[i] = t[i - Len(s)]
BY ConcatProperties

LEMMA RisingJoin ==
    ASSUME NEW s \in Seq(Nat), NEW t \in Seq(Nat)
    PROVE  Rising(s \o t) <=> Rising(s) /\ Rising(t) /\ Precedes(s, t)
<1> DEFINE st == s \o t
<1>1. /\ Len(st) = Len(s) + Len(t) /\ Len(s) \in Nat /\ Len(t) \in Nat
      /\ \A i \in 1..Len(s) : st[i] = s[i]
      /\ \A i \in 1..Len(t) : st[Len(s) + i] = t[i]
      /\ \A i \in (Len(s) + 1)..Len(st) : i - Len(s) \in 1..Len(t) /\ st[i] = t[i - Len(s)]
  BY JoinPlaces
<1>2. DOMAIN s = 1..Len(s) /\ DOMAIN t = 1..Len(t)
  OBVIOUS
<1>3. ASSUME Rising(st) PROVE Rising(s) /\ Rising(t) /\ Precedes(s, t)
  <2>1. Rising(s)
    <3> SUFFICES ASSUME NEW i \in 1..Len(s), NEW j \in 1..Len(s), i < j PROVE s[i] < s[j]
      BY DEF Rising
    <3>1. i \in 1..Len(st) /\ j \in 1..Len(st) /\ st[i] = s[i] /\ st[j] = s[j]
      BY <1>1
    <3> QED BY <1>3, <3>1 DEF Rising
  <2>2. Rising(t)
    <3> SUFFICES ASSUME NEW i \in 1..Len(t), NEW j \in 1..Len(t), i < j PROVE t[i] < t[j]
      BY DEF Rising
    <3>1. /\ Len(s) + i \in 1..Len(st) /\ Len(s) + j \in 1..Len(st) /\ Len(s) + i < Len(s) + j
          /\ st[Len(s) + i] = t[i] /\ st[Len(s) + j] = t[j]
      BY <1>1
    <3> QED BY <1>3, <3>1 DEF Rising
  <2>3. ASSUME NEW i \in 1..Len(s), NEW j \in 1..Len(t) PROVE s[i] < t[j]
    <3>1. /\ i \in 1..Len(st) /\ Len(s) + j \in 1..Len(st) /\ i < Len(s) + j
          /\ st[i] = s[i] /\ st[Len(s) + j] = t[j]
      BY <1>1
    <3> QED BY <1>3, <3>1 DEF Rising
  <2> QED BY <1>2, <2>1, <2>2, <2>3 DEF Precedes, ToSet
<1>4. ASSUME Rising(s), Rising(t), Precedes(s, t) PROVE Rising(st)
  <2> SUFFICES ASSUME NEW i \in 1..Len(st), NEW j \in 1..Len(st), i < j PROVE st[i] < st[j]
    BY DEF Rising
  <2>1. CASE i \in 1..Len(s) /\ j \in 1..Len(s)
    BY <1>1, <1>4, <2>1 DEF Rising
  <2>2. CASE i \in 1..Len(s) /\ j \in (Len(s) + 1)..Len(st)
    <3>1. st[i] \in ToSet(s) /\ st[j] \in ToSet(t)
      BY <1>1, <1>2, <2>2 DEF ToSet
    <3> QED BY <1>4, <3>1 DEF Precedes
  <2>3. CASE i \in (Len(s) + 1)..Len(st) /\ j \in (Len(s) + 1)..Len(st)
    <3>1. /\ i - Len(s) \in 1..Len(t) /\ j - Len(s) \in 1..Len(t) /\ i - Len(s) < j - Len(s)
          /\ st[i] = t[i - Len(s)] /\ st[j] = t[j - Len(s)]
      BY <1>1, <2>3
    <3> QED BY <1>4, <3>1 DEF Rising
  <2> QED BY <1>1, <2>1, <2>2, <2>3
<1> QED BY <1>3, <1>4

LEMMA NothingRises == Rising(<<>>) /\ \A s : Precedes(<<>>, s) /\ Precedes(s, <<>>)
BY Empty DEF Rising, Precedes

\* The front of a queue in order precedes the rest.
LEMMA RisingSplit ==
    ASSUME NEW s \in Seq(Nat), NEW n \in 0..Len(s), Rising(s)
    PROVE  /\ Rising(SubSeq(s, 1, n)) /\ Rising(SubSeq(s, n + 1, Len(s)))
           /\ Precedes(SubSeq(s, 1, n), SubSeq(s, n + 1, Len(s)))
<1> DEFINE front == SubSeq(s, 1, n)
           back  == SubSeq(s, n + 1, Len(s))
<1>1. front \in Seq(Nat) /\ back \in Seq(Nat)
  BY Split
<1>2. front \o back = s
  BY Halves
<1> HIDE DEF front, back
<1>3. Rising(front) /\ Rising(back) /\ Precedes(front, back)
  BY <1>1, <1>2, RisingJoin
<1> QED BY <1>3 DEF front, back

\* In BacklogInOrder, file by file.
LEMMA BacklogParts ==
    TypeOK => (BacklogInOrder <=>
                 /\ SpoolBehind
                 /\ pc["flush"] # "push" => Precedes(UnsavedHand, queue)
                 /\ Rising(queue))
<1> SUFFICES ASSUME TypeOK
             PROVE  BacklogInOrder <=>
                      /\ SpoolBehind
                      /\ pc["flush"] # "push" => Precedes(UnsavedHand, queue)
                      /\ Rising(queue)
  OBVIOUS
<1>1. UnsavedHand \in Seq(Nat) /\ queue \in Seq(Nat)
  BY Empty DEF UnsavedHand, Unsaved, TypeOK, Taken, Procs, Flushers
<1>2. \A s : Precedes(s, UnsavedHand \o queue) <=> Precedes(s, UnsavedHand) /\ Precedes(s, queue)
  BY <1>1, Join DEF Precedes
<1> HIDE DEF UnsavedHand
<1>3. BacklogInOrder <=>
        /\ \A st, later \in DOMAIN spool :
              /\ st < later => Precedes(spool[st].batch, spool[later].batch)
              /\ Precedes(spool[st].batch, UnsavedHand \o queue)
        /\ pc["flush"] # "push" => Precedes(UnsavedHand, queue)
        /\ \A i, j \in 1..Len(queue) : i < j => queue[i] < queue[j]
  BY DEF BacklogInOrder, UnsavedHand, Unsaved
<1>4. /\ \A st, later \in DOMAIN spool :
              /\ st < later => Precedes(spool[st].batch, spool[later].batch)
              /\ Precedes(spool[st].batch, UnsavedHand \o queue)
      <=> SpoolBehind
  BY <1>2 DEF SpoolBehind
<1> QED BY <1>3, <1>4 DEF Rising

\* A step of the flush loop keeps what it has in memory in order.
LEMMA FlushMemory ==
    ASSUME TypeOK, MemoryInOrder, Step("flush")
    PROVE  MemoryInOrder'
<1> DEFINE p == "flush"
<1> USE NothingRises
<1>0. p \in Procs /\ p \notin Drainers /\ p # "main" /\ queue \in Seq(Nat) /\ batch[p] \in Seq(Nat)
  BY DEF Procs, Flushers, Drainers, TypeOK, Taken
<1>1. CASE TimerFires(p) \/ LoopExits(p)
  BY <1>0, <1>1 DEF TimerFires, LoopExits, Goto, pipeline, MemoryInOrder, FlushHand, TypeOK,
     Holding, Storing, Published
<1>2. CASE FlushOnce(p)
  <2>0. Rising(queue) /\ queue' = queue
    BY <1>2 DEF FlushOnce, MemoryInOrder
  <2>1. CASE dirty
    <3>1. /\ captured' = captured + 1 /\ captured \in Nat
          /\ batch'[p] = <<captured + 1>> /\ pc'[p] = "push"
      BY <1>0, <1>2, <2>1 DEF FlushOnce, Goto, TypeOK
    <3>2. ToSet(queue') \subseteq 1..(captured' - 1)
      BY <2>0, <3>1 DEF TypeOK, Taken
    <3> QED BY <2>0, <3>1, <3>2 DEF MemoryInOrder
  <2>2. CASE ~dirty
    <3>1. pc'[p] = "pop"
      BY <1>0, <1>2, <2>2 DEF FlushOnce, Goto, TypeOK
    <3> QED BY <2>0, <3>1 DEF MemoryInOrder, FlushHand, Holding, Storing, Published
  <2> QED BY <2>1, <2>2
<1>3. CASE Push(p)
  <2>1. /\ batch[p] = <<captured>> /\ ToSet(queue) \subseteq 1..(captured - 1) /\ Rising(queue)
        /\ queue' = queue \o <<captured>> /\ pc'[p] = "pop" /\ captured \in Nat
    BY <1>0, <1>3 DEF Push, Goto, MemoryInOrder, TypeOK
  <2>2. /\ <<captured>> \in Seq(Nat) /\ Rising(<<captured>>) /\ Precedes(queue, <<captured>>)
    BY <2>1, Singleton DEF Rising, Precedes
  <2>3. Rising(queue')
    BY <1>0, <2>1, <2>2, RisingJoin
  <2> QED BY <2>1, <2>3 DEF MemoryInOrder, FlushHand, Holding, Storing, Published
<1>4. CASE Pop(p)
  <2>0. Rising(queue)
    BY <1>4 DEF Pop, MemoryInOrder
  <2>1. CASE queue = <<>>
    BY <1>0, <1>4, <2>0, <2>1 DEF Pop, AfterFlush, Goto, MemoryInOrder, FlushHand, TypeOK,
       Holding, Storing, Published
  <2>2. CASE queue # <<>>
    <3> DEFINE n == Smaller(cfg[p].batchSize, Len(queue))
    <3>1. n \in 0..Len(queue)
      BY <1>0, ConfigsAssumption DEF TypeOK, Taken, Smaller, ConfigType
    <3>2. /\ batch'[p] = SubSeq(queue, 1, n) /\ queue' = SubSeq(queue, n + 1, Len(queue))
          /\ pc'[p] = "send"
      BY <1>0, <1>4, <2>2 DEF Pop, Goto, TypeOK
    <3>3. Rising(batch'[p]) /\ Rising(queue') /\ Precedes(batch'[p], queue')
      BY <1>0, <2>0, <3>1, <3>2, RisingSplit
    <3> QED BY <3>2, <3>3 DEF MemoryInOrder, FlushHand, Holding
  <2> QED BY <2>1, <2>2
<1>5. CASE SendFails(p) \/ Prune(p) \/ Evict(p) \/ WriteTemp(p) \/ Publish(p)
  <2>1. /\ pc[p] \in Holding \ {"push"} /\ queue' = queue
        /\ pc'[p] # "push"
        /\ batch'[p] = batch[p] \/ pc'[p] \notin Holding
    BY <1>0, <1>5 DEF SendFails, Prune, Evict, WriteTemp, Publish, Goto, pipeline, TypeOK, Holding,
       Storing, Published
  <2> QED BY <2>1 DEF MemoryInOrder, FlushHand
<1>6. CASE SendSettles(p)
  <2>1. /\ pc[p] = "send" /\ queue' = queue /\ pc'[p] = "pop"
    BY <1>0, <1>6 DEF SendSettles, Goto, pipeline, TypeOK
  <2> QED BY <2>1 DEF MemoryInOrder, FlushHand, Holding, Storing, Published
<1>7. CASE StoreRefused(p) \/ StoreFails(p) \/ PruneFails(p)
  <2>1. /\ pc[p] \in Holding \ {"push"} /\ queue' = batch[p] \o queue /\ pc'[p] = "asleep"
    BY <1>0, <1>7 DEF StoreRefused, StoreFails, PruneFails, Requeue, AfterFlush, Goto, TypeOK,
       Holding, Storing, Published
  <2>2. Rising(batch[p]) /\ Rising(queue) /\ Precedes(batch[p], queue)
    BY <2>1 DEF MemoryInOrder, FlushHand
  <2>3. Rising(queue')
    BY <1>0, <2>1, <2>2, RisingJoin
  <2> QED BY <2>1, <2>3 DEF MemoryInOrder, FlushHand, Holding, Storing, Published
<1> QED BY <1>0, <1>1, <1>2, <1>3, <1>4, <1>5, <1>6, <1>7 DEF Step, FlushStep

\* The drain loop, and main while it sleeps, leave the flush loop's memory alone.
LEMMA OthersKeepMemory ==
    ASSUME TypeOK, NEW p \in Procs \ {"flush"}, Step(p), phase # "stopping",
           pc["main"] = "asleep"
    PROVE  /\ p = "drain" /\ ~Publish(p) /\ phase' = phase /\ pc'["main"] = "asleep"
           /\ UNCHANGED <<captured, queue, clock>>
           /\ pc'["flush"] = pc["flush"] /\ batch'["flush"] = batch["flush"]
           /\ paths'["flush"] = paths["flush"]
<1>1. p # "main"
  BY DEF Step, FlushStep, DrainStep, TimerFires, LoopExits, FlushOnce, Push, Pop, SendSettles,
     SendFails, StoreRefused, StoreFails, PruneFails, Prune, Evict, WriteTemp, Publish, DrainOnce, Load,
     LoadFails, ResendSettles, ResendFails, Forget, Published
<1>2. p = "drain" /\ p \notin Flushers /\ {"flush", "main", "drain"} \subseteq Procs
  BY <1>1 DEF Procs, Flushers, Drainers
<1> QED
  BY <1>2 DEF Step, DrainStep, TimerFires, LoopExits, DrainOnce, Load, LoadFails, ResendSettles,
     ResendFails, Forget, NextEntry, Goto, CurrentConfig, TypeOK, pipeline, disk, Publish

LEMMA NextAlone == TypeOK /\ FlushesAlone /\ [Next]_vars => FlushesAlone'
<1> SUFFICES ASSUME TypeOK, FlushesAlone, [Next]_vars PROVE FlushesAlone'
  OBVIOUS
<1>1. CASE UNCHANGED <<phase, captured, queue, pc, batch, paths, clock>>
  BY <1>1 DEF FlushesAlone, MemoryInOrder, FlushHand
<1>2. CASE Stop
  BY <1>2 DEF Stop, FlushesAlone, locals
<1>3. CASE Exit \/ Crash
  BY <1>3 DEF Exit, Crash, ProcessEnds, FlushesAlone, Procs, Flushers
<1>4. CASE Restart
  BY <1>4, NothingRises DEF Restart, FlushesAlone, MemoryInOrder, FlushHand, pipeline, locals, disk,
     Holding, Storing, Published
<1>5. ASSUME NEW p \in Procs, Step(p) PROVE FlushesAlone'
  <2>0. phase' = phase
    BY <1>5 DEF Step, FlushStep, DrainStep, TimerFires, LoopExits, FlushOnce, Push, Pop,
       SendSettles, SendFails, StoreRefused, StoreFails, PruneFails, Requeue, Prune, Evict,
       WriteTemp, Publish, DrainOnce, Load, LoadFails, ResendSettles, ResendFails, Forget
  <2>1. CASE phase = "stopping"
    BY <2>0, <2>1 DEF FlushesAlone
  <2>2. CASE phase # "stopping" /\ p # "flush"
    BY <1>5, <2>0, <2>2, OthersKeepMemory DEF FlushesAlone, MemoryInOrder, FlushHand
  <2>3. CASE phase = "running" /\ p = "flush"
    <3>1. MemoryInOrder'
      BY <1>5, <2>3, FlushMemory DEF FlushesAlone
    <3>2. pc'["main"] = pc["main"]
      <4>1. \A l : Goto("flush", l) => pc'["main"] = pc["main"]
        BY DEF Goto, TypeOK, Procs, Flushers
      <4> QED
        BY <1>5, <2>3, <4>1 DEF Step, FlushStep, TimerFires, LoopExits, FlushOnce, Push, Pop,
           SendSettles, SendFails, StoreRefused, StoreFails, PruneFails, Requeue, Prune, Evict,
           WriteTemp, Publish, Drainers
    <3>3. pc'["flush"] = "publish" => paths'["flush"] = {clock'}
      BY <1>5, <2>3, OnlyWriterHasTemporary DEF WriteTemp, TypeOK
    <3> QED BY <2>0, <2>3, <3>1, <3>2, <3>3 DEF FlushesAlone
  <2>4. ~(phase = "down" /\ p = "flush")
    BY <1>5 DEF FlushesAlone, Step, FlushStep, DrainStep, TimerFires, LoopExits, FlushOnce, Push,
       Pop, SendSettles, SendFails, StoreRefused, StoreFails, PruneFails, Prune, Evict, WriteTemp, Publish,
       Drainers, Published
  <2> QED BY <2>1, <2>2, <2>3, <2>4 DEF TypeOK
<1> QED
  BY <1>1, <1>2, <1>3, <1>4, <1>5 DEF Next, Collect, Reload, Corrupt, vars, pipeline, locals, disk

LEMMA Alone == Spec => []FlushesAlone
<1>1. Init => FlushesAlone
  BY NothingRises DEF Init, FlushesAlone, MemoryInOrder, FlushHand, Holding, Storing, Published,
     Procs, Flushers
<1>2. TypeOK /\ FlushesAlone /\ [Next]_vars => FlushesAlone'
  BY NextAlone
<1> QED BY <1>1, <1>2, TypeCorrect, PTL DEF Spec

\* What is in memory only: at most the snapshot just taken is new, unless
\* Prune fails after the rename.
LEMMA UnsavedStep ==
    ASSUME TypeOK, NEW p \in Procs, Step(p), ~(PruneFails(p) /\ pc[p] \in Published)
    PROVE  ToSet(Unsaved(p)') \cup ToSet(queue')
             \subseteq ToSet(Unsaved(p)) \cup ToSet(queue) \cup ((captured + 1)..captured')
<1> USE Empty
<1>0. queue \in Seq(Nat) /\ batch[p] \in Seq(Nat)
  BY DEF TypeOK, Taken
<1>1. CASE TimerFires(p) \/ LoopExits(p)
  BY <1>0, <1>1 DEF TimerFires, LoopExits, Goto, pipeline, Unsaved, TypeOK, Holding, Storing,
     Published
<1>2. CASE FlushOnce(p)
  <2>1. CASE dirty
    <3>1. /\ captured' = captured + 1 /\ captured \in Nat /\ queue' = queue
          /\ batch'[p] = <<captured + 1>> /\ pc'[p] = "push"
      BY <1>0, <1>2, <2>1 DEF FlushOnce, Goto, TypeOK
    <3>2. Unsaved(p)' = <<captured + 1>>
      BY <3>1 DEF Unsaved, Holding, Published
    <3> QED BY <3>1, <3>2, Singleton
  <2>2. CASE ~dirty
    BY <1>0, <1>2, <2>2 DEF FlushOnce, Goto, Unsaved, TypeOK, Holding, Storing, Published
  <2> QED BY <2>1, <2>2
<1>3. CASE Push(p)
  <2>1. /\ Unsaved(p) = batch[p] /\ Unsaved(p)' = <<>> /\ queue' = queue \o batch[p]
    BY <1>0, <1>3 DEF Push, Goto, Unsaved, TypeOK, Holding, Storing, Published
  <2> QED BY <1>0, <2>1, Join
<1>4. CASE Pop(p)
  <2>1. CASE queue = <<>>
    BY <1>0, <1>4, <2>1 DEF Pop, AfterFlush, Goto, Unsaved, TypeOK, Holding, Storing, Published
  <2>2. CASE queue # <<>>
    <3> DEFINE n == Smaller(cfg[p].batchSize, Len(queue))
    <3>1. n \in 0..Len(queue)
      BY <1>0, ConfigsAssumption DEF TypeOK, Taken, Smaller, ConfigType
    <3>2. /\ Unsaved(p)' = SubSeq(queue, 1, n) /\ queue' = SubSeq(queue, n + 1, Len(queue))
      BY <1>0, <1>4, <2>2 DEF Pop, Goto, Unsaved, TypeOK, Holding, Published
    <3> QED BY <1>0, <3>1, <3>2, Split
  <2> QED BY <2>1, <2>2
<1>5. CASE SendSettles(p) \/ SendFails(p) \/ Prune(p) \/ Evict(p) \/ WriteTemp(p) \/ Publish(p)
  <2>1. /\ queue' = queue
        /\ Unsaved(p)' = Unsaved(p) \/ Unsaved(p)' = <<>>
    BY <1>0, <1>5 DEF SendSettles, SendFails, Prune, Evict, WriteTemp, Publish, Goto, pipeline, Unsaved,
       TypeOK, Holding, Storing, Published
  <2> QED BY <2>1
<1>6. CASE StoreRefused(p) \/ StoreFails(p) \/ PruneFails(p)
  <2>1. /\ pc[p] \in Storing /\ queue' = batch[p] \o queue /\ pc'[p] \notin Holding
    BY <1>0, <1>6 DEF StoreRefused, StoreFails, PruneFails, Requeue, AfterFlush, Goto, TypeOK,
       Holding, Storing, Published
  <2>2. Unsaved(p) = batch[p] /\ Unsaved(p)' = <<>>
    BY <2>1 DEF Unsaved, Holding, Storing, Published
  <2> QED BY <1>0, <2>1, <2>2, Join
<1>7. CASE \/ DrainOnce(p) \/ Load(p) \/ LoadFails(p) \/ Forget(p)
           \/ ResendSettles(p) \/ ResendFails(p)
  <2>1. queue' = queue /\ Unsaved(p)' = <<>>
    BY <1>7 DEF DrainOnce, Load, LoadFails, Forget, ResendSettles, ResendFails, NextEntry, AfterDrain,
       Goto, Unsaved, TypeOK, pipeline, Holding, Storing, Published
  <2> QED BY <2>1
<1> QED BY <1>1, <1>2, <1>3, <1>4, <1>5, <1>6, <1>7 DEF Step, FlushStep, DrainStep

\* The files stay behind when none is added and memory gets only new snapshots.
LEMMA SpoolStaysBehind ==
    ASSUME TypeOK, TypeOK', DiskStep, SpoolBehind, DOMAIN spool' \subseteq DOMAIN spool,
           ToSet(UnsavedHand') \cup ToSet(queue')
             \subseteq ToSet(UnsavedHand) \cup ToSet(queue) \cup ((captured + 1)..captured')
    PROVE  SpoolBehind'
<1>1. \A st \in DOMAIN spool' : spool'[st].batch = spool[st].batch
  BY DEF DiskStep
<1>2. \A st \in DOMAIN spool : ToSet(spool[st].batch) \subseteq 1..captured
  BY DEF TypeOK, Taken
<1>3. captured \in Nat /\ captured' \in Nat
  BY DEF TypeOK
<1>4. \A st, later \in DOMAIN spool' :
         st < later => Precedes(spool'[st].batch, spool'[later].batch)
  BY <1>1 DEF SpoolBehind, Precedes
<1>5. ASSUME NEW st \in DOMAIN spool', NEW i \in ToSet(spool[st].batch),
             NEW j \in ToSet(UnsavedHand') \cup ToSet(queue')
      PROVE  i < j
  <2>1. CASE j \in ToSet(UnsavedHand) \cup ToSet(queue)
    BY <2>1 DEF SpoolBehind, Precedes
  <2>2. CASE j \in (captured + 1)..captured'
    BY <1>2, <1>3, <2>2
  <2> QED BY <2>1, <2>2
<1> QED BY <1>1, <1>4, <1>5 DEF SpoolBehind, Precedes

\* The same parts make the order after a step.
LEMMA BacklogAfter ==
    (TypeOK => (BacklogInOrder <=>
                  /\ SpoolBehind
                  /\ pc["flush"] # "push" => Precedes(UnsavedHand, queue)
                  /\ Rising(queue)))'
BY BacklogParts, PTL

\* What Publish adds to the spool: the temporary file, which is in no listing.
LEMMA Renamed ==
    ASSUME TypeOK, HandsMatchDisk, NEW p \in Procs, Publish(p)
    PROVE  \E st \in 1..clock :
             /\ paths[p] = {st} /\ st \notin DOMAIN spool
             /\ \A q \in Procs \ {p} : st \notin paths[q]
             /\ DOMAIN spool' = DOMAIN spool \cup {st}
             /\ \A x \in DOMAIN spool : spool'[x] = spool[x]
             /\ spool'[st].dir = cfg[p].dir /\ spool'[st].batch = batch[p]
             /\ spool'[st].overtaken <=> clock # st
<1>1. PICK st \in 1..clock : paths[p] = {st} /\ st \notin DOMAIN spool
                             /\ \A q \in Procs \ {p} : st \notin paths[q]
  BY DEF Publish, HandsMatchDisk, HandMatchesDisk
<1>2. Oldest(paths[p]) = st
  BY <1>1, Least
<1> DEFINE new == [dir |-> cfg[p].dir, batch |-> batch[p], intact |-> TRUE,
                   overtaken |-> clock # st]
<1>3. spool' = With(st, new)
  BY <1>2 DEF Publish
<1>4. new.dir = cfg[p].dir /\ new.batch = batch[p] /\ new.overtaken = (clock # st)
  OBVIOUS
<1> HIDE DEF new
<1>5. /\ DOMAIN spool' = DOMAIN spool \cup {st}
      /\ \A x \in DOMAIN spool : spool'[x] = spool[x]
      /\ spool'[st] = new
  BY <1>1, <1>3 DEF With
<1> QED BY <1>1, <1>4, <1>5

\* A file published by the flush loop comes after all others and before the queue.
LEMMA PublishedBehind ==
    ASSUME TypeOK, HandsMatchDisk, SpoolBehind, MemoryInOrder, paths["flush"] = {clock},
           Publish("flush")
    PROVE  SpoolBehind'
<1> DEFINE b == batch["flush"]
<1>0. "flush" \in Procs /\ clock \in Nat /\ DOMAIN spool \subseteq 1..clock
  BY DEF Procs, Flushers, TypeOK
<1>1. /\ UnsavedHand = b /\ UnsavedHand' = <<>> /\ queue' = queue
      /\ Precedes(b, queue)
  BY <1>0 DEF Publish, Goto, UnsavedHand, Unsaved, FlushHand, MemoryInOrder, TypeOK, pipeline, Holding,
     Storing, Published
<1>2. /\ DOMAIN spool' = DOMAIN spool \cup {clock} /\ spool'[clock].batch = b
      /\ clock \notin DOMAIN spool
      /\ \A st \in DOMAIN spool : spool'[st] = spool[st]
  <2>1. PICK st \in 1..clock :
          /\ paths["flush"] = {st} /\ st \notin DOMAIN spool
          /\ DOMAIN spool' = DOMAIN spool \cup {st} /\ spool'[st].batch = b
          /\ \A x \in DOMAIN spool : spool'[x] = spool[x]
    BY <1>0, Renamed
  <2>2. st = clock
    BY <2>1
  <2> QED BY <2>1, <2>2
<1>3. \A st, later \in DOMAIN spool' :
         st < later => Precedes(spool'[st].batch, spool'[later].batch)
  BY <1>0, <1>1, <1>2 DEF SpoolBehind
<1>4. \A st \in DOMAIN spool' : Precedes(spool'[st].batch, queue')
  BY <1>0, <1>1, <1>2 DEF SpoolBehind
<1> QED BY <1>1, <1>3, <1>4, NothingRises DEF SpoolBehind

\* Memory is in order whenever main does not flush.
LEMMA MemoryAlone == TypeOK /\ FlushesAlone /\ phase # "stopping" => MemoryInOrder
BY NothingRises DEF TypeOK, FlushesAlone, MemoryInOrder, FlushHand, Holding, Storing, Published

LEMMA MemoryAloneAfter == (TypeOK /\ FlushesAlone /\ phase # "stopping" => MemoryInOrder)'
BY MemoryAlone, PTL

LEMMA OrderKept ==
    ASSUME TypeOK, TypeOK', HandsMatchDisk, FlushesAlone, FlushesAlone', [Next]_vars,
           BacklogInOrder, phase # "stopping", "pruneError" \in Faults => ~PruneFailsAfterRename
    PROVE  BacklogInOrder'
<1>0. DiskStep /\ SpoolBehind /\ MemoryInOrder
  BY NextDisk, BacklogParts, MemoryAlone
<1>1. CASE UNCHANGED <<queue, spool, pc, batch>>
  BY <1>1 DEF BacklogInOrder
<1>2. CASE Exit \/ Crash
  <2>1. queue' = <<>> /\ UnsavedHand' = <<>> /\ pc'["flush"] # "push" /\ spool' = spool
    BY <1>2 DEF Exit, Crash, ProcessEnds, UnsavedHand, Unsaved, Holding, Storing, Published, Procs,
       Flushers, disk
  <2>2. SpoolBehind'
    BY <1>0, <2>1, NothingRises DEF SpoolBehind
  <2> QED BY <2>1, <2>2, NothingRises, BacklogAfter
<1>3. CASE Corrupt
  <2>1. UNCHANGED <<queue, pc, batch>> /\ DOMAIN spool' = DOMAIN spool
    BY <1>3 DEF Corrupt, With, pipeline, locals
  <2>2. \A st \in DOMAIN spool : spool'[st].batch = spool[st].batch
    BY <1>0, <2>1 DEF DiskStep
  <2> QED BY <2>1, <2>2 DEF BacklogInOrder
<1>4. ASSUME NEW p \in Procs, Step(p) PROVE BacklogInOrder'
  <2>1. phase' = phase
    BY <1>4 DEF Step, FlushStep, DrainStep, TimerFires, LoopExits, FlushOnce, Push, Pop,
       SendSettles, SendFails, StoreRefused, StoreFails, PruneFails, Requeue, Prune, Evict,
       WriteTemp, Publish, DrainOnce, Load, LoadFails, ResendSettles, ResendFails, Forget
  <2>2. SpoolBehind'
    <3>1. CASE p = "flush" /\ Publish(p)
      BY <1>0, <3>1, PublishedBehind DEF FlushesAlone, Publish
    <3>2. CASE p = "flush" /\ ~Publish(p)
      <4>1. ~(PruneFails(p) /\ pc[p] \in Published)
        BY <3>2 DEF PruneFails, Requeue, AfterFlush, Goto, TypeOK, PruneFailsAfterRename
      <4>2. ToSet(UnsavedHand') \cup ToSet(queue')
              \subseteq ToSet(UnsavedHand) \cup ToSet(queue) \cup ((captured + 1)..captured')
        BY <1>4, <3>2, <4>1, UnsavedStep DEF UnsavedHand
      <4> QED BY <1>0, <1>4, <3>2, <4>2, FilesGo, SpoolStaysBehind
    <3>3. CASE p # "flush"
      <4>1. /\ UNCHANGED <<captured, queue, UnsavedHand>> /\ ~Publish(p)
        BY <1>4, <3>3, OthersKeepMemory DEF FlushesAlone, UnsavedHand, Unsaved
      <4> QED BY <1>0, <1>4, <4>1, FilesGo, SpoolStaysBehind
    <3> QED BY <3>1, <3>2, <3>3
  <2>3. MemoryInOrder'
    BY <2>1, MemoryAloneAfter
  <2>4. /\ pc'["flush"] # "push" => Precedes(UnsavedHand', queue')
        /\ Rising(queue')
    BY <2>3, NothingRises DEF MemoryInOrder, UnsavedHand, Unsaved, FlushHand
  <2> QED BY <2>2, <2>4, BacklogAfter
<1> QED
  BY <1>1, <1>2, <1>3, <1>4 DEF Next, Collect, Reload, Stop, Restart, vars, pipeline,
     locals, disk

\* The flush loop, alone, keeps the backlog in the order of capture through
\* failed sends, failed stores, restarts and reloads (agent.go:338-366,
\* 561-569, spool.go:86-88, 119-125).
THEOREM BacklogOrdered == Spec => BacklogStaysInOrder
<1>1. TypeOK /\ TypeOK' /\ HandsMatchDisk /\ FlushesAlone /\ FlushesAlone' /\ [Next]_vars
        => [BacklogInOrder /\ phase = "running" /\ ~PruneFailsAfterRename => BacklogInOrder']_vars
  BY OrderKept
<1> QED
  BY <1>1, TypeCorrect, HandsCorrect, Alone, PTL DEF Spec, BacklogStaysInOrder

\* Without a stop no process is ever stopping.
StopsOnSignal == "stop" \notin Faults => phase # "stopping"

LEMMA NeverStopping == Spec => []StopsOnSignal
<1>1. Init => StopsOnSignal
  BY DEF Init, StopsOnSignal
<1>2. ASSUME StopsOnSignal, [Next]_vars PROVE StopsOnSignal'
  <2>1. ASSUME NEW p \in Procs, Step(p) PROVE phase' = phase
    BY <2>1 DEF Step, FlushStep, DrainStep, TimerFires, LoopExits, FlushOnce, Push, Pop,
       SendSettles, SendFails, StoreRefused, StoreFails, PruneFails, Requeue, Prune, Evict,
       WriteTemp, Publish, DrainOnce, Load, LoadFails, ResendSettles, ResendFails, Forget
  <2> QED
    BY <1>2, <2>1 DEF StopsOnSignal, Next, Collect, Reload, Stop, Exit, Crash, ProcessEnds, Restart,
       Corrupt, vars
<1> QED BY <1>1, <1>2, PTL DEF Spec

\* As long as nobody stops the agent and Prune does not fail, the backlog is
\* in the order of capture, through failed sends and stores, lost answers,
\* damaged files, reloads, crashes and restarts (agent.go:338-366, 561-569,
\* spool.go:86-88, 119-125).
OrderedUntilStopped == Faults \cap {"stop", "pruneError"} = {} => BacklogInOrder

\* So only a shutdown or a failing Prune ever mixes up the backlog.
THEOREM OrderUntilStopped == Spec => []OrderedUntilStopped
<1>1. Init => OrderedUntilStopped
  BY DEF Init, OrderedUntilStopped, BacklogInOrder, Holding, Storing, Published, Precedes, ToSet
<1>2. TypeOK /\ TypeOK' /\ HandsMatchDisk /\ FlushesAlone /\ FlushesAlone' /\ StopsOnSignal
        /\ OrderedUntilStopped /\ [Next]_vars => OrderedUntilStopped'
  BY OrderKept DEF OrderedUntilStopped, StopsOnSignal
<1> QED BY <1>1, <1>2, TypeCorrect, HandsCorrect, Alone, NeverStopping, PTL DEF Spec

-----------------------------------------------------------------------------
(* Files leave a directory oldest first. *)

\* The spool is a map, also where TypeOK does not say so.
SpoolIsMap == spool = [st \in DOMAIN spool |-> spool[st]]

\* Where a goroutine works through a listing of a directory, it has all files
\* of the directory that are older than one it has, but for those that were
\* overtaken in a shutdown and may have come since.
OldestFirst ==
    \A p \in Procs : pc[p] \in Listing =>
        /\ paths[p] # {}
        /\ \A x \in paths[p] \cap DOMAIN spool : spool[x].dir = cfg[p].dir
        /\ \A x \in paths[p], st \in Entries(cfg[p].dir) :
              st < x /\ ~Overtaken(st) => st \in paths[p]

\* No fault leaves a file in the way of a drain, or hides one from a listing.
DiskObeys == Faults \cap {"deleteError", "readError"} = {}

\* The files that a step removes are the oldest of their directories, those
\* that were overtaken apart.
GoOldestFirst ==
    \A st \in DOMAIN spool \ DOMAIN spool' :
        \A older \in Entries(spool[st].dir) :
            older < st /\ ~Overtaken(older) => older \notin DOMAIN spool'

\* Removing the first file of a listing is removing the oldest.
LEMMA FirstIsOldest ==
    ASSUME TypeOK, OldestFirst, NEW p \in Procs, pc[p] \in Listing,
           spool' = Without({Oldest(paths[p])})
    PROVE  GoOldestFirst
<1>1. paths[p] \in SUBSET Nat /\ paths[p] # {}
  BY DEF TypeOK, OldestFirst
<1>2. Oldest(paths[p]) \in paths[p] /\ \A x \in paths[p] : Oldest(paths[p]) <= x
  BY <1>1, Least
<1>3. DOMAIN spool' = DOMAIN spool \ {Oldest(paths[p])}
  BY DEF Without
<1> SUFFICES ASSUME NEW st \in DOMAIN spool \ DOMAIN spool', NEW older \in Entries(spool[st].dir),
                    older < st, ~Overtaken(older)
             PROVE  FALSE
  BY DEF GoOldestFirst
<1>4. st = Oldest(paths[p])
  BY <1>3
<1>5. spool[st].dir = cfg[p].dir /\ older \in paths[p]
  BY <1>2, <1>4 DEF OldestFirst
<1> QED BY <1>1, <1>2, <1>4, <1>5 DEF TypeOK, Entries

LEMMA NextOldest ==
    ASSUME TypeOK, HandsMatchDisk, OldestFirst, DiskObeys, [Next]_vars
    PROVE  GoOldestFirst
<1>1. CASE DOMAIN spool \subseteq DOMAIN spool'
  BY <1>1 DEF GoOldestFirst
<1>2. CASE UNCHANGED spool
  BY <1>2 DEF GoOldestFirst
<1>3. CASE Corrupt
  BY <1>1, <1>3 DEF Corrupt, With
<1>4. ASSUME NEW p \in Procs, Step(p) PROVE GoOldestFirst
  <2>1. CASE \/ TimerFires(p) \/ LoopExits(p) \/ FlushOnce(p) \/ Push(p) \/ Pop(p)
             \/ SendSettles(p) \/ SendFails(p) \/ StoreRefused(p) \/ StoreFails(p)
             \/ PruneFails(p) \/ WriteTemp(p) \/ DrainOnce(p) \/ Load(p) \/ ResendSettles(p)
             \/ ResendFails(p)
    <3>1. UNCHANGED spool
      BY <2>1 DEF TimerFires, LoopExits, FlushOnce, Push, Pop, SendSettles, SendFails, StoreRefused,
         StoreFails, PruneFails, Requeue, DrainOnce, Load, ResendSettles, ResendFails, WriteTemp, disk
    <3> QED BY <1>2, <3>1
  <2>2. CASE Publish(p)
    BY <1>1, <2>2, Renamed
  <2>3. CASE Prune(p)
    <3>1. PICK aged \in AgedSets(Entries(cfg[p].dir)) : spool' = Without(aged)
      BY <2>3 DEF Prune, DiskObeys
    <3>2. aged \subseteq Entries(cfg[p].dir)
          /\ \A st \in aged, older \in Entries(cfg[p].dir) : older < st => older \in aged
      <4>1. CASE "expire" \in Faults
        <5>1. PICK limit \in 0..clock : aged = {st \in Entries(cfg[p].dir) : st <= limit}
          BY <3>1, <4>1 DEF AgedSets
        <5>2. Entries(cfg[p].dir) \subseteq Nat /\ limit \in Nat
          BY DEF Entries, TypeOK
        <5> QED BY <5>1, <5>2
      <4>2. CASE "expire" \notin Faults
        BY <3>1, <4>2 DEF AgedSets
      <4> QED BY <4>1, <4>2
    <3>3. DOMAIN spool' = DOMAIN spool \ aged
      BY <3>1 DEF Without
    <3> QED BY <3>2, <3>3 DEF GoOldestFirst, Entries
  <2>4. CASE Evict(p)
    BY <2>4, FirstIsOldest DEF Evict, Listing
  <2>5. CASE LoadFails(p)
    BY <2>5, FirstIsOldest DEF LoadFails, Listing, DiskObeys
  <2>6. CASE Forget(p)
    BY <2>6, FirstIsOldest DEF Forget, Listing, Resending, DiskObeys
  <2> QED
    BY <1>4, <2>1, <2>2, <2>3, <2>4, <2>5, <2>6 DEF Step, FlushStep, DrainStep
<1> QED
  BY <1>2, <1>3, <1>4 DEF Next, Collect, Reload, Stop, Restart, Exit, Crash, ProcessEnds, vars, disk

\* A file that is new on disk was the temporary file of another goroutine, and
\* is overtaken unless it is newer than all others.
LEMMA NewFiles ==
    ASSUME TypeOK, HandsMatchDisk, FlushesAlone, [Next]_vars,
           NEW st \in DOMAIN spool' \ DOMAIN spool
    PROVE  /\ \E p \in Procs :
                pc[p] = "publish" /\ \A q \in Procs \ {p} : st \notin paths[q]
           /\ Overtaken(st)' \/ st = clock
<1>1. PICK p \in Procs : Step(p) /\ Publish(p)
  <2>1. ASSUME NEW p \in Procs, Step(p), ~Publish(p) PROVE DOMAIN spool' \subseteq DOMAIN spool
    BY <2>1, FilesGo
  <2>2. ~Corrupt
    BY DEF Corrupt, With
  <2> QED
    BY <2>1, <2>2 DEF Next, Collect, Reload, Stop, Exit, Crash, ProcessEnds, Restart, vars, disk
<1>2. PICK new \in 1..clock :
        /\ paths[p] = {new} /\ \A q \in Procs \ {p} : new \notin paths[q]
        /\ DOMAIN spool' = DOMAIN spool \cup {new}
        /\ spool'[new].overtaken <=> clock # new
  BY <1>1, Renamed
<1>3. new = st /\ pc[p] = "publish" /\ phase' = phase
  BY <1>1, <1>2 DEF Publish
<1>4. CASE phase # "stopping"
  <2>1. p = "flush"
    <3>1. p \in Flushers
      BY <1>1, <1>3 DEF Step, DrainStep, TimerFires, LoopExits, DrainOnce, Load, LoadFails,
         ResendSettles, ResendFails, Forget
    <3> QED BY <1>3, <1>4, <3>1 DEF FlushesAlone, Flushers
  <2> QED BY <1>2, <1>3, <1>4, <2>1 DEF FlushesAlone
<1>5. CASE phase = "stopping"
  BY <1>2, <1>3, <1>5 DEF Overtaken
<1> QED BY <1>2, <1>3, <1>4, <1>5

\* A shutdown ends with the process only.
LEMMA StoppingStays ==
    ASSUME [Next]_vars, phase = "stopping", ~ProcessEnds
    PROVE  phase' = "stopping"
BY DEF Next, Collect, Reload, Stop, Exit, Crash, Restart, Corrupt, vars, Step, FlushStep, DrainStep,
   TimerFires, LoopExits, FlushOnce, Push, Pop, SendSettles, SendFails, StoreRefused, StoreFails,
   PruneFails, Requeue, Prune, Evict, WriteTemp, Publish, DrainOnce, Load, LoadFails, ResendSettles,
   ResendFails, Forget

\* A goroutine that goes on with its listing keeps what OldestFirst says of it.
LEMMA ListingKept ==
    ASSUME TypeOK, HandsMatchDisk, FlushesAlone, DiskStep, OldestFirst, [Next]_vars,
           NEW p \in Procs, pc[p] \in Listing,
           cfg'[p] = cfg[p], paths'[p] # {},
           \/ paths'[p] = paths[p]
           \/ /\ paths'[p] = paths[p] \ {Oldest(paths[p])}
              /\ Oldest(paths[p]) \notin DOMAIN spool'
    PROVE  /\ \A x \in paths'[p] \cap DOMAIN spool' : spool'[x].dir = cfg'[p].dir
           /\ \A x \in paths'[p], st \in Entries(cfg[p].dir)' :
                 st < x /\ ~Overtaken(st)' => st \in paths'[p]
<1>1. paths'[p] \subseteq paths[p] /\ paths[p] \subseteq 1..clock /\ clock \in Nat
      /\ DOMAIN spool \subseteq 1..clock
  BY DEF TypeOK
<1>2. ASSUME NEW st \in DOMAIN spool' \ DOMAIN spool
      PROVE  st \notin paths[p] /\ (Overtaken(st)' \/ st = clock)
  <2>1. PICK q \in Procs : pc[q] = "publish" /\ \A r \in Procs \ {q} : st \notin paths[r]
    BY <1>2, NewFiles
  <2>2. p # q
    BY <2>1 DEF Listing, Resending
  <2>3. Overtaken(st)' \/ st = clock
    BY <1>2, NewFiles
  <2> QED BY <2>1, <2>2, <2>3
<1>3. ASSUME NEW x \in paths'[p] \cap DOMAIN spool' PROVE spool'[x].dir = cfg'[p].dir
  BY <1>1, <1>2 DEF DiskStep, OldestFirst
<1>4. ASSUME NEW x \in paths'[p], NEW st \in Entries(cfg[p].dir)', st < x, ~Overtaken(st)'
      PROVE  st \in paths'[p]
  <2>1. st \in DOMAIN spool' /\ spool'[st].dir = cfg[p].dir
    BY DEF Entries
  <2>2. st \in DOMAIN spool
    BY <1>1, <1>2, <1>4, <2>1
  <2>3. st \in Entries(cfg[p].dir) /\ ~Overtaken(st)
    <3>1. spool[st].dir = spool'[st].dir /\ spool[st].overtaken = spool'[st].overtaken
      BY <2>1, <2>2 DEF DiskStep
    <3>2. phase = "stopping" => phase' = "stopping"
      BY StoppingStays DEF ProcessEnds
    <3> QED BY <1>4, <2>1, <2>2, <3>1, <3>2 DEF Overtaken, Entries
  <2>4. st \in paths[p]
    BY <1>1, <1>4, <2>3 DEF OldestFirst
  <2> QED BY <2>1, <2>4
<1> QED BY <1>3, <1>4

\* The stamps of a directory are finitely many numbers.
LEMMA EntriesFinite ==
    ASSUME TypeOK, NEW dir
    PROVE  IsFiniteSet(Entries(dir)) /\ Entries(dir) \subseteq Nat
<1>1. Entries(dir) \subseteq 1..clock /\ clock \in Nat
  BY DEF TypeOK, Entries
<1>2. IsFiniteSet(1..clock)
  BY <1>1, FS_Interval
<1> QED BY <1>1, <1>2, FS_Subset

\* The same after a step.
LEMMA FiniteAfter ==
    ASSUME TypeOK', NEW dir
    PROVE  IsFiniteSet(Entries(dir)') /\ Entries(dir)' \subseteq Nat
<1>1. Entries(dir)' \subseteq 1..clock' /\ clock' \in Nat
  BY DEF TypeOK, Entries
<1>2. IsFiniteSet(1..clock')
  BY <1>1, FS_Interval
<1> QED BY <1>1, <1>2, FS_Subset

\* The surplus of a directory is its oldest files.
LEMMA SurplusOldest ==
    ASSUME NEW kept \in SUBSET Nat, IsFiniteSet(kept), NEW maxBatches \in Nat,
           NEW x \in Surplus(kept, maxBatches), NEW st \in kept, st < x
    PROVE  st \in Surplus(kept, maxBatches)
<1> DEFINE newer(y) == {n \in kept : n > y}
<1>0. x \in Nat /\ st \in Nat
  BY DEF Surplus
<1>1. newer(x) \subseteq newer(st) /\ newer(st) \subseteq kept
  <2>1. \A n \in kept : n > x => n > st
    BY <1>0
  <2> QED BY <2>1
<1>2. IsFiniteSet(newer(st))
  BY <1>1, FS_Subset
<1>3. Cardinality(newer(x)) <= Cardinality(newer(st)) /\ Cardinality(newer(st)) \in Nat
  BY <1>1, <1>2, FS_Subset, FS_CardinalityType
<1>4. Cardinality(newer(x)) \in Nat
  BY <1>1, <1>2, FS_Subset, FS_CardinalityType
<1>5. Cardinality(newer(x)) >= maxBatches
  BY DEF Surplus
<1>6. Cardinality(newer(st)) >= maxBatches
  BY <1>3, <1>4, <1>5
<1> QED BY <1>6 DEF Surplus

\* What Prune leaves, and what it is going to evict (spool.go:155-178).
LEMMA PruneListing ==
    ASSUME TypeOK, "deleteError" \notin Faults, NEW p \in Procs, Prune(p)
    PROVE  LET surplus == Surplus(Entries(cfg[p].dir)', cfg[p].maxBatches) IN
             /\ cfg' = cfg /\ DOMAIN spool' \subseteq DOMAIN spool
             /\ paths'[p] = surplus
             /\ surplus # {} => pc'[p] = IF pc[p] = "store" THEN "evict" ELSE "reevict"
             /\ surplus = {} => pc'[p] = IF pc[p] = "store" THEN "write" ELSE "pop"
<1> DEFINE here == Entries(cfg[p].dir)
<1>1. PICK aged \in AgedSets(here) :
        /\ spool' = Without(aged)
        /\ paths' = [paths EXCEPT ![p] = Surplus(here \ aged, cfg[p].maxBatches)]
        /\ IF Surplus(here \ aged, cfg[p].maxBatches) # {}
           THEN Goto(p, IF pc[p] = "store" THEN "evict" ELSE "reevict")
           ELSE Goto(p, IF pc[p] = "store" THEN "write" ELSE "pop")
  BY DEF Prune
<1>2. cfg' = cfg
  BY DEF Prune
<1>3. Entries(cfg[p].dir)' = here \ aged
  BY <1>1, <1>2 DEF Entries, Without
<1> HIDE DEF here
<1>4. paths'[p] = Surplus(here \ aged, cfg[p].maxBatches)
  BY <1>1 DEF TypeOK
<1>5. DOMAIN spool' \subseteq DOMAIN spool
  BY <1>1 DEF Without
<1>6. /\ Surplus(here \ aged, cfg[p].maxBatches) # {} =>
           pc'[p] = IF pc[p] = "store" THEN "evict" ELSE "reevict"
      /\ Surplus(here \ aged, cfg[p].maxBatches) = {} =>
           pc'[p] = IF pc[p] = "store" THEN "write" ELSE "pop"
  BY <1>1 DEF Goto, TypeOK
<1>7. Surplus(here \ aged, cfg[p].maxBatches) = Surplus(Entries(cfg[p].dir)', cfg[p].maxBatches)
  BY <1>2, <1>3 DEF Surplus
<1> QED BY <1>2, <1>4, <1>5, <1>6, <1>7

LEMMA NextListings ==
    ASSUME TypeOK, TypeOK', HandsMatchDisk, FlushesAlone, DiskStep, OldestFirst, DiskObeys,
           [Next]_vars
    PROVE  OldestFirst'
<1>1. CASE UNCHANGED locals
  BY <1>1, ListingKept DEF OldestFirst, locals
<1>2. CASE Exit \/ Crash
  BY <1>2 DEF Exit, Crash, ProcessEnds, OldestFirst, Listing, Resending
<1>3. ASSUME NEW p \in Procs, Step(p) PROVE OldestFirst'
  <2>1. ASSUME NEW q \in Procs \ {p}, pc'[q] \in Listing
        PROVE  /\ paths'[q] # {}
               /\ \A x \in paths'[q] \cap DOMAIN spool' : spool'[x].dir = cfg'[q].dir
               /\ \A x \in paths'[q], st \in Entries(cfg[q].dir)' :
                     st < x /\ ~Overtaken(st)' => st \in paths'[q]
    <3>1. pc'[q] = pc[q] /\ paths'[q] = paths[q] /\ cfg'[q] = cfg[q]
      BY <1>3, OthersUntouched
    <3>2. pc[q] \in Listing /\ paths'[q] # {}
      BY <2>1, <3>1 DEF OldestFirst
    <3> QED BY <3>1, <3>2, ListingKept
  <2>2. ASSUME pc'[p] \in Listing
        PROVE  /\ paths'[p] # {}
               /\ \A x \in paths'[p] \cap DOMAIN spool' : spool'[x].dir = cfg'[p].dir
               /\ \A x \in paths'[p], st \in Entries(cfg[p].dir)' :
                     st < x /\ ~Overtaken(st)' => st \in paths'[p]
    <3>1. CASE Prune(p)
      <4> DEFINE dir == cfg[p].dir
      <4>1. /\ cfg' = cfg /\ paths'[p] # {}
            /\ paths'[p] = Surplus(Entries(dir)', cfg[p].maxBatches)
        BY <2>2, <3>1, PruneListing DEF DiskObeys, Listing, Resending
      <4>2. Entries(dir)' \in SUBSET Nat /\ IsFiniteSet(Entries(dir)')
        BY <4>1, FiniteAfter
      <4>3. cfg[p].maxBatches \in Nat
        BY ConfigsAssumption DEF TypeOK, ConfigType
      <4>4. \A x \in paths'[p], st \in Entries(dir)' : st < x => st \in paths'[p]
        BY <4>1, <4>2, <4>3, SurplusOldest
      <4>5. \A x \in paths'[p] : spool'[x].dir = cfg'[p].dir
        BY <4>1 DEF Surplus, Entries
      <4> QED BY <4>1, <4>4, <4>5
    <3>2. CASE Evict(p) \/ LoadFails(p) \/ Forget(p)
      <4>1. /\ pc[p] \in Listing /\ cfg' = cfg /\ spool' = Without({Oldest(paths[p])})
            /\ paths'[p] = paths[p] \ {Oldest(paths[p])} /\ paths'[p] # {}
        BY <2>2, <3>2 DEF Evict, LoadFails, Forget, NextEntry, AfterDrain, Goto, TypeOK, Listing,
           Resending, DiskObeys
      <4>2. Oldest(paths[p]) \notin DOMAIN spool'
        BY <4>1 DEF Without
      <4> QED BY <4>1, <4>2, ListingKept
    <3>3. CASE Load(p) \/ ResendSettles(p)
      <4>1. pc[p] \in Listing /\ cfg' = cfg /\ paths' = paths
        BY <3>3 DEF Load, ResendSettles, Listing, Resending
      <4> QED BY <4>1, ListingKept DEF OldestFirst
    <3>4. CASE DrainOnce(p)
      <4>1. cfg'[p] = config /\ spool' = spool
            /\ paths'[p] = Entries(config.dir) /\ paths'[p] # {}
        BY <2>2, <3>4 DEF DrainOnce, CurrentConfig, AfterDrain, Goto, TypeOK, Listing, Resending,
           DiskObeys, disk
      <4> QED BY <4>1 DEF Entries
    <3>5. Prune(p) \/ Evict(p) \/ LoadFails(p) \/ Forget(p) \/ Load(p) \/ ResendSettles(p) \/ DrainOnce(p)
      BY <1>3, <2>2 DEF Step, FlushStep, DrainStep, TimerFires, LoopExits, FlushOnce, Push, Pop,
         SendSettles, SendFails, StoreRefused, StoreFails, PruneFails, Requeue, WriteTemp, Publish, ResendFails,
         AfterFlush, AfterDrain, Goto, TypeOK, Listing, Resending
    <3> QED BY <3>1, <3>2, <3>3, <3>4, <3>5
  <2> QED BY <2>1, <2>2 DEF OldestFirst
<1> QED
  BY <1>1, <1>2, <1>3 DEF Next, Collect, Reload, Stop, Restart, Corrupt, vars

\* A file about to be evicted has max_batches newer ones in its directory,
\* unless it was overtaken.
Newer(st, dir) == {other \in Entries(dir) : other > st}
Overflowing ==
    \A p \in Procs : pc[p] \in {"evict", "reevict"} =>
        \A st \in paths[p] \cap DOMAIN spool :
            ~Overtaken(st) => Cardinality(Newer(st, cfg[p].dir)) >= cfg[p].maxBatches

\* As long as a file is there that was not overtaken, so are the newer ones.
LEMMA NewerStay ==
    ASSUME TypeOK, TypeOK', DiskStep, GoOldestFirst, NEW dir, NEW st \in Entries(dir),
           st \in DOMAIN spool', ~Overtaken(st), NEW m \in Nat, Cardinality(Newer(st, dir)) >= m
    PROVE  Cardinality({other \in Entries(dir)' : other > st}) >= m
<1> DEFINE after == {other \in {x \in DOMAIN spool' : spool'[x].dir = dir} : other > st}
<1>1. Newer(st, dir) \subseteq after
  <2> SUFFICES ASSUME NEW other \in Entries(dir), other > st PROVE other \in after
    BY DEF Newer
  <2>1. other \in DOMAIN spool /\ spool[other].dir = dir /\ other \in Nat /\ st \in Nat
    BY EntriesFinite DEF Entries
  <2>2. other \in DOMAIN spool'
    BY <2>1 DEF GoOldestFirst
  <2> QED BY <2>1, <2>2 DEF DiskStep
<1>2. DOMAIN spool' \subseteq 1..clock' /\ clock' \in Nat
  BY DEF TypeOK
<1>3. IsFiniteSet(after)
  <2>1. after \subseteq 1..clock'
    BY <1>2
  <2>2. IsFiniteSet(1..clock')
    BY <1>2, FS_Interval
  <2> HIDE DEF after
  <2> QED BY <2>1, <2>2, FS_Subset
<1>4. Cardinality(Newer(st, dir)) <= Cardinality(after) /\ Cardinality(Newer(st, dir)) \in Nat
      /\ Cardinality(after) \in Nat
  BY <1>1, <1>3, FS_Subset, FS_CardinalityType
<1>5. Cardinality(after) >= m
  BY <1>4
<1> QED BY <1>5 DEF Entries

LEMMA NextOverflowing ==
    ASSUME TypeOK, TypeOK', HandsMatchDisk, FlushesAlone, DiskStep, OldestFirst, Overflowing,
           DiskObeys, [Next]_vars
    PROVE  Overflowing'
<1>0. GoOldestFirst
  BY NextOldest
<1>1. ASSUME NEW p \in Procs, pc[p] \in {"evict", "reevict"}, cfg'[p] = cfg[p],
             paths'[p] \subseteq paths[p], NEW st \in paths'[p] \cap DOMAIN spool',
             ~Overtaken(st)'
      PROVE  Cardinality(Newer(st, cfg[p].dir)') >= cfg'[p].maxBatches
  <2>1. st \in DOMAIN spool /\ ~Overtaken(st)
    <3>1. CASE st \in DOMAIN spool
      <4>1. phase = "stopping" => phase' = "stopping"
        BY <1>1, StoppingStays DEF ProcessEnds
      <4>2. spool[st].overtaken = spool'[st].overtaken
        BY <3>1 DEF DiskStep
      <4> QED BY <1>1, <3>1, <4>1, <4>2 DEF Overtaken
    <3>2. CASE st \notin DOMAIN spool
      <4>1. PICK q \in Procs : pc[q] = "publish" /\ \A r \in Procs \ {q} : st \notin paths[r]
        BY <3>2, NewFiles
      <4> QED BY <1>1, <4>1
    <3> QED BY <3>1, <3>2
  <2>2. st \in Entries(cfg[p].dir)
    BY <1>1, <2>1 DEF OldestFirst, Listing, Entries
  <2>3. cfg[p].maxBatches \in Nat
    BY ConfigsAssumption DEF TypeOK, ConfigType
  <2>4. Cardinality(Newer(st, cfg[p].dir)) >= cfg[p].maxBatches
    BY <1>1, <2>1 DEF Overflowing
  <2> DEFINE dir == cfg[p].dir
  <2>5. Cardinality({other \in {x \in DOMAIN spool' : spool'[x].dir = dir} : other > st})
          >= cfg[p].maxBatches
    BY <1>0, <1>1, <2>1, <2>2, <2>3, <2>4, NewerStay DEF Entries
  <2> QED BY <1>1, <2>5 DEF Newer, Entries
<1>2. CASE UNCHANGED locals
  BY <1>1, <1>2 DEF Overflowing, locals
<1>3. CASE Exit \/ Crash
  BY <1>3 DEF Exit, Crash, ProcessEnds, Overflowing
<1>4. ASSUME NEW p \in Procs, Step(p) PROVE Overflowing'
  <2>1. ASSUME NEW q \in Procs \ {p}, pc'[q] \in {"evict", "reevict"},
               NEW st \in paths'[q] \cap DOMAIN spool', ~Overtaken(st)'
        PROVE  Cardinality(Newer(st, cfg[q].dir)') >= cfg'[q].maxBatches
    BY <1>1, <1>4, <2>1, OthersUntouched
  <2>2. ASSUME pc'[p] \in {"evict", "reevict"}, NEW st \in paths'[p] \cap DOMAIN spool',
               ~Overtaken(st)'
        PROVE  Cardinality(Newer(st, cfg[p].dir)') >= cfg'[p].maxBatches
    <3>1. CASE Evict(p)
      <4>1. pc[p] \in {"evict", "reevict"} /\ cfg' = cfg /\ paths'[p] \subseteq paths[p]
        BY <3>1 DEF Evict, TypeOK
      <4> QED BY <1>1, <2>2, <4>1
    <3>2. CASE Prune(p)
      <4>1. cfg' = cfg /\ paths'[p] = Surplus(Entries(cfg[p].dir)', cfg[p].maxBatches)
        BY <2>2, <3>2, PruneListing DEF DiskObeys
      <4> QED BY <2>2, <4>1 DEF Surplus, Newer
    <3>3. Evict(p) \/ Prune(p)
      BY <1>4, <2>2 DEF Step, FlushStep, DrainStep, TimerFires, LoopExits, FlushOnce, Push, Pop,
         SendSettles, SendFails, StoreRefused, StoreFails, PruneFails, Requeue, WriteTemp, Publish,
         DrainOnce, Load, LoadFails, ResendSettles, ResendFails, Forget, NextEntry,
         AfterFlush, AfterDrain, Goto, TypeOK
    <3> QED BY <3>1, <3>2, <3>3
  <2> QED BY <2>1, <2>2 DEF Overflowing
<1> QED
  BY <1>2, <1>3, <1>4 DEF Next, Collect, Reload, Stop, Restart, Corrupt, vars

LEMMA NextMap == SpoolIsMap /\ [Next]_vars => SpoolIsMap'
<1> SUFFICES ASSUME SpoolIsMap, [Next]_vars PROVE SpoolIsMap'
  OBVIOUS
<1>1. CASE UNCHANGED spool
  BY <1>1 DEF SpoolIsMap
<1>2. ASSUME NEW S, spool' = Without(S) PROVE SpoolIsMap'
  BY <1>2 DEF Without, SpoolIsMap
<1>3. ASSUME NEW st, NEW file, spool' = With(st, file) PROVE SpoolIsMap'
  BY <1>3 DEF With, SpoolIsMap
<1>4. CASE Corrupt
  BY <1>3, <1>4 DEF Corrupt
<1>5. ASSUME NEW p \in Procs, Step(p) PROVE SpoolIsMap'
  <2>1. CASE \/ TimerFires(p) \/ LoopExits(p) \/ FlushOnce(p) \/ Push(p) \/ Pop(p)
             \/ SendSettles(p) \/ SendFails(p) \/ StoreRefused(p) \/ StoreFails(p)
             \/ PruneFails(p) \/ WriteTemp(p) \/ DrainOnce(p) \/ Load(p) \/ ResendSettles(p)
             \/ ResendFails(p)
    <3>1. UNCHANGED spool
      BY <2>1 DEF TimerFires, LoopExits, FlushOnce, Push, Pop, SendSettles, SendFails, StoreRefused,
         StoreFails, PruneFails, Requeue, DrainOnce, Load, ResendSettles, ResendFails, WriteTemp, disk
    <3> QED BY <1>1, <3>1
  <2>2. CASE Publish(p)
    <3>1. PICK st, file : spool' = With(st, file)
      BY <2>2 DEF Publish
    <3> QED BY <1>3, <3>1
  <2>3. CASE Prune(p)
    BY <1>2, <2>3 DEF Prune
  <2>4. CASE Evict(p)
    BY <1>2, <2>4 DEF Evict
  <2>5. CASE LoadFails(p)
    BY <1>1, <1>2, <2>5 DEF LoadFails
  <2>6. CASE Forget(p)
    BY <1>1, <1>2, <2>6 DEF Forget
  <2> QED BY <1>5, <2>1, <2>2, <2>3, <2>4, <2>5, <2>6 DEF Step, FlushStep, DrainStep
<1> QED
  BY <1>1, <1>4, <1>5 DEF Next, Collect, Reload, Stop, Restart, Exit, Crash, ProcessEnds, vars, disk

ListingsRight == DiskObeys => OldestFirst /\ Overflowing

LEMMA ListingsStayRight == Spec => [](SpoolIsMap /\ ListingsRight)
<1>1. Init => SpoolIsMap /\ ListingsRight
  BY DEF Init, SpoolIsMap, ListingsRight, OldestFirst, Overflowing, Listing, Resending
<1>2. TypeOK /\ TypeOK' /\ HandsMatchDisk /\ FlushesAlone /\ ListingsRight /\ [Next]_vars
        => ListingsRight'
  BY NextDisk, NextListings, NextOverflowing DEF ListingsRight, DiskObeys
<1> QED BY <1>1, <1>2, NextMap, TypeCorrect, HandsCorrect, Alone, PTL DEF Spec

LEMMA Overfull ==
    ASSUME TypeOK, SpoolIsMap, ListingsRight, DiskObeys, NEW p \in Procs,
           pc[p] \in {"evict", "reevict"}, Evict(p), spool' # spool,
           ~Overtaken(Oldest(paths[p]))
    PROVE  Cardinality(Entries(cfg[p].dir)) > cfg[p].maxBatches
<1> USE DEF ListingsRight
<1> DEFINE st == Oldest(paths[p])
           dir == cfg[p].dir
<1>1. st \in DOMAIN spool
  BY DEF Evict, Without, SpoolIsMap
<1>2. st \in paths[p]
  <2>1. paths[p] \in SUBSET Nat /\ paths[p] # {}
    BY DEF TypeOK, OldestFirst, Listing
  <2> QED BY <2>1, Least
<1>3. st \in Entries(dir) /\ Cardinality(Newer(st, dir)) >= cfg[p].maxBatches
  BY <1>1, <1>2 DEF OldestFirst, Overflowing, Listing, Entries
<1> HIDE DEF st, dir
<1>4. IsFiniteSet(Entries(dir)) /\ Entries(dir) \subseteq Nat
  BY EntriesFinite
<1>5. Newer(st, dir) \subseteq Entries(dir) /\ st \notin Newer(st, dir)
  BY <1>3, <1>4 DEF Newer
<1>6. /\ Newer(st, dir) \cup {st} \subseteq Entries(dir)
      /\ IsFiniteSet(Newer(st, dir)) /\ Cardinality(Newer(st, dir)) \in Nat
      /\ Cardinality(Entries(dir)) \in Nat
  BY <1>3, <1>4, <1>5, FS_Subset, FS_CardinalityType
<1>7. /\ Cardinality(Newer(st, dir) \cup {st}) = Cardinality(Newer(st, dir)) + 1
      /\ Cardinality(Newer(st, dir) \cup {st}) <= Cardinality(Entries(dir))
  BY <1>4, <1>5, <1>6, FS_AddElement, FS_Subset
<1>8. cfg[p].maxBatches \in Nat
  BY ConfigsAssumption DEF TypeOK, ConfigType
<1> QED BY <1>3, <1>6, <1>7, <1>8 DEF dir

\* However flushes, prunes and drains interleave, Prune removes a file that is
\* there only while its directory has more than max_batches; but a shutdown may
\* evict a file after another that was written later and renamed earlier
\* (spool.go:71, 84, 155, 170-176, agent.go:313-335).
THEOREM OnlyOverflowEvicted == Spec => EvictsOnlyOverflow
<1>1. TypeOK /\ SpoolIsMap /\ ListingsRight /\ [Next]_vars =>
        [Faults \cap {"deleteError", "readError"} = {} =>
          \A p \in Flushers :
            (pc[p] \in {"evict", "reevict"} /\ Evict(p) /\ spool' # spool)
              => \/ Overtaken(Oldest(paths[p]))
                 \/ Cardinality(Entries(cfg[p].dir)) > cfg[p].maxBatches]_vars
  BY Overfull DEF DiskObeys, Procs
<1> QED
  BY <1>1, ListingsStayRight, TypeCorrect, PTL DEF Spec, EvictsOnlyOverflow

\* The file that an eviction removes is the oldest of its directory, those that
\* were overtaken apart.
LEMMA OldestEvicted ==
    ASSUME TypeOK, ListingsRight, DiskObeys, NEW p \in Procs,
           pc[p] \in {"evict", "reevict"}, Oldest(paths[p]) \in DOMAIN spool
    PROVE  /\ Oldest(paths[p]) \in Entries(cfg[p].dir)
           /\ \A older \in Entries(cfg[p].dir) :
                 older < Oldest(paths[p]) => Overtaken(older)
<1> DEFINE st == Oldest(paths[p])
           here == Entries(cfg[p].dir)
<1>1. paths[p] \in SUBSET Nat /\ paths[p] # {}
  BY DEF TypeOK, ListingsRight, OldestFirst, Listing
<1>2. st \in paths[p] /\ \A x \in paths[p] : st <= x
  BY <1>1, Least
<1>3. st \in here
  BY <1>2 DEF ListingsRight, OldestFirst, Listing, Entries
<1>4. here \in SUBSET Nat
  BY EntriesFinite
<1>5. \A x \in here : x < st /\ ~Overtaken(x) => x \in paths[p]
  BY <1>2 DEF ListingsRight, OldestFirst, Listing
<1> HIDE DEF st, here
<1>6. \A x \in here : x < st => Overtaken(x)
  BY <1>1, <1>2, <1>3, <1>4, <1>5
<1> QED BY <1>3, <1>6 DEF st, here

\* Files are damaged only where the disk damages them.
AllIntact == "corrupt" \notin Faults => \A st \in DOMAIN spool : spool[st].intact

LEMMA StaysIntact == Spec => []AllIntact
<1>1. Init => AllIntact
  BY DEF Init, AllIntact
<1>2. ASSUME TypeOK, AllIntact, [Next]_vars PROVE AllIntact'
  <2> SUFFICES ASSUME "corrupt" \notin Faults, NEW st \in DOMAIN spool' PROVE spool'[st].intact
    BY DEF AllIntact
  <2>0. \A x \in DOMAIN spool : spool[x].intact
    BY <1>2 DEF AllIntact
  <2>1. CASE spool' = spool
    BY <2>0, <2>1
  <2>2. ASSUME NEW S, spool' = Without(S) PROVE spool'[st].intact
    BY <2>0, <2>2 DEF Without
  <2>3. ASSUME NEW p \in Procs, Publish(p) PROVE spool'[st].intact
    <3> DEFINE new == [dir |-> cfg[p].dir, batch |-> batch[p], intact |-> TRUE,
                       overtaken |-> clock # Oldest(paths[p])]
    <3>1. spool' = With(Oldest(paths[p]), new) /\ new.intact
      BY <2>3 DEF Publish
    <3> HIDE DEF new
    <3> QED BY <2>0, <3>1 DEF With
  <2>4. ASSUME NEW p \in Procs, Step(p), ~Publish(p)
        PROVE  spool' = spool \/ \E S : spool' = Without(S)
    BY <2>4 DEF Step, FlushStep, DrainStep, TimerFires, LoopExits, FlushOnce, Push, Pop,
       SendSettles, SendFails, StoreRefused, StoreFails, PruneFails, Requeue, Prune, Evict,
       WriteTemp, DrainOnce, Load, LoadFails, ResendSettles, ResendFails, Forget, disk
  <2> QED
    BY <1>2, <2>1, <2>2, <2>3, <2>4 DEF Next, Collect, Reload, Stop, Exit, Crash, ProcessEnds,
       Restart, Corrupt, vars, disk
<1> QED BY <1>1, <1>2, TypeCorrect, PTL DEF Spec

\* With a collector that refuses no batch and is not behind a redirection, a
\* token in every configuration, and a disk that neither damages, hides nor
\* keeps a file, the agent gives up a snapshot in one way only: with the oldest
\* file of a directory that holds more than max_batches, or with a file that
\* a shutdown has overtaken; never because a drain and a prune, or two drains, met at the
\* same file (agent.go:313-335, 347-351, spool.go:71, 84, 155, 170-178).
Mild ==
    /\ Faults \cap {"reject", "redirect", "corrupt", "readError", "deleteError", "expire"} = {}
    /\ \A c \in Configs : c.token

OldestSurplus(st, c) ==
    /\ Cardinality(Entries(c.dir)) > c.maxBatches
    /\ \A older \in Entries(c.dir) : older < st => Overtaken(older)

GivesUpOnlyOverflow ==
    [][Mild => \/ writtenOff' = writtenOff
               \/ \E p \in Flushers, st \in DOMAIN spool :
                     /\ pc[p] \in {"evict", "reevict"} /\ st \in Entries(cfg[p].dir)
                     /\ Overtaken(st) \/ OldestSurplus(st, cfg[p])
                     /\ writtenOff' = writtenOff \cup SamplesOf({st})]_vars

\* So without the faults that Mild excludes, all else is delivered or still held.
THEOREM OnlyOverflowGivenUp == Spec => GivesUpOnlyOverflow
<1>1. ASSUME TypeOK, SpoolIsMap, ListingsRight, AllIntact, [Next]_vars, Mild,
             writtenOff' # writtenOff
      PROVE  \E p \in Flushers, st \in DOMAIN spool :
                /\ pc[p] \in {"evict", "reevict"} /\ st \in Entries(cfg[p].dir)
                /\ Overtaken(st) \/ OldestSurplus(st, cfg[p])
                /\ writtenOff' = writtenOff \cup SamplesOf({st})
  <2>0. DiskObeys
    BY <1>1 DEF Mild, DiskObeys
  <2>1. PICK p \in Procs : Step(p)
    BY <1>1 DEF Next, Collect, Reload, Stop, Exit, Crash, ProcessEnds, Restart, Corrupt, vars, ledger
  <2>2. ASSUME NEW r \in SendResults(cfg[p].token, SendFaults) PROVE r.answer # "permanent"
    <3>1. cfg[p].token /\ SendFaults \cap {"reject", "redirect"} = {}
      BY <1>1, FaultsOfSends DEF Mild, TypeOK
    <3> QED BY <3>1 DEF SendResults
  <2>3. ~SendSettles(p) /\ ~ResendSettles(p)
    BY <1>1, <2>2 DEF SendSettles, ResendSettles, Settle
  <2>4. \A x : x \notin DOMAIN spool => SamplesOf({x}) = {}
    BY DEF SamplesOf
  <2>5. ~LoadFails(p)
    <3>1. LoadFails(p) => Oldest(paths[p]) \notin DOMAIN spool
      BY <1>1 DEF LoadFails, Mild, AllIntact
    <3>2. LoadFails(p) => writtenOff' \in {writtenOff, writtenOff \cup SamplesOf({Oldest(paths[p])})}
      BY DEF LoadFails
    <3> QED BY <1>1, <2>4, <3>1, <3>2
  <2>6. ~Prune(p)
    <3>1. Prune(p) => writtenOff' = writtenOff \cup SamplesOf({})
      BY <1>1 DEF Prune, Mild, AgedSets
    <3>2. SamplesOf({}) = {}
      BY DEF SamplesOf
    <3> QED BY <1>1, <3>1, <3>2
  <2>7. p \in Flushers /\ Evict(p)
    BY <1>1, <2>1, <2>3, <2>5, <2>6 DEF Step, FlushStep, DrainStep, TimerFires, LoopExits, FlushOnce,
       Push, Pop, SendFails, StoreRefused, StoreFails, PruneFails, Requeue, WriteTemp, Publish, DrainOnce,
       Load, ResendFails, Forget, ledger
  <2>8. /\ pc[p] \in {"evict", "reevict"} /\ spool' = Without({Oldest(paths[p])})
        /\ writtenOff' = writtenOff \cup SamplesOf({Oldest(paths[p])})
    BY <2>7 DEF Evict
  <2>9. Oldest(paths[p]) \in DOMAIN spool
    BY <1>1, <2>4, <2>8
  <2>10. spool' # spool
    BY <2>8, <2>9 DEF Without
  <2>11. /\ Oldest(paths[p]) \in Entries(cfg[p].dir)
         /\ Overtaken(Oldest(paths[p])) \/ OldestSurplus(Oldest(paths[p]), cfg[p])
    BY <1>1, <2>0, <2>7, <2>8, <2>9, <2>10, Overfull, OldestEvicted DEF OldestSurplus
  <2> QED BY <2>7, <2>8, <2>9, <2>11
<1>2. TypeOK /\ SpoolIsMap /\ ListingsRight /\ AllIntact /\ [Next]_vars =>
        [Mild => \/ writtenOff' = writtenOff
                 \/ \E p \in Flushers, st \in DOMAIN spool :
                       /\ pc[p] \in {"evict", "reevict"} /\ st \in Entries(cfg[p].dir)
                       /\ Overtaken(st) \/ OldestSurplus(st, cfg[p])
                       /\ writtenOff' = writtenOff \cup SamplesOf({st})]_vars
  BY <1>1
<1> QED
  BY <1>2, ListingsStayRight, StaysIntact, TypeCorrect, PTL DEF Spec, GivesUpOnlyOverflow

-----------------------------------------------------------------------------
(* No snapshot is in two places. *)

Distinct(s) == \A i, j \in 1..Len(s) : i # j => s[i] # s[j]
Disjoint(S, T) == S \cap T = {}

\* The queue, what each goroutine has in hand that is on no file, and the files
\* share no snapshot; and what is being sent again is shared with its file only.
Apart ==
    /\ Distinct(queue)
    /\ \A p \in Procs : Distinct(Unsaved(p)) /\ Disjoint(ToSet(Unsaved(p)), ToSet(queue))
    /\ \A p, q \in Procs : p # q => Disjoint(ToSet(Unsaved(p)), ToSet(Unsaved(q)))
    /\ \A st \in DOMAIN spool :
          /\ Disjoint(ToSet(spool[st].batch), ToSet(queue))
          /\ \A p \in Procs : Disjoint(ToSet(spool[st].batch), ToSet(Unsaved(p)))
          /\ \A other \in DOMAIN spool \ {st} :
                Disjoint(ToSet(spool[st].batch), ToSet(spool[other].batch))
    /\ \A p \in Procs : pc[p] \in Resending =>
          /\ Disjoint(ToSet(batch[p]), ToSet(queue))
          /\ \A q \in Procs : Disjoint(ToSet(batch[p]), ToSet(Unsaved(q)))
          /\ \A st \in DOMAIN spool \ {Oldest(paths[p])} :
                Disjoint(ToSet(batch[p]), ToSet(spool[st].batch))

LEMMA DistinctJoin ==
    ASSUME NEW s \in Seq(Nat), NEW t \in Seq(Nat)
    PROVE  Distinct(s \o t) <=> Distinct(s) /\ Distinct(t) /\ Disjoint(ToSet(s), ToSet(t))
<1> DEFINE st == s \o t
<1>1. /\ Len(st) = Len(s) + Len(t) /\ Len(s) \in Nat /\ Len(t) \in Nat
      /\ \A i \in 1..Len(s) : st[i] = s[i]
      /\ \A i \in 1..Len(t) : st[Len(s) + i] = t[i]
      /\ \A i \in (Len(s) + 1)..Len(st) : i - Len(s) \in 1..Len(t) /\ st[i] = t[i - Len(s)]
  BY JoinPlaces
<1>2. ToSet(s) = {s[i] : i \in 1..Len(s)} /\ ToSet(t) = {t[i] : i \in 1..Len(t)}
  BY DEF ToSet
<1>3. ASSUME Distinct(st) PROVE Distinct(s) /\ Distinct(t) /\ Disjoint(ToSet(s), ToSet(t))
  <2>1. ASSUME NEW i \in 1..Len(s), NEW j \in 1..Len(s), i # j PROVE s[i] # s[j]
    <3>1. i \in 1..Len(st) /\ j \in 1..Len(st) /\ st[i] = s[i] /\ st[j] = s[j]
      BY <1>1
    <3> QED BY <1>3, <2>1, <3>1 DEF Distinct
  <2>2. ASSUME NEW i \in 1..Len(t), NEW j \in 1..Len(t), i # j PROVE t[i] # t[j]
    <3>1. /\ Len(s) + i \in 1..Len(st) /\ Len(s) + j \in 1..Len(st) /\ Len(s) + i # Len(s) + j
          /\ st[Len(s) + i] = t[i] /\ st[Len(s) + j] = t[j]
      BY <1>1, <2>2
    <3> QED BY <1>3, <3>1 DEF Distinct
  <2>3. ASSUME NEW i \in 1..Len(s), NEW j \in 1..Len(t) PROVE s[i] # t[j]
    <3>1. /\ i \in 1..Len(st) /\ Len(s) + j \in 1..Len(st) /\ i # Len(s) + j
          /\ st[i] = s[i] /\ st[Len(s) + j] = t[j]
      BY <1>1
    <3> QED BY <1>3, <3>1 DEF Distinct
  <2> QED BY <1>2, <2>1, <2>2, <2>3 DEF Distinct, Disjoint
<1>4. ASSUME Distinct(s), Distinct(t), Disjoint(ToSet(s), ToSet(t)) PROVE Distinct(st)
  <2> SUFFICES ASSUME NEW i \in 1..Len(st), NEW j \in 1..Len(st), i < j PROVE st[i] # st[j]
    BY <1>1 DEF Distinct
  <2>1. CASE i \in 1..Len(s) /\ j \in 1..Len(s)
    BY <1>1, <1>4, <2>1 DEF Distinct
  <2>2. CASE i \in 1..Len(s) /\ j \in (Len(s) + 1)..Len(st)
    <3>1. st[i] \in ToSet(s) /\ st[j] \in ToSet(t)
      BY <1>1, <1>2, <2>2
    <3> QED BY <1>4, <3>1 DEF Disjoint
  <2>3. CASE i \in (Len(s) + 1)..Len(st) /\ j \in (Len(s) + 1)..Len(st)
    <3>1. /\ i - Len(s) \in 1..Len(t) /\ j - Len(s) \in 1..Len(t) /\ i - Len(s) # j - Len(s)
          /\ st[i] = t[i - Len(s)] /\ st[j] = t[j - Len(s)]
      BY <1>1, <2>3
    <3> QED BY <1>4, <3>1 DEF Distinct
  <2> QED BY <1>1, <2>1, <2>2, <2>3
<1> QED BY <1>3, <1>4

LEMMA DistinctSplit ==
    ASSUME NEW s \in Seq(Nat), NEW n \in 0..Len(s), Distinct(s)
    PROVE  LET front == SubSeq(s, 1, n)
               back  == SubSeq(s, n + 1, Len(s)) IN
             Distinct(front) /\ Distinct(back) /\ Disjoint(ToSet(front), ToSet(back))
<1> DEFINE front == SubSeq(s, 1, n)
           back  == SubSeq(s, n + 1, Len(s))
<1>1. front \in Seq(Nat) /\ back \in Seq(Nat)
  BY Split
<1>2. front \o back = s
  BY Halves
<1> HIDE DEF front, back
<1>3. Distinct(front) /\ Distinct(back) /\ Disjoint(ToSet(front), ToSet(back))
  BY <1>1, <1>2, DistinctJoin
<1> QED BY <1>3 DEF front, back

LEMMA DistinctEmpty == Distinct(<<>>) /\ \A S : Disjoint(ToSet(<<>>), S) /\ Disjoint(S, ToSet(<<>>))
BY Empty DEF Distinct, Disjoint

\* A step of p keeps the queue and what it has in hand apart.
LEMMA MemoryApart ==
    ASSUME TypeOK, Apart, NEW p \in Procs, Step(p), ~(PruneFails(p) /\ pc[p] \in Published)
    PROVE  /\ Distinct(queue') /\ Distinct(Unsaved(p)')
           /\ Disjoint(ToSet(Unsaved(p)'), ToSet(queue'))
<1> USE DistinctEmpty
<1>0. /\ queue \in Seq(Nat) /\ batch[p] \in Seq(Nat) /\ captured \in Nat
      /\ Distinct(queue) /\ Distinct(Unsaved(p)) /\ Disjoint(ToSet(Unsaved(p)), ToSet(queue))
  BY DEF TypeOK, Taken, Apart
<1>1. CASE TimerFires(p) \/ LoopExits(p) \/ (FlushOnce(p) /\ ~dirty)
  <2>1. queue' = queue /\ Unsaved(p)' = <<>>
    BY <1>1 DEF TimerFires, LoopExits, FlushOnce, Goto, pipeline, Unsaved, TypeOK, Holding, Storing,
       Published
  <2> QED BY <1>0, <2>1
<1>2. CASE FlushOnce(p) /\ dirty
  <2>1. queue' = queue /\ Unsaved(p)' = <<captured + 1>>
    BY <1>2 DEF FlushOnce, Goto, Unsaved, TypeOK, Holding, Storing, Published
  <2>2. ToSet(<<captured + 1>>) = {captured + 1} /\ captured + 1 \notin ToSet(queue)
    BY <1>0, Singleton DEF TypeOK, Taken
  <2>3. Distinct(<<captured + 1>>)
    BY DEF Distinct
  <2> QED BY <1>0, <2>1, <2>2, <2>3 DEF Disjoint
<1>3. CASE Push(p)
  <2>1. Unsaved(p) = batch[p] /\ Unsaved(p)' = <<>> /\ queue' = queue \o batch[p]
    BY <1>3 DEF Push, Goto, Unsaved, TypeOK, Holding, Storing, Published
  <2>2. Distinct(queue')
    BY <1>0, <2>1, DistinctJoin DEF Disjoint
  <2> QED BY <2>1, <2>2
<1>4. CASE Pop(p)
  <2>1. CASE queue = <<>>
    <3>1. queue' = queue /\ Unsaved(p)' = <<>>
      BY <1>4, <2>1 DEF Pop, AfterFlush, Goto, Unsaved, TypeOK, Holding, Storing, Published
    <3> QED BY <1>0, <3>1
  <2>2. CASE queue # <<>>
    <3> DEFINE n == Smaller(cfg[p].batchSize, Len(queue))
    <3>1. n \in 0..Len(queue)
      BY <1>0, ConfigsAssumption DEF TypeOK, Smaller, ConfigType
    <3>2. Unsaved(p)' = SubSeq(queue, 1, n) /\ queue' = SubSeq(queue, n + 1, Len(queue))
      BY <1>4, <2>2 DEF Pop, Goto, Unsaved, TypeOK, Holding, Published
    <3> HIDE DEF n
    <3> QED BY <1>0, <3>1, <3>2, DistinctSplit
  <2> QED BY <2>1, <2>2
<1>5. CASE SendSettles(p) \/ SendFails(p) \/ Prune(p) \/ Evict(p) \/ WriteTemp(p) \/ Publish(p)
  <2>1. /\ queue' = queue
        /\ Unsaved(p)' = Unsaved(p) \/ Unsaved(p)' = <<>>
    BY <1>5 DEF SendSettles, SendFails, Prune, Evict, WriteTemp, Publish, Goto, pipeline, Unsaved,
       TypeOK, Holding, Storing, Published
  <2> QED BY <1>0, <2>1
<1>6. CASE StoreRefused(p) \/ StoreFails(p) \/ PruneFails(p)
  <2>1. /\ pc[p] \in Storing /\ queue' = batch[p] \o queue /\ pc'[p] \notin Holding
    BY <1>6 DEF StoreRefused, StoreFails, PruneFails, Requeue, AfterFlush, Goto, TypeOK,
       Holding, Storing, Published
  <2>2. Unsaved(p) = batch[p] /\ Unsaved(p)' = <<>>
    BY <2>1 DEF Unsaved, Holding, Storing, Published
  <2>3. Distinct(queue')
    BY <1>0, <2>1, <2>2, DistinctJoin
  <2> QED BY <2>2, <2>3
<1>7. CASE \/ DrainOnce(p) \/ Load(p) \/ LoadFails(p) \/ Forget(p)
           \/ ResendSettles(p) \/ ResendFails(p)
  <2>1. queue' = queue /\ Unsaved(p)' = <<>>
    BY <1>7 DEF DrainOnce, Load, LoadFails, Forget, ResendSettles, ResendFails, NextEntry, AfterDrain,
       Goto, Unsaved, TypeOK, pipeline, Holding, Storing, Published
  <2> QED BY <1>0, <2>1
<1> QED BY <1>1, <1>2, <1>3, <1>4, <1>5, <1>6, <1>7 DEF Step, FlushStep, DrainStep

\* What a goroutine sends again it sent before, or has just read from its file.
LEMMA ResendingStep ==
    ASSUME TypeOK, NEW p \in Procs, Step(p), pc'[p] \in Resending
    PROVE  /\ UNCHANGED <<captured, queue, spool>>
           /\ \/ pc[p] \in Resending /\ batch'[p] = batch[p] /\ paths'[p] = paths[p]
              \/ /\ pc[p] = "load" /\ pc'[p] = "resend"
                 /\ Oldest(paths'[p]) \in DOMAIN spool
                 /\ batch'[p] = spool[Oldest(paths'[p])].batch
<1>1. CASE Load(p)
  BY <1>1 DEF Load, Goto, TypeOK, pipeline, disk
<1>2. CASE ResendSettles(p)
  BY <1>2 DEF ResendSettles, Resending, pipeline, disk
<1>3. Load(p) \/ ResendSettles(p)
  BY DEF Step, FlushStep, DrainStep, TimerFires, LoopExits, FlushOnce, Push, Pop, SendSettles,
     SendFails, StoreRefused, StoreFails, PruneFails, Requeue, Prune, Evict, WriteTemp, Publish, DrainOnce,
     LoadFails, ResendFails, Forget, NextEntry, AfterFlush, AfterDrain, Goto, TypeOK, Resending
<1> QED BY <1>1, <1>2, <1>3

\* All numbers are those of snapshots taken.
LEMMA AllTaken ==
    ASSUME TypeOK
    PROVE  /\ captured \in Nat /\ ToSet(queue) \subseteq 1..captured
           /\ \A p \in Procs : ToSet(batch[p]) \subseteq 1..captured
                                /\ ToSet(Unsaved(p)) \subseteq 1..captured
           /\ \A st \in DOMAIN spool : ToSet(spool[st].batch) \subseteq 1..captured
BY Empty DEF TypeOK, Taken, Unsaved

\* In what follows New are the snapshots that the step takes.
LEMMA ApartWithoutNewFile ==
    ASSUME TypeOK, TypeOK', DiskStep, Apart, "pruneError" \notin Faults,
           NEW p \in Procs, Step(p), ~Publish(p)
    PROVE  Apart'
<1> DEFINE New == (captured + 1)..captured'
<1>1. ~PruneFails(p)
  BY DEF PruneFails
<1>2. /\ Distinct(queue') /\ Distinct(Unsaved(p)') /\ Disjoint(ToSet(Unsaved(p)'), ToSet(queue'))
  BY <1>1, MemoryApart
<1>3. ToSet(Unsaved(p)') \cup ToSet(queue') \subseteq ToSet(Unsaved(p)) \cup ToSet(queue) \cup New
  BY <1>1, UnsavedStep
<1>4. \A q \in Procs \ {p} : /\ pc'[q] = pc[q] /\ batch'[q] = batch[q] /\ paths'[q] = paths[q]
                             /\ Unsaved(q)' = Unsaved(q)
  BY OthersUntouched DEF Unsaved
<1>5. DOMAIN spool' \subseteq DOMAIN spool
      /\ \A st \in DOMAIN spool' : spool'[st].batch = spool[st].batch
  BY FilesGo DEF DiskStep
<1>6. \A S : S \subseteq 1..captured => Disjoint(S, New)
  BY AllTaken DEF Disjoint
<1>7. ASSUME NEW S, S \subseteq 1..captured, Disjoint(S, ToSet(Unsaved(p))), Disjoint(S, ToSet(queue))
      PROVE  Disjoint(S, ToSet(Unsaved(p)')) /\ Disjoint(S, ToSet(queue'))
  BY <1>3, <1>6, <1>7 DEF Disjoint
<1> HIDE DEF New
<1>8. ASSUME NEW q \in Procs
      PROVE  Distinct(Unsaved(q)') /\ Disjoint(ToSet(Unsaved(q)'), ToSet(queue'))
  <2>1. CASE q = p
    BY <1>2, <2>1
  <2>2. CASE q # p
    BY <1>4, <1>7, <2>2, AllTaken DEF Apart
  <2> QED BY <2>1, <2>2
<1>9. ASSUME NEW q \in Procs, NEW r \in Procs, q # r
      PROVE  Disjoint(ToSet(Unsaved(q)'), ToSet(Unsaved(r)'))
  <2>1. CASE q # p /\ r # p
    BY <1>4, <1>9, <2>1 DEF Apart
  <2>2. CASE q # p /\ r = p
    BY <1>4, <1>7, <1>9, <2>2, AllTaken DEF Apart
  <2>3. CASE q = p /\ r # p
    <3>1. Disjoint(ToSet(Unsaved(r)'), ToSet(Unsaved(p)'))
      BY <1>4, <1>7, <1>9, <2>3, AllTaken DEF Apart
    <3> QED BY <2>3, <3>1 DEF Disjoint
  <2> QED BY <1>9, <2>1, <2>2, <2>3
<1>10. ASSUME NEW st \in DOMAIN spool'
       PROVE  /\ Disjoint(ToSet(spool'[st].batch), ToSet(queue'))
              /\ \A q \in Procs : Disjoint(ToSet(spool'[st].batch), ToSet(Unsaved(q)'))
              /\ \A other \in DOMAIN spool' \ {st} :
                    Disjoint(ToSet(spool'[st].batch), ToSet(spool'[other].batch))
  <2>1. /\ Disjoint(ToSet(spool'[st].batch), ToSet(queue'))
        /\ Disjoint(ToSet(spool'[st].batch), ToSet(Unsaved(p)'))
    BY <1>5, <1>7, AllTaken DEF Apart
  <2>2. \A q \in Procs \ {p} : Disjoint(ToSet(spool'[st].batch), ToSet(Unsaved(q)'))
    BY <1>4, <1>5 DEF Apart
  <2>3. \A other \in DOMAIN spool' \ {st} :
           Disjoint(ToSet(spool'[st].batch), ToSet(spool'[other].batch))
    BY <1>5 DEF Apart
  <2> QED BY <2>1, <2>2, <2>3
<1>11. ASSUME NEW q \in Procs, pc'[q] \in Resending
       PROVE  /\ Disjoint(ToSet(batch'[q]), ToSet(queue'))
              /\ \A r \in Procs : Disjoint(ToSet(batch'[q]), ToSet(Unsaved(r)'))
              /\ \A st \in DOMAIN spool' \ {Oldest(paths'[q])} :
                    Disjoint(ToSet(batch'[q]), ToSet(spool'[st].batch))
  <2>1. CASE pc[q] \in Resending /\ batch'[q] = batch[q] /\ paths'[q] = paths[q]
    <3>1. /\ Disjoint(ToSet(batch'[q]), ToSet(queue'))
          /\ Disjoint(ToSet(batch'[q]), ToSet(Unsaved(p)'))
      BY <1>7, <2>1, AllTaken DEF Apart
    <3>2. \A r \in Procs \ {p} : Disjoint(ToSet(batch'[q]), ToSet(Unsaved(r)'))
      BY <1>4, <2>1 DEF Apart
    <3>3. \A st \in DOMAIN spool' \ {Oldest(paths'[q])} :
             Disjoint(ToSet(batch'[q]), ToSet(spool'[st].batch))
      BY <1>5, <2>1 DEF Apart
    <3> QED BY <3>1, <3>2, <3>3
  <2>2. CASE /\ q = p /\ UNCHANGED spool
             /\ Oldest(paths'[p]) \in DOMAIN spool
             /\ batch'[p] = spool[Oldest(paths'[p])].batch
    BY <1>10, <2>2
  <2>3. \/ pc[q] \in Resending /\ batch'[q] = batch[q] /\ paths'[q] = paths[q]
        \/ /\ q = p /\ UNCHANGED spool
           /\ Oldest(paths'[p]) \in DOMAIN spool
           /\ batch'[p] = spool[Oldest(paths'[p])].batch
    BY <1>4, <1>11, ResendingStep
  <2> QED BY <2>1, <2>2, <2>3
<1> QED BY <1>2, <1>8, <1>9, <1>10, <1>11 DEF Apart

\* Publish turns what was in hand only into a file.
LEMMA ApartWithNewFile ==
    ASSUME TypeOK, HandsMatchDisk, Apart, NEW p \in Procs, Publish(p)
    PROVE  Apart'
<1>1. /\ Unsaved(p) = batch[p] /\ Unsaved(p)' = <<>> /\ queue' = queue /\ batch' = batch
      /\ \A q \in Procs \ {p} : Unsaved(q)' = Unsaved(q) /\ paths'[q] = paths[q]
      /\ \A q \in Procs : pc'[q] \in Resending => q # p /\ pc[q] \in Resending
  BY DEF Publish, Goto, Unsaved, TypeOK, pipeline, Holding, Storing, Published, Resending
<1>2. PICK new \in 1..clock :
        /\ DOMAIN spool' = DOMAIN spool \cup {new} /\ spool'[new].batch = batch[p]
        /\ new \notin DOMAIN spool
        /\ \A st \in DOMAIN spool : spool'[st] = spool[st]
  BY Renamed
<1> USE DistinctEmpty
<1>3. \A q \in Procs : ToSet(Unsaved(q)') \subseteq ToSet(Unsaved(q))
  BY <1>1, Empty
<1>4. \A q \in Procs : Distinct(Unsaved(q)') /\ Disjoint(ToSet(Unsaved(q)'), ToSet(queue'))
  BY <1>1 DEF Apart
<1>5. \A q, r \in Procs : q # r => Disjoint(ToSet(Unsaved(q)'), ToSet(Unsaved(r)'))
  BY <1>3 DEF Apart, Disjoint
<1>6. ASSUME NEW st \in DOMAIN spool
      PROVE  /\ Disjoint(ToSet(spool'[st].batch), ToSet(queue'))
             /\ \A q \in Procs : Disjoint(ToSet(spool'[st].batch), ToSet(Unsaved(q)'))
             /\ \A other \in DOMAIN spool' \ {st} :
                   Disjoint(ToSet(spool'[st].batch), ToSet(spool'[other].batch))
  <2>1. \A q \in Procs : Disjoint(ToSet(spool'[st].batch), ToSet(Unsaved(q)'))
    BY <1>2, <1>3 DEF Apart, Disjoint
  <2>2. \A other \in DOMAIN spool \ {st} :
           Disjoint(ToSet(spool'[st].batch), ToSet(spool'[other].batch))
    BY <1>2 DEF Apart
  <2>3. Disjoint(ToSet(spool'[st].batch), ToSet(spool'[new].batch))
    BY <1>1, <1>2 DEF Apart
  <2>4. Disjoint(ToSet(spool'[st].batch), ToSet(queue'))
    BY <1>1, <1>2 DEF Apart
  <2> QED BY <1>2, <2>1, <2>2, <2>3, <2>4
<1>7. /\ Disjoint(ToSet(batch[p]), ToSet(queue'))
      /\ \A q \in Procs : Disjoint(ToSet(batch[p]), ToSet(Unsaved(q)'))
      /\ \A other \in DOMAIN spool : Disjoint(ToSet(batch[p]), ToSet(spool'[other].batch))
  <2>1. \A q \in Procs : Disjoint(ToSet(batch[p]), ToSet(Unsaved(q)'))
    BY <1>1 DEF Apart
  <2>2. \A other \in DOMAIN spool : Disjoint(ToSet(batch[p]), ToSet(spool'[other].batch))
    BY <1>1, <1>2 DEF Apart, Disjoint
  <2> QED BY <1>1, <2>1, <2>2 DEF Apart
<1>8. ASSUME NEW q \in Procs, pc'[q] \in Resending
      PROVE  /\ Disjoint(ToSet(batch'[q]), ToSet(queue'))
             /\ \A r \in Procs : Disjoint(ToSet(batch'[q]), ToSet(Unsaved(r)'))
             /\ \A st \in DOMAIN spool' \ {Oldest(paths'[q])} :
                   Disjoint(ToSet(batch'[q]), ToSet(spool'[st].batch))
  <2>0. pc[q] \in Resending /\ paths'[q] = paths[q]
    BY <1>1, <1>8
  <2>1. \A r \in Procs : Disjoint(ToSet(batch'[q]), ToSet(Unsaved(r)'))
    BY <1>1, <1>3, <2>0 DEF Apart, Disjoint
  <2>2. \A st \in DOMAIN spool \ {Oldest(paths'[q])} :
           Disjoint(ToSet(batch'[q]), ToSet(spool'[st].batch))
    BY <1>1, <1>2, <2>0 DEF Apart, Oldest
  <2>3. Disjoint(ToSet(batch'[q]), ToSet(spool'[new].batch))
    BY <1>1, <1>2, <2>0 DEF Apart
  <2>4. Disjoint(ToSet(batch'[q]), ToSet(queue'))
    BY <1>1, <2>0 DEF Apart
  <2> QED BY <1>2, <2>1, <2>2, <2>3, <2>4
<1>9. Distinct(queue')
  BY <1>1 DEF Apart
<1> QED BY <1>2, <1>4, <1>5, <1>6, <1>7, <1>8, <1>9 DEF Apart

LEMMA NextApart ==
    ASSUME TypeOK, TypeOK', HandsMatchDisk, DiskStep, Apart, "pruneError" \notin Faults,
           [Next]_vars
    PROVE  Apart'
<1>1. CASE UNCHANGED <<queue, spool, pc, batch, paths>>
  BY <1>1 DEF Apart, Unsaved, Oldest
<1>2. CASE Exit \/ Crash
  <2>1. /\ queue' = <<>> /\ spool' = spool /\ \A p \in Procs : Unsaved(p)' = <<>>
        /\ \A p \in Procs : pc'[p] \notin Resending
    BY <1>2 DEF Exit, Crash, ProcessEnds, Unsaved, disk, Holding, Storing, Published, Resending
  <2> QED BY <2>1, DistinctEmpty DEF Apart
<1>3. CASE Corrupt
  <2>1. UNCHANGED <<queue, pc, batch, paths>> /\ DOMAIN spool' = DOMAIN spool
    BY <1>3 DEF Corrupt, With, pipeline, locals
  <2>2. \A st \in DOMAIN spool : spool'[st].batch = spool[st].batch
    BY <2>1 DEF DiskStep
  <2> QED BY <2>1, <2>2 DEF Apart, Unsaved, Oldest
<1>4. ASSUME NEW p \in Procs, Step(p) PROVE Apart'
  BY <1>4, ApartWithoutNewFile, ApartWithNewFile
<1> QED
  BY <1>1, <1>2, <1>3, <1>4 DEF Next, Collect, Reload, Stop, Restart, vars, pipeline, locals, disk

-----------------------------------------------------------------------------
(* Duplicates. *)

\* No crash, and the disk does what it is told.
Orderly == Faults \cap {"crash", "deleteError", "pruneError"} = {}

\* What was answered for good is gone from memory, and from the disk but for the
\* file whose sender is about to delete it; outside a shutdown nobody is sending
\* anything of it again.
Unsent ==
    /\ Disjoint(answered, ToSet(queue))
    /\ \A p \in Procs : Disjoint(answered, ToSet(Unsaved(p)))
    /\ \A st \in DOMAIN spool : ~Disjoint(answered, ToSet(spool[st].batch)) =>
          \E p \in Procs : pc[p] = "forget" /\ Oldest(paths[p]) = st
    /\ phase # "stopping" => \A p \in Procs : pc[p] = "resend" => Disjoint(answered, ToSet(batch[p]))
    /\ pc["flush"] \notin Resending

\* Only the end of a Send answers for anything.
LEMMA Answering ==
    ASSUME NEW p \in Procs, Step(p)
    PROVE  \/ answered' = answered
           \/ /\ SendSettles(p) \/ ResendSettles(p)
              /\ answered' = answered \cup ToSet(batch[p])
<1>1. CASE TimerFires(p) \/ LoopExits(p) \/ FlushOnce(p) \/ Push(p) \/ Pop(p)
  BY <1>1 DEF TimerFires, LoopExits, FlushOnce, Push, Pop, ledger
<1>2. CASE SendSettles(p) \/ ResendSettles(p)
  BY <1>2 DEF SendSettles, ResendSettles, Settle
<1>3. CASE SendFails(p) \/ ResendFails(p)
  BY <1>3 DEF SendFails, ResendFails
<1>4. CASE StoreRefused(p) \/ StoreFails(p) \/ PruneFails(p) \/ WriteTemp(p) \/ Publish(p)
  BY <1>4 DEF StoreRefused, StoreFails, PruneFails, Requeue, WriteTemp, Publish, ledger
<1>5. CASE Prune(p) \/ Evict(p)
  BY <1>5 DEF Prune, Evict
<1>6. CASE DrainOnce(p) \/ Load(p) \/ LoadFails(p) \/ Forget(p)
  BY <1>6 DEF DrainOnce, Load, LoadFails, Forget, ledger
<1> QED BY <1>1, <1>2, <1>3, <1>4, <1>5, <1>6 DEF Step, FlushStep, DrainStep

\* What is sent is apart from all the rest, but for its file.
LEMMA NowAnswered ==
    ASSUME TypeOK, HandsMatchDisk, Apart, Unsent, FlushesAlone, NEW p \in Procs, Step(p),
           SendSettles(p) \/ ResendSettles(p), answered' = answered \cup ToSet(batch[p])
    PROVE  Unsent'
<1>1. /\ queue' = queue /\ spool' = spool /\ paths' = paths /\ phase' = phase
      /\ \A q \in Procs \ {p} : pc'[q] = pc[q] /\ batch'[q] = batch[q] /\ Unsaved(q)' = Unsaved(q)
      /\ Unsaved(p)' = <<>>
  <2>1. /\ queue' = queue /\ spool' = spool /\ paths' = paths /\ phase' = phase
        /\ Unsaved(p)' = <<>>
    BY DEF SendSettles, ResendSettles, Goto, Unsaved, TypeOK, pipeline, disk, Holding, Storing,
       Published
  <2> QED BY <2>1, OthersUntouched DEF Unsaved
<1>2. SendSettles(p) => /\ pc[p] = "send" /\ pc'[p] = "pop" /\ Unsaved(p) = batch[p]
  BY DEF SendSettles, Goto, Unsaved, TypeOK, Holding, Published
<1>3. ResendSettles(p) => pc[p] = "resend" /\ pc'[p] = "forget" /\ batch' = batch
  BY DEF ResendSettles, Goto, TypeOK
<1>4. /\ Disjoint(ToSet(batch[p]), ToSet(queue))
      /\ \A q \in Procs \ {p} : Disjoint(ToSet(batch[p]), ToSet(Unsaved(q)))
  BY <1>2, <1>3 DEF Apart, Resending
<1>5. Disjoint(answered', ToSet(queue'))
  BY <1>1, <1>4 DEF Unsent, Disjoint
<1>6. ASSUME NEW q \in Procs PROVE Disjoint(answered', ToSet(Unsaved(q)'))
  <2>1. CASE q = p
    BY <1>1, <2>1, DistinctEmpty
  <2>2. CASE q # p
    BY <1>1, <1>4, <2>2 DEF Unsent, Disjoint
  <2> QED BY <2>1, <2>2
<1>7. ASSUME NEW st \in DOMAIN spool', ~Disjoint(answered', ToSet(spool'[st].batch))
      PROVE  \E q \in Procs : pc'[q] = "forget" /\ Oldest(paths'[q]) = st
  <2>1. CASE ~Disjoint(answered, ToSet(spool[st].batch))
    <3>1. PICK q \in Procs : pc[q] = "forget" /\ Oldest(paths[q]) = st
      BY <1>1, <1>7, <2>1 DEF Unsent
    <3>2. q # p
      BY <1>2, <1>3, <3>1
    <3> QED BY <1>1, <3>1, <3>2
  <2>2. CASE ~Disjoint(ToSet(batch[p]), ToSet(spool[st].batch))
    <3>1. ResendSettles(p) /\ Oldest(paths[p]) = st
      BY <1>1, <1>2, <1>3, <1>7, <2>2 DEF Apart, Disjoint, Resending
    <3> QED BY <1>1, <1>3, <3>1
  <2> QED BY <1>1, <1>7, <2>1, <2>2 DEF Disjoint
<1>8. ASSUME phase' # "stopping", NEW q \in Procs, pc'[q] = "resend"
      PROVE  Disjoint(answered', ToSet(batch'[q]))
  <2>1. q # p /\ pc[q] = "resend" /\ batch'[q] = batch[q]
    BY <1>1, <1>2, <1>3, <1>8
  <2>2. phase # "stopping" /\ pc["main"] = "asleep" /\ pc["flush"] \notin Resending
    BY <1>1, <1>8 DEF FlushesAlone, Unsent
  <2>3. q = "drain" /\ p # "main"
    BY <1>2, <1>3, <2>1, <2>2 DEF Procs, Flushers, Drainers, Resending
  <2>4. SendSettles(p)
    BY <1>3, <2>1, <2>2, <2>3 DEF Procs, Flushers, Drainers, Resending
  <2>5. Disjoint(ToSet(batch[p]), ToSet(batch[q]))
    BY <1>2, <2>1, <2>4 DEF Apart, Disjoint, Resending
  <2> QED BY <2>1, <2>2, <2>5 DEF Unsent, Disjoint
<1>9. pc'["flush"] \notin Resending
  <2>1. ~(p = "flush" /\ ResendSettles(p))
    BY <1>3 DEF Unsent, Resending
  <2> QED BY <1>1, <1>2, <2>1 DEF Unsent, Resending, Procs, Flushers
<1> QED BY <1>5, <1>6, <1>7, <1>8, <1>9 DEF Unsent

\* A step with which nothing is answered.
LEMMA StillUnsent ==
    ASSUME TypeOK, TypeOK', HandsMatchDisk, DiskStep, Apart, Unsent, FlushesAlone, Orderly,
           NEW p \in Procs, Step(p), answered' = answered
    PROVE  Unsent'
<1>1. "pruneError" \notin Faults /\ "deleteError" \notin Faults /\ ~PruneFails(p)
  BY DEF Orderly, PruneFails
<1>2. ToSet(Unsaved(p)') \cup ToSet(queue')
        \subseteq ToSet(Unsaved(p)) \cup ToSet(queue) \cup ((captured + 1)..captured')
  BY <1>1, UnsavedStep
<1>3. answered \subseteq 1..captured /\ captured \in Nat
  BY DEF TypeOK
<1>4. Disjoint(answered', ToSet(queue')) /\ Disjoint(answered', ToSet(Unsaved(p)'))
  BY <1>2, <1>3 DEF Unsent, Disjoint
<1>5. \A q \in Procs \ {p} : /\ pc'[q] = pc[q] /\ batch'[q] = batch[q] /\ paths'[q] = paths[q]
                             /\ Unsaved(q)' = Unsaved(q)
  BY OthersUntouched DEF Unsaved
<1>6. \A q \in Procs : Disjoint(answered', ToSet(Unsaved(q)'))
  BY <1>4, <1>5 DEF Unsent
<1>7. ASSUME NEW st \in DOMAIN spool', ~Disjoint(answered', ToSet(spool'[st].batch))
      PROVE  \E q \in Procs : pc'[q] = "forget" /\ Oldest(paths'[q]) = st
  <2>1. CASE st \in DOMAIN spool
    <3>1. spool'[st].batch = spool[st].batch
      BY <1>7, <2>1 DEF DiskStep
    <3>2. PICK q \in Procs : pc[q] = "forget" /\ Oldest(paths[q]) = st
      BY <1>7, <2>1, <3>1 DEF Unsent
    <3>3. CASE q # p
      BY <1>5, <3>2, <3>3
    <3>4. CASE q = p
      <4>1. Forget(p)
        BY <3>2, <3>4 DEF Step, FlushStep, DrainStep, TimerFires, LoopExits, FlushOnce, Push, Pop,
           SendSettles, SendFails, StoreRefused, StoreFails, PruneFails, Prune, Evict, WriteTemp, Publish,
           DrainOnce, Load, LoadFails, ResendSettles, ResendFails, Published
      <4>2. st \notin DOMAIN spool'
        BY <1>1, <3>2, <3>4, <4>1 DEF Forget, Without
      <4> QED BY <1>7, <4>2
    <3> QED BY <3>3, <3>4
  <2>2. CASE st \notin DOMAIN spool
    <3>1. Publish(p)
      BY <1>7, <2>2, FilesGo
    <3>2. spool'[st].batch = batch[p] /\ Unsaved(p) = batch[p]
      <4>1. spool'[st].batch = batch[p]
        BY <1>7, <2>2, <3>1, Renamed
      <4>2. Unsaved(p) = batch[p]
        BY <3>1 DEF Publish, Unsaved, Holding, Storing, Published
      <4> QED BY <4>1, <4>2
    <3> QED BY <1>7, <3>2 DEF Unsent
  <2> QED BY <2>1, <2>2
<1>8. phase' = phase
  BY DEF Step, FlushStep, DrainStep, TimerFires, LoopExits, FlushOnce, Push, Pop,
     SendSettles, SendFails, StoreRefused, StoreFails, PruneFails, Requeue, Prune, Evict,
     WriteTemp, Publish, DrainOnce, Load, LoadFails, ResendSettles, ResendFails, Forget
<1>9. pc'["flush"] \notin Resending
  <2>1. CASE p # "flush"
    BY <1>5, <2>1 DEF Unsent, Procs, Flushers
  <2>2. CASE p = "flush"
    BY <2>2, ResendingStep DEF Unsent, Step, FlushStep, Drainers, TimerFires, LoopExits, FlushOnce,
       Push, Pop, SendSettles, SendFails, StoreRefused, StoreFails, PruneFails, Requeue, Prune,
       Evict, WriteTemp, Publish, AfterFlush, Goto, TypeOK, Resending
  <2> QED BY <2>1, <2>2
<1>10. ASSUME phase' # "stopping", NEW q \in Procs, pc'[q] = "resend"
       PROVE  Disjoint(answered', ToSet(batch'[q]))
  <2>1. CASE pc[q] = "resend" /\ batch'[q] = batch[q]
    BY <1>8, <1>10, <2>1 DEF Unsent
  <2>2. CASE /\ q = p /\ pc[p] = "load" /\ Oldest(paths'[p]) \in DOMAIN spool
             /\ batch'[p] = spool[Oldest(paths'[p])].batch
    <3>1. pc["main"] = "asleep" /\ pc["flush"] # "forget"
      BY <1>8, <1>10 DEF FlushesAlone, Unsent, Resending
    <3>2. p # "flush" /\ p # "main"
      BY <1>9, <1>10, <2>2, <3>1 DEF Resending
    <3>3. \A r \in Procs : pc[r] # "forget"
      BY <2>2, <3>1, <3>2 DEF Procs, Flushers, Drainers
    <3> QED BY <2>2, <3>3 DEF Unsent
  <2>3. \/ pc[q] = "resend" /\ batch'[q] = batch[q]
        \/ /\ q = p /\ pc[p] = "load" /\ Oldest(paths'[p]) \in DOMAIN spool
           /\ batch'[p] = spool[Oldest(paths'[p])].batch
    <3>1. CASE q # p
      BY <1>5, <1>10, <3>1
    <3>2. CASE q = p
      <4>1. pc[p] # "forget" \/ ~(pc'[p] = "resend")
        BY DEF Step, FlushStep, DrainStep, TimerFires, LoopExits, FlushOnce, Push, Pop,
           SendSettles, SendFails, StoreRefused, StoreFails, PruneFails, Prune, Evict, WriteTemp, Publish,
           DrainOnce, Load, LoadFails, ResendSettles, ResendFails, Forget, NextEntry, AfterDrain,
           Goto, TypeOK, Published
      <4> QED BY <1>10, <3>2, <4>1, ResendingStep DEF Resending
    <3> QED BY <3>1, <3>2
  <2> QED BY <2>1, <2>2, <2>3
<1> QED BY <1>4, <1>6, <1>7, <1>9, <1>10 DEF Unsent

LEMMA NextUnsent ==
    ASSUME TypeOK, TypeOK', HandsMatchDisk, DiskStep, Apart, Unsent, FlushesAlone, Orderly,
           [Next]_vars
    PROVE  Unsent'
<1>1. CASE UNCHANGED <<phase, queue, spool, pc, batch, paths, answered>>
  BY <1>1 DEF Unsent, Unsaved, Oldest
<1>2. CASE Stop
  BY <1>2 DEF Stop, Unsent, Unsaved, Oldest, pipeline, disk, locals, ledger
<1>3. CASE Restart
  <2>1. phase = "down" /\ UNCHANGED <<queue, spool, pc, batch, paths, answered>>
    BY <1>3 DEF Restart, pipeline, disk, locals, ledger
  <2> QED BY <2>1 DEF Unsent, Unsaved, Oldest
<1>4. CASE Exit
  <2>1. /\ queue' = <<>> /\ spool' = spool /\ answered' = answered
        /\ \A p \in Procs : Unsaved(p)' = <<>> /\ pc'[p] = "asleep"
    BY <1>4 DEF Exit, ProcessEnds, Unsaved, disk, Holding, Storing, Published
  <2>2. \A p \in Procs : pc[p] # "forget"
    BY <1>4 DEF Exit, Procs
  <2>3. \A st \in DOMAIN spool : Disjoint(answered, ToSet(spool[st].batch))
    BY <2>2 DEF Unsent
  <2> QED BY <2>1, <2>3, DistinctEmpty DEF Unsent, Procs, Flushers, Resending
<1>5. ~Crash
  BY DEF Crash, Orderly
<1>6. CASE Corrupt
  <2>1. UNCHANGED <<phase, queue, pc, batch, paths, answered>> /\ DOMAIN spool' = DOMAIN spool
    BY <1>6 DEF Corrupt, With, pipeline, locals, ledger
  <2>2. \A st \in DOMAIN spool : spool'[st].batch = spool[st].batch
    BY <2>1 DEF DiskStep
  <2>3. \A p \in Procs : Unsaved(p)' = Unsaved(p) /\ Oldest(paths'[p]) = Oldest(paths[p])
    BY <2>1 DEF Unsaved, Oldest
  <2> QED BY <2>1, <2>2, <2>3 DEF Unsent
<1>7. ASSUME NEW p \in Procs, Step(p) PROVE Unsent'
  BY <1>7, Answering, NowAnswered, StillUnsent
<1> QED
  BY <1>1, <1>2, <1>3, <1>4, <1>5, <1>6, <1>7 DEF Next, Collect, Reload, vars, pipeline, disk,
     locals, ledger

\* With a disk that does what it is told and no crash, no batch is sent after
\* Send has answered for good for a snapshot of it, but in a shutdown, where main
\* drains beside the drain loop; this holds through stops and restarts, whether
\* answers are lost or requests cut short (agent.go:131-132, 313-335, 338-366).
THEOREM DuplicatesConfined == Spec => SentAgainOnlyUnanswered
<1> DEFINE IInv == Orderly => Apart /\ Unsent
<1>1. Init => IInv
  <2> SUFFICES ASSUME Init PROVE Apart /\ Unsent
    OBVIOUS
  <2>1. /\ queue = <<>> /\ DOMAIN spool = {} /\ \A p \in Procs : Unsaved(p) = <<>>
        /\ \A p \in Procs : pc[p] = "asleep"
    BY DEF Init, Unsaved, Holding, Storing, Published
  <2> QED BY <2>1, DistinctEmpty DEF Apart, Unsent, Resending, Procs, Flushers
<1>2. TypeOK /\ TypeOK' /\ HandsMatchDisk /\ FlushesAlone /\ IInv /\ [Next]_vars => IInv'
  <2> SUFFICES ASSUME TypeOK, TypeOK', HandsMatchDisk, FlushesAlone, Apart, Unsent, Orderly,
                      [Next]_vars
               PROVE  Apart' /\ Unsent'
    BY DEF Orderly
  <2>1. DiskStep /\ "pruneError" \notin Faults
    BY NextDisk DEF Orderly
  <2> QED BY <2>1, NextApart, NextUnsent
<1>3. ASSUME IInv, Orderly, phase # "stopping", NEW p \in Procs, pc[p] \in {"send", "resend"}
      PROVE  ToSet(batch[p]) \cap answered = {}
  <2>1. CASE pc[p] = "send"
    BY <1>3, <2>1 DEF Unsent, Unsaved, Disjoint, Holding, Published
  <2>2. CASE pc[p] = "resend"
    BY <1>3, <2>2 DEF Unsent, Disjoint
  <2> QED BY <1>3, <2>1, <2>2
<1>4. IInv =>
        [Faults \cap {"crash", "deleteError", "pruneError"} = {} /\ phase # "stopping" =>
           \A p \in Procs :
             pc[p] \in {"send", "resend"} /\ pc'[p] # pc[p]
               => ToSet(batch[p]) \cap answered = {}]_vars
  BY <1>3 DEF Orderly
<1> QED
  BY <1>1, <1>2, <1>4, TypeCorrect, HandsCorrect, Alone, PTL DEF Spec, SentAgainOnlyUnanswered

-----------------------------------------------------------------------------
(* The spool is bounded. *)

\* What a goroutine in the Prune after the rename is about to evict from a
\* directory, and how many files more than max_batches it accounts for when the
\* files that those of X are about to evict are not counted.
Doomed(p, dir) == IF pc[p] = "reevict" /\ cfg[p].dir = dir THEN paths[p] ELSE {}
Excess(p, dir, X) ==
    IF cfg[p].dir = dir /\ (pc[p] = "rescan" \/ (pc[p] = "reevict" /\ p \notin X))
    THEN 1 ELSE 0
Spared(dir, X) == Entries(dir) \ UNION {Doomed(p, dir) : p \in X}

\* No configuration for the directory keeps more.
Caps(dir) == {m \in Nat : \A c \in Configs : c.dir = dir => c.maxBatches <= m}
WithinExcess ==
    \A dir \in {c.dir : c \in Configs}, X \in SUBSET Flushers : \A m \in Caps(dir) :
        Cardinality(Spared(dir, X)) <= m + Excess("flush", dir, X) + Excess("main", dir, X)

LEMMA Fewer ==
    ASSUME NEW T, IsFiniteSet(T), NEW S, S \subseteq T
    PROVE  /\ IsFiniteSet(S) /\ Cardinality(S) \in Nat /\ Cardinality(T) \in Nat
           /\ Cardinality(S) <= Cardinality(T)
BY FS_Subset, FS_CardinalityType

\* Without its surplus a directory has at most max_batches files.
LEMMA SurplusLeaves ==
    ASSUME NEW kept \in SUBSET Nat, IsFiniteSet(kept), NEW m \in Nat
    PROVE  Cardinality(kept \ Surplus(kept, m)) <= m
<1> DEFINE rest == kept \ Surplus(kept, m)
           newer(y) == {other \in kept : other > y}
<1>1. CASE rest = {}
  BY <1>1, FS_EmptySet
<1>2. CASE rest # {}
  <2> DEFINE x == Oldest(rest)
  <2>1. x \in rest /\ (\A y \in rest : x <= y) /\ rest \subseteq kept
    <3>1. rest \in SUBSET Nat
      OBVIOUS
    <3> HIDE DEF rest
    <3>2. x \in rest /\ \A y \in rest : x <= y
      BY <1>2, <3>1, Least
    <3> QED BY <3>2 DEF rest
  <2>2. ~(Cardinality(newer(x)) >= m)
    BY <2>1 DEF Surplus
  <2>3. rest \subseteq newer(x) \cup {x}
    <3> SUFFICES ASSUME NEW y \in rest, y # x PROVE y \in newer(x)
      OBVIOUS
    <3>1. y \in kept /\ y \in Nat /\ x \in Nat /\ x <= y
      BY <2>1
    <3> QED BY <3>1
  <2> HIDE DEF rest, x
  <2>4. IsFiniteSet(newer(x)) /\ Cardinality(newer(x)) \in Nat
    BY Fewer
  <2> HIDE DEF newer
  <2>5. /\ IsFiniteSet(newer(x) \cup {x}) /\ Cardinality(newer(x) \cup {x}) \in Nat
        /\ Cardinality(newer(x) \cup {x}) <= Cardinality(newer(x)) + 1
    BY <2>4, FS_AddElement, FS_CardinalityType
  <2>6. Cardinality(rest) \in Nat /\ Cardinality(rest) <= Cardinality(newer(x) \cup {x})
    BY <2>3, <2>5, Fewer
  <2>7. Cardinality(rest) <= m
    BY <2>2, <2>4, <2>5, <2>6
  <2> QED BY <2>7 DEF rest
<1> QED BY <1>1, <1>2

LEMMA NextExcess ==
    ASSUME TypeOK, TypeOK', HandsMatchDisk, DiskStep, WithinExcess, [Next]_vars,
           Faults \cap {"crash", "pruneError", "deleteError"} = {}
    PROVE  WithinExcess'
<1> SUFFICES ASSUME NEW dir \in {c.dir : c \in Configs}, NEW X \in SUBSET Flushers,
                    NEW m \in Caps(dir)
             PROVE  Cardinality(Spared(dir, X)')
                      <= m + Excess("flush", dir, X)' + Excess("main", dir, X)'
  BY DEF WithinExcess, Caps
<1>0. /\ m \in Nat
      /\ \A q, Y : Excess(q, dir, Y) \in {0, 1} /\ Excess(q, dir, X)' \in {0, 1}
      /\ "flush" \in Procs /\ "main" \in Procs /\ Flushers = {"flush", "main"}
      /\ Flushers \subseteq Procs
  BY DEF Caps, Excess, Procs, Flushers
\* It is enough that the files left were left before, and accounted for.
<1>1. ASSUME NEW Y \in SUBSET Flushers, Spared(dir, X)' \subseteq Spared(dir, Y),
             \A q \in Flushers : Excess(q, dir, Y) <= Excess(q, dir, X)'
      PROVE  Cardinality(Spared(dir, X)')
               <= m + Excess("flush", dir, X)' + Excess("main", dir, X)'
  <2>1. IsFiniteSet(Spared(dir, Y))
    <3>1. Spared(dir, Y) \subseteq Entries(dir)
      BY DEF Spared
    <3> QED BY <3>1, EntriesFinite, Fewer
  <2>2. /\ Cardinality(Spared(dir, X)') \in Nat /\ Cardinality(Spared(dir, Y)) \in Nat
        /\ Cardinality(Spared(dir, X)') <= Cardinality(Spared(dir, Y))
    BY <1>1, <2>1, Fewer
  <2>3. Cardinality(Spared(dir, Y)) <= m + Excess("flush", dir, Y) + Excess("main", dir, Y)
    BY DEF WithinExcess
  <2>4. /\ Excess("flush", dir, Y) <= Excess("flush", dir, X)'
        /\ Excess("main", dir, Y) <= Excess("main", dir, X)'
    BY <1>0, <1>1
  <2>5. /\ Excess("flush", dir, Y) \in {0, 1} /\ Excess("main", dir, Y) \in {0, 1}
        /\ Excess("flush", dir, X)' \in {0, 1} /\ Excess("main", dir, X)' \in {0, 1}
    BY <1>0
  <2> QED BY <1>0, <2>2, <2>3, <2>4, <2>5
\* A step that adds no file and in which nobody begins or ends its Prune.
<1>2. ASSUME Entries(dir)' \subseteq Entries(dir),
             \A q \in Flushers : Doomed(q, dir)' = Doomed(q, dir)
                                  /\ Excess(q, dir, X)' = Excess(q, dir, X)
      PROVE  Cardinality(Spared(dir, X)')
               <= m + Excess("flush", dir, X)' + Excess("main", dir, X)'
  <2>1. Spared(dir, X)' \subseteq Spared(dir, X)
    BY <1>2 DEF Spared
  <2> QED BY <1>0, <1>1, <1>2, <2>1
<1>3. ASSUME DOMAIN spool' \subseteq DOMAIN spool
      PROVE  Entries(dir)' \subseteq Entries(dir)
  BY <1>3 DEF DiskStep, Entries
<1>4. CASE UNCHANGED <<spool, pc, cfg, paths>>
  BY <1>2, <1>3, <1>4 DEF Doomed, Excess
<1>5. CASE Exit
  <2>1. \A q \in Procs : pc[q] \notin Published
    BY <1>5 DEF Exit, Published
  <2>2. \A q \in Procs : pc'[q] \notin Published
    BY <1>5 DEF Exit, ProcessEnds, Published
  <2>3. spool' = spool
    BY <1>5 DEF Exit, ProcessEnds, disk
  <2> QED BY <1>0, <1>2, <1>3, <2>1, <2>2, <2>3 DEF Doomed, Excess, Published
<1>6. CASE Corrupt
  <2>1. UNCHANGED <<pc, cfg, paths>> /\ DOMAIN spool' = DOMAIN spool
    BY <1>6 DEF Corrupt, With, locals
  <2> QED BY <1>2, <1>3, <2>1 DEF Doomed, Excess
<1>7. ASSUME NEW p \in Procs, Step(p)
      PROVE  Cardinality(Spared(dir, X)')
               <= m + Excess("flush", dir, X)' + Excess("main", dir, X)'
  <2>1. \A q \in Flushers \ {p} : /\ Doomed(q, dir)' = Doomed(q, dir)
                                  /\ \A Y : Excess(q, dir, Y)' = Excess(q, dir, Y)
    BY <1>0, <1>7, OthersUntouched DEF Doomed, Excess
  <2>2. CASE /\ DOMAIN spool' \subseteq DOMAIN spool
             /\ Doomed(p, dir)' = Doomed(p, dir) /\ Excess(p, dir, X)' = Excess(p, dir, X)
    BY <1>2, <1>3, <2>1, <2>2
  <2>3. CASE pc[p] \notin Published /\ pc'[p] \notin Published /\ ~Publish(p)
    <3>1. DOMAIN spool' \subseteq DOMAIN spool
      BY <1>7, <2>3, FilesGo
    <3> QED BY <2>2, <2>3, <3>1 DEF Doomed, Excess, Published
  <2>4. CASE Publish(p)
    <3>1. pc[p] = "publish" /\ pc'[p] = "rescan" /\ cfg' = cfg
      BY <2>4 DEF Publish, Goto, TypeOK
    <3>2. PICK new \in 1..clock :
             Entries(dir)' \subseteq Entries(dir) \cup (IF cfg[p].dir = dir THEN {new} ELSE {})
      <4>1. PICK new \in 1..clock :
              /\ DOMAIN spool' = DOMAIN spool \cup {new} /\ spool'[new].dir = cfg[p].dir
              /\ \A x \in DOMAIN spool : spool'[x] = spool[x]
        BY <2>4, Renamed
      <4> QED BY <4>1 DEF Entries
    <3>3. CASE cfg[p].dir # dir
      BY <1>2, <2>1, <3>1, <3>2, <3>3 DEF Doomed, Excess
    <3>4. CASE cfg[p].dir = dir
      <4>1. Excess(p, dir, X) = 0 /\ Excess(p, dir, X)' = 1
            /\ Doomed(p, dir) = {} /\ Doomed(p, dir)' = {}
        BY <3>1, <3>4 DEF Excess, Doomed
      <4>2. p \in Flushers
        BY <2>4, <1>7 DEF Publish, Step, DrainStep, TimerFires, LoopExits, DrainOnce, Load, LoadFails,
           ResendSettles, ResendFails, Forget
      <4>3. Spared(dir, X)' \subseteq Spared(dir, X) \cup {new}
        <5>1. \A q \in X : Doomed(q, dir)' = Doomed(q, dir)
          BY <2>1, <4>1
        <5> QED BY <3>2, <3>4, <5>1 DEF Spared
      <4>4. IsFiniteSet(Spared(dir, X)) /\ Cardinality(Spared(dir, X)) \in Nat
        <5>1. Spared(dir, X) \subseteq Entries(dir)
          BY DEF Spared
        <5> QED BY <5>1, EntriesFinite, Fewer
      <4>5. /\ IsFiniteSet(Spared(dir, X) \cup {new})
            /\ Cardinality(Spared(dir, X) \cup {new}) <= Cardinality(Spared(dir, X)) + 1
        <5> DEFINE S == Spared(dir, X)
        <5> HIDE DEF S
        <5>1. IsFiniteSet(S) => /\ IsFiniteSet(S \cup {new})
                                /\ Cardinality(S \cup {new}) =
                                     IF new \in S THEN Cardinality(S) ELSE Cardinality(S) + 1
          BY FS_AddElement
        <5> QED BY <4>4, <5>1 DEF S
      <4>6. /\ Cardinality(Spared(dir, X)') \in Nat
            /\ Cardinality(Spared(dir, X) \cup {new}) \in Nat
            /\ Cardinality(Spared(dir, X)') <= Cardinality(Spared(dir, X) \cup {new})
        BY <4>3, <4>5, Fewer
      <4>7. Cardinality(Spared(dir, X)) <= m + Excess("flush", dir, X) + Excess("main", dir, X)
        BY DEF WithinExcess
      <4>8. Excess("flush", dir, X)' + Excess("main", dir, X)'
              = Excess("flush", dir, X) + Excess("main", dir, X) + 1
        <5>1. CASE p = "flush"
          <6>1. Excess("main", dir, X)' = Excess("main", dir, X)
            BY <1>0, <2>1, <5>1
          <6> QED BY <1>0, <4>1, <5>1, <6>1
        <5>2. CASE p = "main"
          <6>1. Excess("flush", dir, X)' = Excess("flush", dir, X)
            BY <1>0, <2>1, <5>2
          <6> QED BY <1>0, <4>1, <5>2, <6>1
        <5> QED BY <1>0, <4>2, <5>1, <5>2
      <4>9. /\ Excess("flush", dir, X) \in {0, 1} /\ Excess("main", dir, X) \in {0, 1}
            /\ Excess("flush", dir, X)' \in {0, 1} /\ Excess("main", dir, X)' \in {0, 1}
        BY <1>0
      <4> QED BY <1>0, <4>4, <4>5, <4>6, <4>7, <4>8, <4>9
    <3> QED BY <3>3, <3>4
  <2>5. CASE Prune(p) /\ pc[p] = "rescan"
    <3> DEFINE here    == Entries(cfg[p].dir)
               surplus == Surplus(here', cfg[p].maxBatches)
    <3>1. /\ cfg' = cfg /\ DOMAIN spool' \subseteq DOMAIN spool /\ paths'[p] = surplus
          /\ IF surplus = {} THEN pc'[p] = "pop" ELSE pc'[p] = "reevict"
      BY <2>5, PruneListing
    <3>2. CASE cfg[p].dir # dir
      <4>1. Doomed(p, dir)' = Doomed(p, dir) /\ Excess(p, dir, X)' = Excess(p, dir, X)
        BY <3>1, <3>2 DEF Doomed, Excess
      <4> QED BY <2>2, <3>1, <4>1
    <3>3. CASE cfg[p].dir = dir /\ (p \in X \/ pc'[p] = "pop")
      <4>1. Spared(dir, X)' \subseteq Entries(dir)' \ surplus
        BY <3>1, <3>3 DEF Spared, Doomed
      <4>2. IsFiniteSet(Entries(dir)') /\ Entries(dir)' \in SUBSET Nat
        BY FiniteAfter
      <4>3. cfg[p].maxBatches \in Nat /\ cfg[p].maxBatches <= m
        <5>1. cfg[p] \in Configs /\ cfg[p] \in ConfigType
          BY ConfigsAssumption DEF TypeOK
        <5> QED BY <3>3, <5>1 DEF ConfigType, Caps
      <4>4. surplus = Surplus(Entries(dir)', cfg[p].maxBatches)
        BY <3>1, <3>3 DEF Entries
      <4> HIDE DEF surplus
      <4>5. /\ Cardinality(Entries(dir)' \ surplus) <= cfg[p].maxBatches
            /\ IsFiniteSet(Entries(dir)' \ surplus)
        BY <4>2, <4>3, <4>4, SurplusLeaves, Fewer
      <4>6. /\ Cardinality(Spared(dir, X)') \in Nat /\ Cardinality(Entries(dir)' \ surplus) \in Nat
            /\ Cardinality(Spared(dir, X)') <= Cardinality(Entries(dir)' \ surplus)
        BY <4>1, <4>5, Fewer
      <4>7. Excess("flush", dir, X)' \in {0, 1} /\ Excess("main", dir, X)' \in {0, 1}
        BY <1>0
      <4> QED BY <1>0, <4>3, <4>5, <4>6, <4>7
    <3>4. CASE cfg[p].dir = dir /\ p \notin X /\ pc'[p] = "reevict"
      <4>1. Excess(p, dir, X) = 1 /\ Excess(p, dir, X)' = 1
        BY <2>5, <3>1, <3>4 DEF Excess
      <4>2. Spared(dir, X)' \subseteq Spared(dir, X)
        BY <1>3, <2>1, <3>1, <3>4 DEF Spared
      <4>3. \A q \in Flushers : Excess(q, dir, X) <= Excess(q, dir, X)'
        BY <1>0, <2>1, <4>1
      <4> QED BY <1>1, <4>2, <4>3
    <3> QED BY <3>1, <3>2, <3>3, <3>4
  <2>6. CASE Evict(p) /\ pc[p] = "reevict"
    <3> DEFINE st == Oldest(paths[p])
    <3>1. /\ cfg' = cfg /\ spool' = Without({st})
          /\ paths'[p] = paths[p] \ {st}
          /\ IF paths'[p] = {} THEN pc'[p] = "pop" ELSE pc'[p] = "reevict"
      BY <2>6 DEF Evict, Goto, TypeOK
    <3>2. DOMAIN spool' \subseteq DOMAIN spool /\ st \notin DOMAIN spool'
      BY <3>1 DEF Without
    <3> DEFINE Y == IF pc'[p] = "pop" THEN X \cup {p} ELSE X
    <3>3. p \in Flushers
      BY <1>7, <2>6 DEF Evict, Step, DrainStep, TimerFires, LoopExits, DrainOnce, Load, LoadFails,
         ResendSettles, ResendFails, Forget
    <3>4. Y \in SUBSET Flushers
      BY <3>3
    <3>5. Spared(dir, X)' \subseteq Spared(dir, Y)
      <4>1. Entries(dir)' \subseteq Entries(dir) /\ st \notin Entries(dir)'
        BY <1>3, <3>2 DEF Entries
      <4>2. Doomed(p, dir) \subseteq Doomed(p, dir)' \cup {st}
        BY <2>6, <3>1 DEF Doomed
      <4>3. pc'[p] = "pop" => Doomed(p, dir) \subseteq {st}
        BY <3>1 DEF Doomed
      <4> QED BY <2>1, <4>1, <4>2, <4>3 DEF Spared
    <3>6. \A q \in Flushers : Excess(q, dir, Y) <= Excess(q, dir, X)'
      <4>1. Excess(p, dir, Y) <= Excess(p, dir, X)'
        BY <2>6, <3>1 DEF Excess
      <4>2. ASSUME NEW q \in Flushers \ {p} PROVE Excess(q, dir, Y) <= Excess(q, dir, X)'
        <5>1. Excess(q, dir, Y) = Excess(q, dir, X)
          BY DEF Excess
        <5> QED BY <1>0, <2>1, <5>1
      <4> QED BY <4>1, <4>2
    <3> HIDE DEF Y
    <3> QED BY <1>1, <3>4, <3>5, <3>6
  <2>7. \/ pc[p] \notin Published /\ pc'[p] \notin Published /\ ~Publish(p)
        \/ Publish(p)
        \/ Prune(p) /\ pc[p] = "rescan"
        \/ Evict(p) /\ pc[p] = "reevict"
    <3>1. CASE \/ TimerFires(p) \/ LoopExits(p) \/ FlushOnce(p) \/ Push(p) \/ Pop(p)
               \/ SendSettles(p) \/ SendFails(p)
      BY <3>1 DEF TimerFires, LoopExits, FlushOnce, Push, Pop, SendSettles, SendFails, WriteTemp, Publish,
         AfterFlush, Goto, TypeOK, Published
    <3>2. CASE StoreRefused(p) \/ StoreFails(p) \/ WriteTemp(p)
      BY <3>2 DEF StoreRefused, StoreFails, Requeue, WriteTemp, Publish, AfterFlush, Goto, TypeOK, Published
    <3>3. CASE Prune(p) \/ Evict(p)
      BY <3>3 DEF Prune, Evict, WriteTemp, Publish, Goto, TypeOK, Published
    <3>4. CASE \/ DrainOnce(p) \/ Load(p) \/ LoadFails(p) \/ ResendSettles(p) \/ ResendFails(p)
               \/ Forget(p)
      BY <3>4 DEF DrainOnce, Load, LoadFails, ResendSettles, ResendFails, Forget, NextEntry, WriteTemp, Publish,
         AfterDrain, Goto, TypeOK, Published
    <3>5. ~PruneFails(p)
      BY DEF PruneFails
    <3> QED BY <1>7, <3>1, <3>2, <3>3, <3>4, <3>5 DEF Step, FlushStep, DrainStep
  <2> QED BY <2>3, <2>4, <2>5, <2>6, <2>7
<1>8. ~Crash
  BY DEF Crash
<1> QED
  BY <1>4, <1>5, <1>6, <1>7, <1>8 DEF Next, Collect, Reload, Stop, Restart, vars, disk, locals

\* The greatest number of a bounded set.
LEMMA Greatest ==
    ASSUME NEW S \in SUBSET Nat, S # {}, NEW n \in Nat, \A k \in S : k <= n
    PROVE  \E k \in S : \A l \in S : l <= k
<1> DEFINE T == {n - k : k \in S}
<1>1. T \in SUBSET Nat /\ T # {}
  <2>1. \A k \in S : n - k \in Nat
    OBVIOUS
  <2> QED BY <2>1
<1>2. PICK x \in T : \A y \in T : x <= y
  <2> HIDE DEF T
  <2> QED BY <1>1, Least
<1>3. PICK k \in S : x = n - k
  OBVIOUS
<1>4. ASSUME NEW l \in S PROVE l <= k
  <2>1. n - k <= n - l
    BY <1>2, <1>3
  <2>2. l \in Nat /\ k \in Nat
    OBVIOUS
  <2> QED BY <2>1, <2>2
<1> QED BY <1>4

\* However goroutines store, prune and drain, a directory has more than
\* max_batches files only for the goroutines that have just renamed one into it
\* and are about to prune for it (spool.go:60, 88, 170-178).
THEOREM SpoolNeverOverflows == Spec => []SpoolBounded
<1> DEFINE PruneSucceeds == Faults \cap {"crash", "pruneError", "deleteError"} = {}
           IInv == PruneSucceeds => WithinExcess
<1>1. Init => IInv
  <2> SUFFICES ASSUME Init, NEW dir, NEW X, NEW m \in Nat
               PROVE  Cardinality(Spared(dir, X))
                        <= m + Excess("flush", dir, X) + Excess("main", dir, X)
    BY DEF WithinExcess, Caps
  <2>1. Spared(dir, X) = {}
    BY DEF Init, Spared, Entries
  <2>2. Cardinality(Spared(dir, X)) = 0
    BY <2>1, FS_EmptySet
  <2>3. Excess("flush", dir, X) \in {0, 1} /\ Excess("main", dir, X) \in {0, 1}
    BY DEF Excess
  <2> QED BY <2>2, <2>3
<1>2. TypeOK /\ TypeOK' /\ HandsMatchDisk /\ IInv /\ [Next]_vars => IInv'
  BY NextDisk, NextExcess
<1>3. TypeOK /\ IInv => SpoolBounded
  <2> SUFFICES ASSUME TypeOK, WithinExcess, NEW dir \in {c.dir : c \in Configs}
               PROVE  LET limits == {c.maxBatches : c \in {d \in Configs : d.dir = dir}} IN
                        \E limit \in limits :
                          Cardinality(Entries(dir)) <=
                            limit + Cardinality({p \in Flushers : pc[p] \in Published})
    BY DEF SpoolBounded
  <2> DEFINE limits == {c.maxBatches : c \in {d \in Configs : d.dir = dir}}
             done   == {p \in Flushers : pc[p] \in Published}
  <2>1. limits \in SUBSET Nat /\ limits # {}
    BY ConfigsAssumption DEF ConfigType
  <2>2. Cardinality(Entries(dir)) \in Nat
    BY EntriesFinite, FS_CardinalityType
  <2>3. /\ Cardinality(done) \in Nat
        /\ Excess("flush", dir, {}) + Excess("main", dir, {}) <= Cardinality(done)
    <3>1. IsFiniteSet({}) /\ Cardinality({}) = 0
      BY FS_EmptySet
    <3>2. IsFiniteSet({"flush"}) /\ Cardinality({"flush"}) = 1
          /\ IsFiniteSet({"main"}) /\ Cardinality({"main"}) = 1
      BY FS_Singleton
    <3>3. IsFiniteSet({"flush"} \cup {"main"}) /\ Cardinality({"flush"} \cup {"main"}) = 2
      BY <3>2, FS_AddElement
    <3>4. \A p \in Flushers : /\ Excess(p, dir, {}) \in {0, 1}
                              /\ pc[p] \notin Published => Excess(p, dir, {}) = 0
      BY DEF Excess, Published
    <3>5. \/ done = {"flush"} \cup {"main"}
          \/ done = {"flush"} /\ pc["main"] \notin Published
          \/ done = {"main"} /\ pc["flush"] \notin Published
          \/ done = {} /\ pc["flush"] \notin Published /\ pc["main"] \notin Published
      BY DEF Flushers
    <3>6. "flush" \in Flushers /\ "main" \in Flushers
      BY DEF Flushers
    <3> DEFINE flushing == Excess("flush", dir, {})
               stopping == Excess("main", dir, {})
    <3>7. /\ flushing \in {0, 1} /\ stopping \in {0, 1}
          /\ pc["flush"] \notin Published => flushing = 0
          /\ pc["main"] \notin Published => stopping = 0
      BY <3>4, <3>6
    <3>8. \/ Cardinality(done) = 2
          \/ Cardinality(done) = 1 /\ (flushing = 0 \/ stopping = 0)
          \/ Cardinality(done) = 0 /\ flushing = 0 /\ stopping = 0
      <4> HIDE DEF done, flushing, stopping
      <4> QED BY <3>1, <3>2, <3>3, <3>5, <3>7
    <3> HIDE DEF done, flushing, stopping
    <3>9. Cardinality(done) \in Nat /\ flushing + stopping <= Cardinality(done)
      BY <3>7, <3>8
    <3> QED BY <3>9 DEF flushing, stopping
  <2>4. ASSUME NEW m \in limits, m \in Caps(dir)
        PROVE  Cardinality(Entries(dir)) <= m + Cardinality(done)
    <3>1. Cardinality(Spared(dir, {})) <= m + Excess("flush", dir, {}) + Excess("main", dir, {})
      BY <2>4 DEF WithinExcess
    <3>2. Spared(dir, {}) = Entries(dir)
      BY DEF Spared
    <3>3. Excess("flush", dir, {}) \in {0, 1} /\ Excess("main", dir, {}) \in {0, 1} /\ m \in Nat
      BY <2>1 DEF Excess
    <3> QED BY <2>2, <2>3, <3>1, <3>2, <3>3
  <2>5. CASE \A k \in limits : k <= Cardinality(Entries(dir))
    <3> HIDE DEF limits
    <3>1. PICK m \in limits : \A l \in limits : l <= m
      BY <2>1, <2>2, <2>5, Greatest
    <3>2. m \in Caps(dir)
      BY <2>1, <3>1 DEF Caps, limits
    <3>3. Cardinality(Entries(dir)) <= m + Cardinality(done)
      BY <2>4, <3>2
    <3> QED BY <3>3 DEF limits
  <2>6. CASE \E k \in limits : ~(k <= Cardinality(Entries(dir)))
    <3> HIDE DEF limits, done
    <3>1. PICK k \in limits : ~(k <= Cardinality(Entries(dir)))
      BY <2>6
    <3>2. Cardinality(Entries(dir)) <= k + Cardinality(done)
      BY <2>1, <2>2, <2>3, <3>1
    <3> QED BY <3>2 DEF limits, done
  <2> QED BY <2>5, <2>6
<1> QED
  BY <1>1, <1>2, <1>3, TypeCorrect, HandsCorrect, PTL DEF Spec

-----------------------------------------------------------------------------
(* What a goroutine has left to do until its timer fires again. *)

\* The turns to come of a goroutine that is at l: main still has both, a loop
\* only the one it is in.
TurnsAt(p, l) ==
    CASE l = "asleep" -> IF p = "main" THEN 7 ELSE 1
      [] l = "due"    -> 6
      [] l = "push"   -> 5
      [] l \in {"pop", "send"} \cup Storing \cup Published -> 4
      [] l = "list"   -> 3
      [] l \in {"load"} \cup Resending -> 2
      [] OTHER        -> 0

\* The stages that the batch in hand has before it.
StagesAt(l) ==
    CASE l = "send"    -> 8
      [] l = "store"   -> 7
      [] l = "evict"   -> 6
      [] l = "write"   -> 5
      [] l = "publish" -> 4
      [] l = "rescan"  -> 3
      [] l = "reevict" -> 2
      [] l = "pop"     -> 1
      [] OTHER         -> 0

TurnLeft(p)  == TurnsAt(p, pc[p])
BatchLeft(p) == StagesAt(pc[p])

\* What is left of the listing: three steps for each file, at most.
FilesLeft(p) ==
    3 * Cardinality(paths[p]) +
      (CASE pc[p] = "load" -> 2 [] pc[p] = "resend" -> 1 [] OTHER -> 0)

AllTurns   == TurnLeft("flush") + TurnLeft("drain") + TurnLeft("main")
AllBatches == BatchLeft("flush") + BatchLeft("drain") + BatchLeft("main")
AllFiles   == FilesLeft("flush") + FilesLeft("drain") + FilesLeft("main")

\* Turns count more than the queue, the queue more than the batches in hand,
\* these more than the listings; every descent in this order is finite.
Remaining == <<<<AllTurns, Len(queue)>>, <<AllBatches, AllFiles>>>>

Pairs   == LexPairOrdering(OpToRel(<, Nat), OpToRel(<, Nat), Nat, Nat)
Descent == LexPairOrdering(Pairs, Pairs, Nat \X Nat, Nat \X Nat)

LEMMA DescentEnds == IsWellFoundedOn(Descent, (Nat \X Nat) \X (Nat \X Nat))
BY NatLessThanWellFounded, WFLexPairOrdering DEF Descent, Pairs

LEMMA Descends ==
    ASSUME NEW a \in Nat, NEW b \in Nat, NEW c \in Nat, NEW d \in Nat,
           NEW w \in Nat, NEW x \in Nat, NEW y \in Nat, NEW z \in Nat,
           \/ w < a
           \/ w = a /\ x < b
           \/ w = a /\ x = b /\ y < c
           \/ w = a /\ x = b /\ y = c /\ z < d
    PROVE  << <<<<w, x>>, <<y, z>>>>, <<<<a, b>>, <<c, d>>>> >> \in Descent
<1>1. \A m, n \in Nat : m < n => <<m, n>> \in OpToRel(<, Nat)
  BY DEF OpToRel
<1>2. \A k, l, m, n \in Nat :
         k < m \/ (k = m /\ l < n) => << <<k, l>>, <<m, n>> >> \in Pairs
  BY <1>1 DEF Pairs, LexPairOrdering
<1>3. CASE << <<w, x>>, <<a, b>> >> \in Pairs
  BY <1>3 DEF Descent, LexPairOrdering
<1>4. CASE w = a /\ x = b /\ << <<y, z>>, <<c, d>> >> \in Pairs
  BY <1>4 DEF Descent, LexPairOrdering
<1> QED BY <1>2, <1>3, <1>4

\* Every stage of flushOnce has the same turns to come, and so has every one of
\* drainOnce; each stage of a batch is nearer to the next pop than the last.
LEMMA StageFacts ==
    /\ \A p : \A l \in {"pop", "send"} \cup Storing \cup Published : TurnsAt(p, l) = 4
    /\ \A p : \A l \in {"load"} \cup Resending : TurnsAt(p, l) = 2 /\ StagesAt(l) = 0
    /\ StagesAt("store") < StagesAt("send") /\ StagesAt("evict") < StagesAt("store")
    /\ StagesAt("write") < StagesAt("evict") /\ StagesAt("write") < StagesAt("store")
    /\ StagesAt("publish") < StagesAt("write")
    /\ StagesAt("rescan") < StagesAt("publish") /\ StagesAt("reevict") < StagesAt("rescan")
    /\ StagesAt("pop") < StagesAt("reevict") /\ StagesAt("pop") < StagesAt("rescan")
    /\ StagesAt("pop") < StagesAt("send")
BY DEF TurnsAt, StagesAt, Storing, Published, Resending

LEMMA LeftFacts ==
    TypeOK => \A p \in Procs :
                 /\ TurnLeft(p) \in Nat /\ BatchLeft(p) \in Nat /\ FilesLeft(p) \in Nat
                 /\ IsFiniteSet(paths[p]) /\ Cardinality(paths[p]) \in Nat
<1> SUFFICES ASSUME TypeOK, NEW p \in Procs
             PROVE  /\ TurnLeft(p) \in Nat /\ BatchLeft(p) \in Nat /\ FilesLeft(p) \in Nat
                    /\ IsFiniteSet(paths[p]) /\ Cardinality(paths[p]) \in Nat
  OBVIOUS
<1>1. paths[p] \subseteq 1..clock /\ clock \in Nat
  BY DEF TypeOK
<1>2. IsFiniteSet(1..clock)
  BY <1>1, FS_Interval
<1>3. IsFiniteSet(paths[p]) /\ Cardinality(paths[p]) \in Nat
  BY <1>1, <1>2, FS_Subset, FS_CardinalityType
<1> QED BY <1>3 DEF TurnLeft, BatchLeft, FilesLeft, TurnsAt, StagesAt

LEMMA LeftAfter ==
    (TypeOK => \A p \in Procs :
                  /\ TurnLeft(p) \in Nat /\ BatchLeft(p) \in Nat /\ FilesLeft(p) \in Nat
                  /\ IsFiniteSet(paths[p]) /\ Cardinality(paths[p]) \in Nat)'
BY LeftFacts, PTL

\* A step other than a timer brings its goroutine closer to the end of the turn.
Closer(p) ==
    \/ TurnLeft(p)' < TurnLeft(p)
    \/ /\ TurnLeft(p)' = TurnLeft(p)
       /\ \/ Len(queue') < Len(queue)
          \/ /\ queue' = queue
             /\ \/ BatchLeft(p)' < BatchLeft(p)
                \/ BatchLeft(p)' = BatchLeft(p) /\ FilesLeft(p)' < FilesLeft(p)

LEMMA FewerFiles ==
    ASSUME TypeOK, Listed, NEW p \in Procs, pc[p] \in Listing,
           paths'[p] = paths[p] \ {Oldest(paths[p])}
    PROVE  Cardinality(paths'[p]) = Cardinality(paths[p]) - 1
<1>1. paths[p] \in SUBSET Nat /\ paths[p] # {}
  BY DEF TypeOK, Listed
<1>2. Oldest(paths[p]) \in paths[p]
  BY <1>1, Least
<1>3. IsFiniteSet(paths[p])
  BY LeftFacts
<1> QED BY <1>2, <1>3, FS_RemoveElement

LEMMA NextEntryCloser ==
    ASSUME TypeOK, Listed, NEW p \in Drainers, pc[p] \in {"load", "forget"}, NextEntry(p),
           queue' = queue
    PROVE  Closer(p)
<1> DEFINE left == paths[p] \ {Oldest(paths[p])}
<1>0. p \in Procs
  BY DEF Procs, Drainers, Flushers
<1>1. /\ paths'[p] = left
      /\ pc'[p] = IF left = {} THEN AfterDrain(p) ELSE "load"
  BY <1>0 DEF NextEntry, Goto, TypeOK
<1>2. CASE left = {}
  BY <1>1, <1>2 DEF Closer, TurnLeft, TurnsAt, AfterDrain, Storing, Published, Resending, Drainers
<1>3. CASE left # {}
  <2>1. Cardinality(paths'[p]) = Cardinality(paths[p]) - 1
    BY <1>0, <1>1, FewerFiles DEF Listing, Resending
  <2>2. Cardinality(paths[p]) \in Nat
    BY <1>0, LeftFacts
  <2>3. TurnLeft(p)' = TurnLeft(p) /\ BatchLeft(p)' = BatchLeft(p)
    BY <1>1, <1>3, StageFacts DEF TurnLeft, BatchLeft, Resending
  <2>4. FilesLeft(p)' < FilesLeft(p)
    BY <1>1, <1>3, <2>1, <2>2 DEF FilesLeft
  <2> QED BY <2>3, <2>4 DEF Closer
<1> QED BY <1>2, <1>3

LEMMA StepCloser ==
    ASSUME TypeOK, Listed, NEW p \in Procs, Step(p), ~TimerFires(p)
    PROVE  Closer(p)
<1>1. CASE LoopExits(p)
  BY <1>1 DEF LoopExits, Goto, TypeOK, Closer, TurnLeft, TurnsAt, Storing, Published, Resending
<1>2. CASE FlushOnce(p)
  BY <1>2 DEF FlushOnce, Goto, TypeOK, Closer, TurnLeft, TurnsAt, Storing, Published, Resending
<1>3. CASE Push(p)
  BY <1>3 DEF Push, Goto, TypeOK, Closer, TurnLeft, TurnsAt, Storing, Published, Resending
<1>4. CASE Pop(p)
  <2>1. CASE queue = <<>>
    BY <1>4, <2>1 DEF Pop, AfterFlush, Goto, TypeOK, Closer, TurnLeft, TurnsAt, Storing, Published,
       Resending
  <2>2. CASE queue # <<>>
    <3> DEFINE n == Smaller(cfg[p].batchSize, Len(queue))
    <3>1. n \in 1..Len(queue) /\ Len(queue) \in Nat
      BY <2>2, ConfigsAssumption DEF TypeOK, Taken, Smaller, ConfigType
    <3>2. queue' = SubSeq(queue, n + 1, Len(queue)) /\ pc'[p] = "send" /\ pc[p] = "pop"
      BY <1>4, <2>2 DEF Pop, Goto, TypeOK
    <3>3. Len(queue') < Len(queue)
      <4>1. queue \in Seq(Nat)
        BY DEF TypeOK, Taken
      <4>2. Len(SubSeq(queue, n + 1, Len(queue))) = IF n + 1 <= Len(queue) THEN Len(queue) - (n + 1) + 1 ELSE 0
        BY <3>1, <4>1, SubSeqProperties
      <4> QED BY <3>1, <3>2, <4>2
    <3>4. TurnLeft(p)' = TurnLeft(p)
      BY <3>2, StageFacts DEF TurnLeft
    <3> QED BY <3>3, <3>4 DEF Closer
  <2> QED BY <2>1, <2>2
<1>5. CASE SendSettles(p) \/ SendFails(p) \/ WriteTemp(p) \/ Publish(p)
  <2>1. /\ queue' = queue
        /\ \/ pc[p] = "send" /\ pc'[p] \in {"pop", "store"}
           \/ pc[p] = "write" /\ pc'[p] = "publish"
           \/ pc[p] = "publish" /\ pc'[p] = "rescan"
    BY <1>5 DEF SendSettles, SendFails, WriteTemp, Publish, Goto, TypeOK, pipeline
  <2>2. TurnLeft(p)' = TurnLeft(p) /\ BatchLeft(p)' < BatchLeft(p)
    BY <2>1, StageFacts DEF TurnLeft, BatchLeft, Storing, Published
  <2> QED BY <2>1, <2>2 DEF Closer
<1>6. CASE Prune(p)
  <2>1. /\ pc[p] \in {"store", "rescan"} /\ queue' = queue
        /\ \/ Goto(p, IF pc[p] = "store" THEN "evict" ELSE "reevict")
           \/ Goto(p, IF pc[p] = "store" THEN "write" ELSE "pop")
    BY <1>6 DEF Prune, pipeline
  <2>2. \/ pc[p] = "store" /\ pc'[p] \in {"evict", "write"}
        \/ pc[p] = "rescan" /\ pc'[p] \in {"reevict", "pop"}
    BY <2>1 DEF Goto, TypeOK
  <2>3. TurnLeft(p)' = TurnLeft(p) /\ BatchLeft(p)' < BatchLeft(p)
    BY <2>2, StageFacts DEF TurnLeft, BatchLeft, Storing, Published
  <2> QED BY <2>1, <2>3 DEF Closer
<1>7. CASE p \in Flushers /\ (StoreRefused(p) \/ StoreFails(p) \/ PruneFails(p))
  <2>1. Requeue(p) /\ pc[p] \in Storing \cup Published
    BY <1>7 DEF StoreRefused, StoreFails, PruneFails, Storing, Published
  <2>2. pc'[p] = AfterFlush(p)
    BY <2>1 DEF Requeue, Goto, TypeOK
  <2> QED BY <1>7, <2>1, <2>2 DEF Flushers, AfterFlush, Closer, TurnLeft, TurnsAt, Storing, Published, Resending
<1>8. CASE Evict(p)
  <2>1. /\ pc[p] \in {"evict", "reevict"} /\ queue' = queue
        /\ paths'[p] = paths[p] \ {Oldest(paths[p])}
    BY <1>8 DEF Evict, TypeOK, pipeline
  <2>2. CASE pc'[p] = pc[p]
    <3>1. Cardinality(paths'[p]) = Cardinality(paths[p]) - 1 /\ Cardinality(paths[p]) \in Nat
      BY <2>1, FewerFiles, LeftFacts DEF Listing
    <3>2. TurnLeft(p)' = TurnLeft(p) /\ BatchLeft(p)' = BatchLeft(p)
      BY <2>1, <2>2, StageFacts DEF TurnLeft, BatchLeft, Storing, Published
    <3>3. FilesLeft(p)' < FilesLeft(p)
      BY <2>1, <2>2, <3>1 DEF FilesLeft
    <3> QED BY <2>1, <3>2, <3>3 DEF Closer
  <2>3. CASE pc'[p] # pc[p]
    <3>1. \/ pc[p] = "evict" /\ pc'[p] = "write"
          \/ pc[p] = "reevict" /\ pc'[p] = "pop"
      <4>1. Goto(p, IF pc[p] = "evict" THEN "write" ELSE "pop")
        BY <1>8, <2>3 DEF Evict
      <4> QED BY <2>1, <4>1 DEF Goto, TypeOK
    <3>2. TurnLeft(p)' = TurnLeft(p) /\ BatchLeft(p)' < BatchLeft(p)
      BY <3>1, StageFacts DEF TurnLeft, BatchLeft, Storing, Published
    <3> QED BY <2>1, <3>2 DEF Closer
  <2> QED BY <2>2, <2>3
<1>9. CASE DrainOnce(p)
  <2>1. /\ (p = "drain" /\ pc[p] = "due") \/ (p = "main" /\ pc[p] = "list")
        /\ Goto(p, AfterDrain(p)) \/ Goto(p, "load")
    BY <1>9 DEF DrainOnce
  <2>2. pc'[p] \in {AfterDrain(p), "load"}
    BY <2>1 DEF Goto, TypeOK
  <2> QED BY <2>1, <2>2 DEF AfterDrain, Closer, TurnLeft, TurnsAt, Storing, Published, Resending
<1>10. CASE Load(p) \/ ResendSettles(p)
  <2>1. /\ queue' = queue /\ paths' = paths
        /\ \/ pc[p] = "load" /\ pc'[p] = "resend"
           \/ pc[p] = "resend" /\ pc'[p] = "forget"
    BY <1>10 DEF Load, ResendSettles, Goto, TypeOK, pipeline
  <2>2. Cardinality(paths[p]) \in Nat
    BY LeftFacts
  <2>3. TurnLeft(p)' = TurnLeft(p) /\ BatchLeft(p)' = BatchLeft(p)
    BY <2>1, StageFacts DEF TurnLeft, BatchLeft, Resending
  <2>4. FilesLeft(p)' < FilesLeft(p)
    BY <2>1, <2>2 DEF FilesLeft
  <2> QED BY <2>1, <2>3, <2>4 DEF Closer
<1>11. CASE p \in Drainers /\ ResendFails(p)
  <2>1. pc[p] = "resend" /\ pc'[p] = AfterDrain(p)
    BY <1>11 DEF ResendFails, Goto, TypeOK
  <2> QED BY <1>11, <2>1 DEF AfterDrain, Closer, TurnLeft, TurnsAt, Storing, Published, Resending, Drainers
<1>12. CASE p \in Drainers /\ (LoadFails(p) \/ Forget(p))
  BY <1>12, NextEntryCloser DEF LoadFails, Forget, pipeline
<1> QED
  BY <1>1, <1>2, <1>3, <1>4, <1>5, <1>6, <1>7, <1>8, <1>9, <1>10, <1>11, <1>12
     DEF Step, FlushStep, DrainStep

LEMMA StepDescends ==
    ASSUME TypeOK, TypeOK', Listed, NEW p \in Procs, Step(p), ~TimerFires(p)
    PROVE  <<Remaining', Remaining>> \in Descent
<1>1. Closer(p)
  BY StepCloser
<1>2. \A q \in Procs : /\ TurnLeft(q) \in Nat /\ TurnLeft(q)' \in Nat
                       /\ BatchLeft(q) \in Nat /\ BatchLeft(q)' \in Nat
                       /\ FilesLeft(q) \in Nat /\ FilesLeft(q)' \in Nat
  BY LeftFacts, LeftAfter
<1>3. \A q \in Procs \ {p} : /\ TurnLeft(q)' = TurnLeft(q)
                             /\ BatchLeft(q)' = BatchLeft(q)
                             /\ FilesLeft(q)' = FilesLeft(q)
  BY OthersUntouched DEF TurnLeft, BatchLeft, FilesLeft
<1>4. Procs = {"flush", "drain", "main"}
  BY DEF Procs, Flushers, Drainers
<1>5. /\ AllTurns \in Nat /\ AllTurns' \in Nat
      /\ AllBatches \in Nat /\ AllBatches' \in Nat
      /\ AllFiles \in Nat /\ AllFiles' \in Nat
      /\ Len(queue) \in Nat /\ Len(queue') \in Nat
  <2>1. queue \in Seq(Nat) /\ queue' \in Seq(Nat)
    BY DEF TypeOK, Taken
  <2>2. Len(queue) \in Nat /\ Len(queue') \in Nat
    BY <2>1, LenProperties
  <2>3. AllTurns \in Nat /\ AllTurns' \in Nat
    BY <1>2, <1>4 DEF AllTurns
  <2>4. AllBatches \in Nat /\ AllBatches' \in Nat
    BY <1>2, <1>4 DEF AllBatches
  <2>5. AllFiles \in Nat /\ AllFiles' \in Nat
    BY <1>2, <1>4 DEF AllFiles
  <2> QED BY <2>2, <2>3, <2>4, <2>5
<1>6. /\ TurnLeft(p)' < TurnLeft(p) => AllTurns' < AllTurns
      /\ TurnLeft(p)' = TurnLeft(p) => AllTurns' = AllTurns
  BY <1>2, <1>3, <1>4 DEF AllTurns
<1>7. /\ BatchLeft(p)' < BatchLeft(p) => AllBatches' < AllBatches
      /\ BatchLeft(p)' = BatchLeft(p) => AllBatches' = AllBatches
  BY <1>2, <1>3, <1>4 DEF AllBatches
<1>8. FilesLeft(p)' < FilesLeft(p) => AllFiles' < AllFiles
  BY <1>2, <1>3, <1>4 DEF AllFiles
<1>9. \/ AllTurns' < AllTurns
      \/ AllTurns' = AllTurns /\ Len(queue') < Len(queue)
      \/ AllTurns' = AllTurns /\ Len(queue') = Len(queue) /\ AllBatches' < AllBatches
      \/ /\ AllTurns' = AllTurns /\ Len(queue') = Len(queue)
         /\ AllBatches' = AllBatches /\ AllFiles' < AllFiles
  BY <1>1, <1>6, <1>7, <1>8 DEF Closer
<1> QED BY <1>5, <1>9, Descends DEF Remaining

\* Whatever fails and however the goroutines interleave, no turn of flushOnce
\* or drainOnce goes on for ever: each step but a timer brings the process
\* down a well-founded order, and nothing else in a life of it (a collector, a
\* reload, the signal, a damaged file) adds to what is left.  While it is told
\* to stop every step of a goroutine goes down, so there are finitely many
\* until it ends (agent.go:126-136, 291-367, 586-595).
TurnsEnd ==
    /\ IsWellFoundedOn(Descent, (Nat \X Nat) \X (Nat \X Nat))
    /\ [][\A p \in Procs : Step(p) /\ (phase = "stopping" \/ ~TimerFires(p))
             => <<Remaining', Remaining>> \in Descent]_vars
    /\ [][Remaining' # Remaining => (\E p \in Procs : Step(p)) \/ ProcessEnds]_vars

\* So no flush, drain or shutdown goes on for ever by itself.
THEOREM TurnsAreFinite == Spec => TurnsEnd
<1>1. TypeOK /\ TypeOK' /\ Listed /\ [Next]_vars =>
        [\A p \in Procs : Step(p) /\ (phase = "stopping" \/ ~TimerFires(p))
           => <<Remaining', Remaining>> \in Descent]_vars
  BY StepDescends DEF TimerFires
<1>2. [Next]_vars => [Remaining' # Remaining => (\E p \in Procs : Step(p)) \/ ProcessEnds]_vars
  <2>1. CASE Collect \/ Reload \/ Stop \/ Restart \/ Corrupt
    <3>1. UNCHANGED <<pc, queue, paths>>
      BY <2>1 DEF Collect, Reload, Stop, Restart, Corrupt, pipeline, locals
    <3>2. Remaining' = Remaining
      BY <3>1 DEF Remaining, AllTurns, AllBatches, AllFiles, TurnLeft, BatchLeft, FilesLeft
    <3> QED BY <3>2
  <2> QED BY <2>1 DEF Next, Exit, Crash
<1> QED
  BY <1>1, <1>2, DescentEnds, TypeCorrect, AlwaysListed, PTL DEF Spec, TurnsEnd

-----------------------------------------------------------------------------
(* The queue is short while batches can be stored. *)

\* push appends the one snapshot that flushOnce has popped from the cache.
OneInHand == \A p \in Procs : pc[p] = "push" => Len(batch[p]) = 1

LEMMA NextOneInHand == TypeOK /\ OneInHand /\ [Next]_vars => OneInHand'
<1> SUFFICES ASSUME TypeOK, OneInHand, [Next]_vars PROVE OneInHand'
  OBVIOUS
<1>1. CASE UNCHANGED locals
  BY <1>1 DEF OneInHand, locals
<1>2. CASE Exit \/ Crash
  BY <1>2 DEF Exit, Crash, ProcessEnds, OneInHand
<1>3. ASSUME NEW p \in Procs, Step(p) PROVE OneInHand'
  <2>1. \A q \in Procs \ {p} : pc'[q] = pc[q] /\ batch'[q] = batch[q]
    BY <1>3, OthersUntouched
  <2>2. pc'[p] = "push" => FlushOnce(p) /\ dirty
    BY <1>3 DEF Step, FlushStep, DrainStep, TimerFires, LoopExits, FlushOnce, Push, Pop,
       SendSettles, SendFails, StoreRefused, StoreFails, PruneFails, Requeue, Prune, Evict,
       WriteTemp, Publish, DrainOnce, Load, LoadFails, ResendSettles, ResendFails, Forget, NextEntry,
       AfterFlush, AfterDrain, Goto, TypeOK
  <2>3. FlushOnce(p) /\ dirty => Len(batch'[p]) = 1
    BY DEF FlushOnce, TypeOK
  <2> QED BY <2>1, <2>2, <2>3 DEF OneInHand
<1> QED
  BY <1>1, <1>2, <1>3 DEF Next, Collect, Reload, Stop, Restart, Corrupt, vars

\* Each flusher at work is good for one snapshot of the queue.
Share(p) == IF Working(p) THEN 1 ELSE 0
QueueShared == StoreReliable => Len(queue) <= Share("flush") + Share("main")

\* What one step of a flusher does to the queue and to its own share.
LEMMA ShareStep ==
    ASSUME TypeOK, Fits, OneInHand, StoreReliable, NEW p \in Procs, Step(p)
    PROVE  \/ queue = <<>> /\ queue' = <<>>
           \/ /\ Len(queue') <= Len(queue)
              /\ Working(p) => Working(p)'
           \/ /\ p \in Flushers /\ ~Working(p) /\ Working(p)'
              /\ Len(queue') = Len(queue) + 1
<1>0. queue \in Seq(Nat) /\ Len(queue) \in Nat /\ batch[p] \in Seq(Nat)
  BY LenProperties DEF TypeOK, Taken
<1>1. ~StoreRefused(p) /\ ~StoreFails(p) /\ ~PruneFails(p)
  BY NeverRequeued
<1>2. CASE p \in Flushers /\ Push(p)
  <2>1. /\ pc[p] = "push" /\ pc'[p] = "pop" /\ queue' = queue \o batch[p]
    BY <1>2 DEF Push, Goto, TypeOK
  <2>2. Len(queue \o batch[p]) = Len(queue) + Len(batch[p])
    BY <1>0, ConcatProperties
  <2> QED BY <1>2, <2>1, <2>2 DEF OneInHand, Working, Storing, Published
<1>3. CASE Pop(p)
  <2>1. CASE queue = <<>>
    BY <1>3, <2>1 DEF Pop
  <2>2. CASE queue # <<>>
    <3> DEFINE n == Smaller(cfg[p].batchSize, Len(queue))
    <3>1. n \in 0..Len(queue)
      BY <1>0, ConfigsAssumption DEF TypeOK, Smaller, ConfigType
    <3>2. queue' = SubSeq(queue, n + 1, Len(queue)) /\ pc'[p] = "send"
      BY <1>3, <2>2 DEF Pop, Goto, TypeOK
    <3>3. Len(SubSeq(queue, n + 1, Len(queue)))
            = IF n + 1 <= Len(queue) THEN Len(queue) - (n + 1) + 1 ELSE 0
      BY <1>0, <3>1, SubSeqProperties
    <3> QED BY <1>0, <3>1, <3>2, <3>3 DEF Working
  <2> QED BY <2>1, <2>2
<1>4. CASE \/ TimerFires(p) \/ LoopExits(p) \/ FlushOnce(p)
           \/ DrainOnce(p) \/ Load(p) \/ LoadFails(p) \/ ResendSettles(p) \/ ResendFails(p)
           \/ Forget(p)
  <2>1. queue' = queue /\ ~Working(p)
    BY <1>4 DEF TimerFires, LoopExits, FlushOnce, DrainOnce, Load, LoadFails, ResendSettles,
       ResendFails, Forget, Working, Storing, Published, pipeline
  <2> QED BY <1>0, <2>1
<1>5. CASE SendSettles(p) \/ SendFails(p) \/ Prune(p) \/ Evict(p) \/ WriteTemp(p) \/ Publish(p)
  <2>1. queue' = queue
    BY <1>5 DEF SendSettles, SendFails, Prune, Evict, WriteTemp, Publish, pipeline
  <2>2. Working(p) => Working(p)'
    BY <1>5 DEF SendSettles, SendFails, Prune, Evict, WriteTemp, Publish, Goto, TypeOK, Working, Storing,
       Published
  <2> QED BY <1>0, <2>1, <2>2
<1> QED BY <1>1, <1>2, <1>3, <1>4, <1>5 DEF Step, FlushStep, DrainStep

LEMMA NextShared ==
    ASSUME TypeOK, TypeOK', Fits, OneInHand, QueueShared, [Next]_vars
    PROVE  QueueShared'
<1> SUFFICES ASSUME StoreReliable PROVE Len(queue') <= Share("flush")' + Share("main")'
  BY DEF QueueShared, StoreReliable
<1>0. /\ Len(queue) \in Nat /\ Len(queue') \in Nat
      /\ Len(queue) <= Share("flush") + Share("main")
  BY LenProperties DEF QueueShared, TypeOK, Taken
<1>1. \A q : Share(q) \in {0, 1} /\ Share(q)' \in {0, 1}
  BY DEF Share
<1>2. CASE UNCHANGED <<queue, pc>>
  BY <1>0, <1>2 DEF Share, Working
<1>3. CASE Exit \/ Crash
  <2>1. queue' = <<>>
    BY <1>3 DEF Exit, Crash, ProcessEnds
  <2> QED BY <1>1, <2>1
<1>4. ASSUME NEW p \in Procs, Step(p) PROVE Len(queue') <= Share("flush")' + Share("main")'
  <2>1. \A q \in Procs \ {p} : Share(q)' = Share(q)
    BY <1>4, OthersUntouched DEF Share, Working
  <2>2. {"flush", "main"} = Flushers /\ Flushers \subseteq Procs
    BY DEF Procs, Flushers
  <2>3. CASE queue' = <<>>
    BY <1>1, <2>3
  <2>4. CASE Len(queue') <= Len(queue) /\ (Working(p) => Working(p)')
    <3>1. \A q \in Flushers : Share(q) <= Share(q)'
      BY <2>1, <2>2, <2>4, <1>1 DEF Share
    <3> QED BY <1>0, <1>1, <2>2, <2>4, <3>1
  <2>5. CASE p \in Flushers /\ ~Working(p) /\ Working(p)' /\ Len(queue') = Len(queue) + 1
    <3>1. Share(p) = 0 /\ Share(p)' = 1
      BY <2>5 DEF Share
    <3> QED BY <1>0, <1>1, <2>1, <2>2, <2>5, <3>1
  <2> QED BY <1>4, <2>3, <2>4, <2>5, ShareStep
<1> QED
  BY <1>2, <1>3, <1>4 DEF Next, Collect, Reload, Stop, Restart, Corrupt, vars, pipeline, locals

\* Where every batch can be sent or stored, the queue has one snapshot at most,
\* and two in a shutdown: push is the only way in, each turn of flushOnce uses
\* it once, and no turn ends before the queue is empty (agent.go:298-299,
\* 338-366, 542-569).
QueueBounded == StoreReliable => Len(queue) <= IF phase = "running" THEN 1 ELSE 2

\* So the queue needs no bound of its own as long as batches can be stored.
THEOREM QueueStaysShort == Spec => []QueueBounded
<1>1. Init => OneInHand /\ QueueShared /\ Fits
  BY DEF Init, OneInHand, QueueShared, Share, Working, Fits, Storing, Published
<1>2. TypeOK /\ TypeOK' /\ Fits /\ OneInHand /\ QueueShared /\ [Next]_vars
        => Fits' /\ OneInHand' /\ QueueShared'
  BY NextFits, NextOneInHand, NextShared
<1>3. TypeOK /\ FlushesAlone /\ QueueShared => QueueBounded
  <2> SUFFICES ASSUME TypeOK, FlushesAlone, QueueShared, StoreReliable
               PROVE  Len(queue) <= IF phase = "running" THEN 1 ELSE 2
    BY DEF QueueBounded
  <2>1. /\ Len(queue) \in Nat /\ Len(queue) <= Share("flush") + Share("main")
        /\ Share("flush") \in {0, 1} /\ Share("main") \in {0, 1}
    BY LenProperties DEF QueueShared, Share, TypeOK, Taken
  <2>2. phase = "running" => Share("main") = 0
    BY DEF FlushesAlone, Share, Working, Storing, Published
  <2> QED BY <2>1, <2>2
<1> QED BY <1>1, <1>2, <1>3, TypeCorrect, Alone, PTL DEF Spec

=============================================================================
