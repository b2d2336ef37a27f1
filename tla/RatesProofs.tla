----------------------------- MODULE RatesProofs ------------------------------
(***************************************************************************)
(* Rates are honest, for any names, widths of counters and bounds.  The    *)
(* invariant ties a counter to the reading kept of it: it is at most that  *)
(* reading and what was counted since, exactly that while the counter ran  *)
(* on, and what was counted since took its time.                           *)
(***************************************************************************)
EXTENDS Rates, TLAPS

USE BoundsAssumption DEF NeverAt

\* What a counter shows now, against the reading kept and the count since.
ReadingsBound ==
    /\ \A n \in DOMAIN prev \cap DOMAIN counter : counter[n] <= prev[n] + since[n]
    /\ \A n \in whole :
         /\ n \in DOMAIN prev \cap DOMAIN counter
         /\ counter[n] = prev[n] + since[n]

\* As long as nobody sets the clock, it measures what counters can do.
ClockBounds ==
    /\ jumped # "during" /\ pc = "reading" => now <= clock
    /\ pc = "idle" => jumped # "during"
    /\ jumped = "no" =>
         prevAt <= clock /\ \A n \in Names : since[n] <= clock - prevAt

\* What this collection has found so far was really counted; only processes
\* are listed; and a counter that ran on has a reading, with its time.
CollectionSound ==
    /\ pc = "reading" => \A n \in DOMAIN rates : rates[n] <= since[n]
    /\ todo # {} => table = "process"
    /\ whole # {} => prevAt # NeverAt

HonestReadings == TypeOK /\ ReadingsBound /\ ClockBounds /\ CollectionSound

LEMMA NoRates == DOMAIN <<>> = {} /\ <<>> \in [{} -> Nat]
OBVIOUS

\* A difference is a natural number, within the bound, and exact where it can be.
LEMMA DifferenceHonest ==
    ASSUME HonestReadings, NEW n \in DOMAIN counter
    PROVE  /\ Difference(n, Elapsed) \in Nat
           /\ Difference(n, Elapsed) <= since[n]
           /\ n \in whole /\ now > prevAt /\ prevAt # NeverAt =>
                Difference(n, Elapsed) = since[n]
<1>1. n \in Names /\ counter[n] \in Nat /\ since[n] \in Nat /\ now \in Nat
  BY DEF HonestReadings, TypeOK
<1>2. CASE n \notin DOMAIN prev
  BY <1>1, <1>2 DEF Difference, HonestReadings, ReadingsBound
<1>3. CASE n \in DOMAIN prev
  <2>1. prev[n] \in Nat /\ counter[n] <= prev[n] + since[n] /\ prevAt \in Int
    BY <1>3 DEF HonestReadings, TypeOK, ReadingsBound
  <2>2. n \in whole => counter[n] = prev[n] + since[n]
    BY DEF HonestReadings, ReadingsBound
  <2> QED BY <1>1, <1>3, <2>1, <2>2 DEF Difference, Elapsed
<1> QED BY <1>2, <1>3

-----------------------------------------------------------------------------
LEMMA InitHonest == Init => HonestReadings
<1> SUFFICES ASSUME Init PROVE HonestReadings
  OBVIOUS
<1>1. PICK S \in SUBSET Names : counter \in [S -> {0, 1}]
  BY DEF Init
<1>2. TypeOK
  BY <1>1, NoRates DEF Init, TypeOK
<1>3. ReadingsBound /\ ClockBounds /\ CollectionSound
  BY NoRates DEF Init, ReadingsBound, ClockBounds, CollectionSound
<1> QED BY <1>2, <1>3 DEF HonestReadings

LEMMA TickHonest == HonestReadings /\ Tick => HonestReadings'
<1> SUFFICES ASSUME HonestReadings, Tick PROVE HonestReadings'
  OBVIOUS
<1> USE DEF HonestReadings
<1>1. PICK busy \in SUBSET {n \in DOMAIN counter : since[n] < MaxSince} :
        LET wrapping == {n \in busy : counter[n] + 1 = Modulus} IN
          /\ counter' = [n \in DOMAIN counter |->
                           IF n \in wrapping THEN 0
                           ELSE IF n \in busy THEN counter[n] + 1
                           ELSE counter[n]]
          /\ since' = [n \in Names |-> IF n \in busy THEN since[n] + 1 ELSE since[n]]
          /\ whole' = whole \ wrapping
  BY DEF Tick
<1> DEFINE wrapping == {n \in busy : counter[n] + 1 = Modulus}
<1>2. /\ clock' = clock + 1
      /\ UNCHANGED <<table, enabled, prev, prevAt, pc, now, listed, todo, rates, jumped>>
  BY DEF Tick, previous, collection
<1>3. \A n \in DOMAIN counter : counter[n] \in Nat /\ n \in Names
  BY DEF TypeOK
<1>4. \A n \in Names : since[n] \in Nat /\ since'[n] \in Nat /\ since'[n] <= since[n] + 1
  BY <1>1 DEF TypeOK
<1>5. DOMAIN counter' = DOMAIN counter /\ counter' \in [DOMAIN counter' -> Nat]
  BY <1>1, <1>3
<1>6. TypeOK'
  BY <1>1, <1>2, <1>4, <1>5 DEF TypeOK
<1>7. ReadingsBound'
  <2>1. \A n \in DOMAIN prev \cap DOMAIN counter : counter'[n] <= prev[n] + since'[n]
    <3> SUFFICES ASSUME NEW n \in DOMAIN prev \cap DOMAIN counter
                 PROVE  counter'[n] <= prev[n] + since'[n]
      OBVIOUS
    <3>1. counter[n] <= prev[n] + since[n] /\ prev[n] \in Nat
      BY DEF ReadingsBound, TypeOK
    <3> QED BY <1>1, <1>3, <1>4, <3>1
  <2>2. ASSUME NEW n \in whole'
        PROVE  n \in DOMAIN prev \cap DOMAIN counter /\ counter'[n] = prev[n] + since'[n]
    <3>1. /\ n \in whole /\ n \notin wrapping /\ n \in Names
          /\ n \in DOMAIN prev \cap DOMAIN counter
          /\ counter[n] = prev[n] + since[n] /\ prev[n] \in Nat
      BY <1>1, <2>2 DEF ReadingsBound, TypeOK
    <3> QED BY <1>1, <1>3, <1>4, <3>1
  <2> QED BY <1>2, <1>5, <2>1, <2>2 DEF ReadingsBound
<1>8. ClockBounds'
  BY <1>2, <1>4 DEF ClockBounds, TypeOK
<1>9. CollectionSound'
  <2>1. \A n \in Names : since[n] <= since'[n]
    BY <1>1 DEF TypeOK
  <2> QED BY <1>1, <1>2, <1>4, <2>1 DEF CollectionSound, TypeOK
<1> QED BY <1>6, <1>7, <1>8, <1>9

LEMMA SetClockHonest == HonestReadings /\ SetClock => HonestReadings'
<1> SUFFICES ASSUME HonestReadings, SetClock PROVE HonestReadings'
  OBVIOUS
<1>1. TypeOK'
  BY DEF HonestReadings, TypeOK, SetClock, previous, collection
<1>2. ReadingsBound'
  BY DEF HonestReadings, ReadingsBound, SetClock, previous
<1>3. ClockBounds'
  BY DEF HonestReadings, ClockBounds, TypeOK, SetClock, previous, collection
<1>4. CollectionSound'
  BY DEF HonestReadings, CollectionSound, SetClock, previous, collection
<1> QED BY <1>1, <1>2, <1>3, <1>4 DEF HonestReadings

LEMMA VanishHonest ==
    ASSUME NEW n \in Names, HonestReadings, Vanish(n) PROVE HonestReadings'
<1>1. TypeOK'
  BY DEF HonestReadings, TypeOK, Vanish, previous, collection
<1>2. ReadingsBound'
  BY DEF HonestReadings, ReadingsBound, Vanish, previous
<1>3. ClockBounds'
  BY DEF HonestReadings, ClockBounds, Vanish, previous, collection
<1>4. CollectionSound'
  BY DEF HonestReadings, CollectionSound, Vanish, previous, collection
<1> QED BY <1>1, <1>2, <1>3, <1>4 DEF HonestReadings

LEMMA AppearHonest ==
    ASSUME NEW n \in Names, HonestReadings, Appear(n) PROVE HonestReadings'
<1>1. /\ counter' = [x \in DOMAIN counter \cup {n} |-> IF x = n THEN 0 ELSE counter[x]]
      /\ n \notin DOMAIN counter
      /\ UNCHANGED <<table, enabled, clock, prev, prevAt, pc, now, listed, todo,
                     rates, since, whole, jumped>>
  BY DEF Appear, With, previous, collection, history
<1>2. TypeOK'
  BY <1>1 DEF HonestReadings, TypeOK
<1>3. ReadingsBound'
  BY <1>1 DEF HonestReadings, ReadingsBound, TypeOK
<1>4. ClockBounds' /\ CollectionSound'
  BY <1>1 DEF HonestReadings, ClockBounds, CollectionSound
<1> QED BY <1>2, <1>3, <1>4 DEF HonestReadings

LEMMA ReadCountersHonest == HonestReadings /\ ReadCounters => HonestReadings'
<1> SUFFICES ASSUME HonestReadings, ReadCounters PROVE HonestReadings'
  OBVIOUS
<1>1. TypeOK'
  BY DifferenceHonest
  DEF HonestReadings, TypeOK, ReadCounters, JumpedBefore
<1>2. ReadingsBound'
  BY DEF HonestReadings, TypeOK, ReadingsBound, ReadCounters
<1>3. ClockBounds'
  BY DEF HonestReadings, TypeOK, ClockBounds, ReadCounters, JumpedBefore
<1>4. CollectionSound'
  BY DEF HonestReadings, TypeOK, CollectionSound, ReadCounters
<1> QED BY <1>1, <1>2, <1>3, <1>4 DEF HonestReadings

LEMMA ReadFailsHonest == HonestReadings /\ ReadFails => HonestReadings'
<1> SUFFICES ASSUME HonestReadings, ReadFails PROVE HonestReadings'
  OBVIOUS
<1> USE DEF ReadFails, KeepTable, previous
<1>1. TypeOK'
  BY DEF HonestReadings, TypeOK, JumpedBefore
<1>2. ReadingsBound'
  BY DEF HonestReadings, ReadingsBound
<1>3. ClockBounds'
  BY DEF HonestReadings, TypeOK, ClockBounds, JumpedBefore
<1>4. CollectionSound'
  BY DEF HonestReadings, CollectionSound
<1> QED BY <1>1, <1>2, <1>3, <1>4 DEF HonestReadings

LEMMA CollectProcessHonest ==
    ASSUME NEW n \in todo, HonestReadings, CollectProcess(n) PROVE HonestReadings'
<1>1. /\ todo' = todo \ {n} /\ n \in Names
      /\ UNCHANGED <<table, enabled, clock, counter, prev, prevAt, pc, now, listed,
                     since, whole, jumped>>
  BY DEF CollectProcess, HonestReadings, TypeOK, previous, history
<1>2. /\ DOMAIN rates' \subseteq Names /\ rates' \in [DOMAIN rates' -> Nat]
      /\ CollectionSound'
  <2>1. ASSUME NEW value \in Nat, value <= since[n], rates' = With(rates, n, value)
        PROVE  /\ DOMAIN rates' \subseteq Names /\ rates' \in [DOMAIN rates' -> Nat]
               /\ CollectionSound'
    BY <1>1, <2>1 DEF With, HonestReadings, TypeOK, CollectionSound
  <2>2. CASE UNCHANGED rates
    BY <1>1, <2>2 DEF HonestReadings, TypeOK, CollectionSound
  <2>3. since[n] \in Nat
    BY <1>1 DEF HonestReadings, TypeOK
  <2> QED BY <2>1, <2>2, <2>3, DifferenceHonest DEF CollectProcess
<1>3. TypeOK'
  BY <1>1, <1>2 DEF HonestReadings, TypeOK
<1>4. ReadingsBound' /\ ClockBounds'
  BY <1>1 DEF HonestReadings, ReadingsBound, ClockBounds
<1> QED BY <1>2, <1>3, <1>4 DEF HonestReadings

LEMMA RebuildHonest == HonestReadings /\ RebuildProcessCPUMap => HonestReadings'
<1> SUFFICES ASSUME HonestReadings, RebuildProcessCPUMap PROVE HonestReadings'
  OBVIOUS
<1>1. PICK read \in SUBSET (listed \cap DOMAIN counter) :
        prev' = [n \in read |-> counter[n]] /\ whole' = read
  BY DEF RebuildProcessCPUMap
<1>2. PICK S \in SUBSET DOMAIN rates : rates' = [n \in S |-> rates[n]]
  BY DEF RebuildProcessCPUMap
<1>3. TypeOK'
  BY <1>1, <1>2 DEF HonestReadings, TypeOK, RebuildProcessCPUMap, JumpedBefore
<1>4. ReadingsBound'
  BY <1>1 DEF HonestReadings, TypeOK, ReadingsBound, RebuildProcessCPUMap
<1>5. ClockBounds'
  BY DEF HonestReadings, TypeOK, ClockBounds, RebuildProcessCPUMap, JumpedBefore
<1>6. CollectionSound'
  BY DEF HonestReadings, TypeOK, CollectionSound, RebuildProcessCPUMap
<1> QED BY <1>3, <1>4, <1>5, <1>6 DEF HonestReadings

LEMMA NextHonest == HonestReadings /\ [Next]_vars => HonestReadings'
<1> SUFFICES ASSUME HonestReadings, [Next]_vars PROVE HonestReadings'
  OBVIOUS
<1>1. CASE Reload
  BY <1>1 DEF Reload, HonestReadings, TypeOK, ReadingsBound, ClockBounds, CollectionSound,
              previous, collection, history
<1>2. CASE Collect
  <2>1. TypeOK'
    BY <1>2, NoRates DEF Collect, HonestReadings, TypeOK, previous, history
  <2>2. ReadingsBound' /\ ClockBounds' /\ CollectionSound'
    BY <1>2, NoRates DEF Collect, HonestReadings, TypeOK, ReadingsBound, ClockBounds, CollectionSound,
                previous, history
  <2> QED BY <2>1, <2>2 DEF HonestReadings
<1>3. CASE NoResults
  BY <1>3, NoRates DEF NoResults, HonestReadings, TypeOK, ReadingsBound, ClockBounds, CollectionSound,
              previous, collection, history
<1>4. CASE UNCHANGED vars
  BY <1>4 DEF vars, HonestReadings, TypeOK, ReadingsBound, ClockBounds, CollectionSound,
              previous, collection, history
<1> QED
  BY <1>1, <1>2, <1>3, <1>4, TickHonest, SetClockHonest, VanishHonest, AppearHonest,
     ReadCountersHonest, ReadFailsHonest, CollectProcessHonest, RebuildHonest
  DEF Next, Environment, Collector

THEOREM Honest == Spec => []HonestReadings
BY InitHonest, NextHonest, PTL DEF Spec

\* The state of the collectors and of what they read has its type.
THEOREM RatesTypeCorrect == Spec => []TypeOK
BY Honest, PTL DEF HonestReadings

-----------------------------------------------------------------------------
\* A step that changes the rates computes them, or cuts the list of them.
LEMMA RatesComeFrom ==
    ASSUME HonestReadings, [Next]_vars, rates' # rates, NEW n \in DOMAIN rates'
    PROVE  /\ pc = "reading"
           /\ n \in Names
           /\ rates'[n] <= since[n]
           /\ table # "process" =>
                n \in DOMAIN counter /\ rates'[n] = Difference(n, Elapsed)
<1>1. CASE ReadCounters
  BY <1>1, DifferenceHonest DEF ReadCounters, HonestReadings, TypeOK
<1>2. CASE \E m \in todo : CollectProcess(m)
  <2>1. PICK m \in todo : CollectProcess(m)
    BY <1>2
  <2>2. HonestReadings'
    BY NextHonest
  <2>3. pc = "reading" /\ pc' = pc /\ since' = since
    BY <2>1 DEF CollectProcess, history
  <2>4. table = "process"
    BY <2>1 DEF CollectProcess, HonestReadings, CollectionSound
  <2> QED BY <2>2, <2>3, <2>4 DEF HonestReadings, CollectionSound, TypeOK
<1>3. CASE RebuildProcessCPUMap
  <2>1. PICK S \in SUBSET DOMAIN rates : rates' = [x \in S |-> rates[x]]
    BY <1>3 DEF RebuildProcessCPUMap
  <2> QED BY <1>3, <2>1 DEF RebuildProcessCPUMap, HonestReadings, CollectionSound, TypeOK
<1>4. CASE Collect \/ NoResults
  BY <1>4, NoRates DEF Collect, NoResults
<1>5. CASE Tick \/ SetClock \/ Reload \/ ReadFails \/ UNCHANGED vars
           \/ \E m \in Names : Vanish(m) \/ Appear(m)
  BY <1>5 DEF Tick, SetClock, Reload, ReadFails, vars, Vanish, Appear
<1> QED BY <1>1, <1>2, <1>3, <1>4, <1>5 DEF Next, Environment, Collector

\* No collection reports more than was counted since the readings it compares
\* with, for any counters, resets and failures (system.go:164-286).
THEOREM RatesNeverOverstated == Spec => NeverOverstated
<1>1. HonestReadings /\ [Next]_vars =>
        [rates' # rates => \A n \in DOMAIN rates' : rates'[n] <= since[n]]_vars
  BY RatesComeFrom
<1> QED BY <1>1, Honest, PTL DEF Spec, NeverOverstated

\* What a device counts is reported, all of it, while its counter runs on and
\* the clock advances (system.go:164-199).
THEOREM RatesNothingUncounted == Spec => NothingUncounted
<1>1. HonestReadings /\ [Next]_vars =>
        [table # "process" /\ rates' # rates /\ now > prevAt =>
           \A n \in whole \cap DOMAIN rates' : rates'[n] = since[n]]_vars
  <2> SUFFICES ASSUME HonestReadings, [Next]_vars, table # "process", rates' # rates,
                      now > prevAt, NEW n \in whole \cap DOMAIN rates'
               PROVE  rates'[n] = since[n]
    OBVIOUS
  <2>1. n \in DOMAIN counter /\ rates'[n] = Difference(n, Elapsed)
    BY RatesComeFrom
  <2>2. prevAt # NeverAt
    BY DEF HonestReadings, CollectionSound
  <2> QED BY <2>1, <2>2, DifferenceHonest
<1> QED BY <1>1, Honest, PTL DEF Spec, NothingUncounted

\* Unless the clock is set, a rate is off by no more than what is counted
\* between the start of a collection and its reading (system.go:44, 67).
THEOREM RatesSpeedBounded == Spec => SpeedBounded
<1>1. HonestReadings /\ [Next]_vars =>
        [jumped = "no" /\ rates' # rates =>
           \A n \in DOMAIN rates' : rates'[n] <= Elapsed + (clock - now)]_vars
  <2> SUFFICES ASSUME HonestReadings, [Next]_vars, jumped = "no", rates' # rates,
                      NEW n \in DOMAIN rates'
               PROVE  rates'[n] <= Elapsed + (clock - now)
    OBVIOUS
  <2>1. n \in Names /\ rates'[n] <= since[n] /\ since[n] <= clock - prevAt
    BY RatesComeFrom DEF HonestReadings, ClockBounds
  <2>2. rates'[n] \in Nat
    <3>1. HonestReadings'
      BY NextHonest
    <3> QED BY <3>1 DEF HonestReadings, TypeOK
  <2> QED BY <2>1, <2>2 DEF Elapsed, HonestReadings, TypeOK
<1> QED BY <1>1, Honest, PTL DEF Spec, SpeedBounded
=============================================================================
