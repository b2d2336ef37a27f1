----------------------- MODULE ServiceCollectorProofs -----------------------
(***************************************************************************)
(* The maps of the service collector agree, and a report covers the        *)
(* configuration, for any lists of services, also with repeated names, any *)
(* intervals and any capacity of the semaphore.                            *)
(***************************************************************************)
EXTENDS ServiceCollector, FiniteSetTheorems, WellFoundedInduction, TLAPS

LEMMA Least ==
    ASSUME NEW S \in SUBSET Nat, S # {}
    PROVE  \E m \in S : \A n \in S : m <= n
<1> DEFINE R == OpToRel(<, Nat)
<1>1. IsWellFoundedOn(R, Nat)
  BY NatLessThanWellFounded
<1>2. PICK m \in S : \A n \in S : <<n, m>> \notin R
  <2> HIDE DEF R
  <2> QED BY <1>1, WFMin
<1>3. \A n \in S : ~(n < m)
  BY <1>2 DEF OpToRel
<1> QED BY <1>3

LEMMA NoDomain == DOMAIN <<>> = {}
OBVIOUS

\* The first entry of a name that has no next run, or has reached it, is due.
LEMMA FirstIsDue ==
    ASSUME cfg \in Seq(Service), NEW name \in Names(cfg), Elapsed(name)
    PROVE  name \in Renewed
<1> DEFINE S == {i \in DOMAIN cfg : cfg[i].name = name}
<1>1. S \in SUBSET Nat /\ S # {}
  BY DEF Names
<1>2. PICK m \in S : \A n \in S : m <= n
  <2> HIDE DEF S
  <2> QED BY <1>1, Least
<1>3. m \in Due
  BY <1>1, <1>2 DEF Due
<1> QED BY <1>2, <1>3 DEF Renewed

\* After the schedule is brought up to date, it has the configured names.
LEMMA ScheduleCovers ==
    ASSUME cfg \in Seq(Service), DOMAIN nextRun = DOMAIN results
    PROVE  DOMAIN Rescheduled = Names(cfg)
<1>1. DOMAIN Rescheduled = (DOMAIN nextRun \ Removed) \cup Renewed
  BY DEF Rescheduled
<1>2. DOMAIN nextRun \ Removed = DOMAIN nextRun \cap Names(cfg)
  BY DEF Removed
<1>3. Renewed \subseteq Names(cfg)
  BY DEF Renewed, Names, Due
<1>4. \A name \in Names(cfg) : name \in DOMAIN nextRun \/ name \in Renewed
  BY FirstIsDue DEF Elapsed
<1> QED BY <1>1, <1>2, <1>3, <1>4

-----------------------------------------------------------------------------
\* The entries of the round of checks under way.
Round == waiting \cup checking \cup DOMAIN outcomes

\* Between rounds the three maps have the same services; during one the
\* schedule is complete already, and the results will be when it ends.
RoundsAgree ==
    /\ config \in Configs
    /\ cfg \in Seq(Service)
    /\ DOMAIN states = DOMAIN results
    /\ pc # "checking" => DOMAIN nextRun = DOMAIN results /\ Round = {}
    /\ pc = "checking" =>
         /\ DOMAIN nextRun = Names(cfg)
         /\ DOMAIN results \cup {cfg[i].name : i \in Round} = Names(cfg)

LEMMA InitRounds == Init => RoundsAgree
BY NoDomain DEF Init, RoundsAgree, Round

LEMMA NextRounds == RoundsAgree /\ [Next]_vars => RoundsAgree'
<1> SUFFICES ASSUME RoundsAgree, [Next]_vars PROVE RoundsAgree'
  OBVIOUS
<1>1. CASE Reload
  BY <1>1 DEF Reload, RoundsAgree, Round, schedule, checks, Names
<1>2. CASE Tick
  BY <1>2 DEF Tick, RoundsAgree, Round, checks, Names
<1>9. CASE SetBack
  BY <1>9 DEF SetBack, RoundsAgree, Round, checks, Names
<1>3. CASE ReadConfig
  BY <1>3, ConfigsAssumption DEF ReadConfig, RoundsAgree, Round, schedule, checks
<1>4. CASE ForgetAll
  BY <1>4, NoDomain DEF ForgetAll, RoundsAgree, Round, checks
<1>5. CASE CollectDue
  <2>1. /\ pc = "sleeping" /\ Round = {} /\ DOMAIN nextRun = DOMAIN results
        /\ UNCHANGED <<config, cfg>>
    BY <1>5 DEF CollectDue, RoundsAgree
  <2>2. /\ DOMAIN nextRun' = Names(cfg)
        /\ DOMAIN nextRun' = (DOMAIN nextRun \ Removed) \cup Renewed
    BY <1>5, <2>1, ScheduleCovers DEF CollectDue, RoundsAgree, Rescheduled
  <2>3. DOMAIN states' = DOMAIN results' /\ DOMAIN results' = DOMAIN results \ Removed
    BY <1>5 DEF CollectDue, Without, RoundsAgree
  <2>4. Round' = Due
    BY <1>5, <2>1 DEF CollectDue, Round
  <2>5. DOMAIN results' \cup {cfg[i].name : i \in Round'} = Names(cfg)
    BY <2>1, <2>2, <2>3, <2>4 DEF Renewed
  <2>6. CASE Due = {}
    <3>1. Renewed = {} /\ pc' = "reading"
      BY <1>5, <2>6 DEF CollectDue, Renewed
    <3> QED BY <2>1, <2>2, <2>3, <2>4, <2>6, <3>1 DEF RoundsAgree
  <2>7. CASE Due # {}
    <3>1. pc' = "checking"
      BY <1>5, <2>7 DEF CollectDue
    <3>2. /\ Names(cfg)' = Names(cfg)
          /\ DOMAIN results' \cup {cfg'[i].name : i \in Round'} = Names(cfg)
      BY <2>1, <2>5 DEF Names
    <3>3. config' \in Configs /\ cfg' \in Seq(Service)
      BY <2>1 DEF RoundsAgree
    <3> QED BY <2>2, <2>3, <3>1, <3>2, <3>3 DEF RoundsAgree
  <2> QED BY <2>6, <2>7
<1>6. ASSUME NEW i \in DOMAIN cfg, StartCheck(i) \/ EndCheck(i) PROVE RoundsAgree'
  <2>1. Round' = Round
    BY <1>6 DEF StartCheck, EndCheck, Round
  <2>2. UNCHANGED <<config, cfg, pc, nextRun, states, results>>
    BY <1>6 DEF StartCheck, EndCheck, schedule
  <2> QED BY <2>1, <2>2 DEF RoundsAgree, Names
<1>7. CASE ApplyResults
  <2>1. /\ pc = "checking" /\ Round = DOMAIN outcomes
        /\ DOMAIN states' = DOMAIN states \cup {cfg[i].name : i \in DOMAIN outcomes}
        /\ DOMAIN results' = DOMAIN results \cup {cfg[i].name : i \in DOMAIN outcomes}
        /\ UNCHANGED <<config, cfg, nextRun>>
        /\ pc' = "reading"
    BY <1>7 DEF ApplyResults, Round
  <2>2. Round' = {}
    BY <1>7, NoDomain DEF ApplyResults, Round
  <2> QED BY <2>1, <2>2 DEF RoundsAgree
<1>8. CASE UNCHANGED vars
  BY <1>8 DEF vars, RoundsAgree, Round, schedule, checks, Names
<1> QED
  BY <1>1, <1>2, <1>3, <1>4, <1>5, <1>6, <1>7, <1>8, <1>9 DEF Next, Checks

LEMMA Rounds == Spec => []RoundsAgree
BY InitRounds, NextRounds, PTL DEF Spec

\* No map keeps a service that another has forgotten, though CollectDue looks
\* for removed services among the results only (service.go:43-51, 66-72).
THEOREM MapsAlwaysAgree == Spec => []MapsAgree
<1>1. RoundsAgree => MapsAgree
  BY DEF RoundsAgree, MapsAgree
<1> QED BY <1>1, Rounds, PTL

\* What is cached for the snapshots covers the services of the configuration
\* they were checked for, no more and no less (service.go:54-133).
THEOREM WholeConfigReported == Spec => ReportsWholeConfig
<1>1. RoundsAgree /\ [Next]_vars => [cached' # cached => DOMAIN cached' = Names(cfg)]_vars
  <2> SUFFICES ASSUME RoundsAgree, [Next]_vars, cached' # cached
               PROVE  DOMAIN cached' = Names(cfg)
    OBVIOUS
  <2>1. CASE ForgetAll
    BY <2>1, NoDomain DEF ForgetAll, Names
  <2>2. CASE ApplyResults
    <3>1. /\ pc = "checking" /\ Round = DOMAIN outcomes /\ cached' = results'
          /\ DOMAIN results' = DOMAIN results \cup {cfg[i].name : i \in DOMAIN outcomes}
      BY <2>2 DEF ApplyResults, Round
    <3> QED BY <3>1 DEF RoundsAgree
  <2> QED
    BY <2>1, <2>2 DEF Next, Reload, Tick, SetBack, ReadConfig, CollectDue, Checks, StartCheck,
       EndCheck, vars
<1> QED BY <1>1, Rounds, PTL DEF Spec, ReportsWholeConfig

-----------------------------------------------------------------------------
LEMMA NoStateFacts == NoState \in ServiceState
BY BoundsAssumption DEF NoState, ServiceState, Never

LEMMA AfterResultFacts ==
    ASSUME NEW state \in ServiceState, NEW success
    PROVE  AfterResult(state, success) \in ServiceState
<1>1. /\ state.successes \in 0..MaxStreak /\ state.failures \in 0..MaxStreak
      /\ state.transition \in Never..(MaxStreak - 1)
      /\ MaxStreak \in Nat \ {0}
  BY BoundsAssumption DEF ServiceState
<1>2. /\ Smaller(state.successes + 1, MaxStreak) \in 0..MaxStreak
      /\ Smaller(state.failures + 1, MaxStreak) \in 0..MaxStreak
      /\ Older(state.transition) \in Never..(MaxStreak - 1)
      /\ 0 \in Never..(MaxStreak - 1) /\ 0 \in 0..MaxStreak
  BY <1>1 DEF Smaller, Older, Never
<1> QED BY <1>2 DEF AfterResult, ServiceState

\* The next run a due service is given is an interval of the configuration.
LEMMA IntervalFacts ==
    ASSUME cfg \in Seq(Service), NEW name \in Renewed
    PROVE  Interval(name) \in Nat
<1>1. \E i \in Due : cfg[i].name = name
  BY DEF Renewed
<1>2. \A i \in Due : cfg[i] \in Service
  BY DEF Due
<1> QED BY <1>1, <1>2 DEF Interval, Service

LEMMA InitType == Init => TypeOK
BY NoDomain DEF Init, TypeOK

LEMMA NextType == TypeOK /\ RoundsAgree /\ [Next]_vars => TypeOK'
<1> SUFFICES ASSUME TypeOK, RoundsAgree, [Next]_vars PROVE TypeOK'
  OBVIOUS
<1>1. CASE Reload
  BY <1>1 DEF Reload, TypeOK, schedule, checks
<1>2. CASE Tick
  BY <1>2 DEF Tick, Later, TypeOK, checks
<1>3. CASE SetBack
  BY <1>3 DEF SetBack, TypeOK, checks
<1>4. CASE ReadConfig
  BY <1>4 DEF ReadConfig, TypeOK, RoundsAgree, Round, schedule, checks
<1>5. CASE ForgetAll
  BY <1>5, NoDomain DEF ForgetAll, TypeOK, checks
<1>6. CASE CollectDue
  <2>1. \A name \in DOMAIN nextRun' : nextRun'[name] \in Nat
    BY <1>6, IntervalFacts DEF CollectDue, Rescheduled, TypeOK, RoundsAgree
  <2>2. /\ \A name \in DOMAIN states' : states'[name] \in ServiceState
        /\ \A name \in DOMAIN results' : results'[name] \in ServiceState
    BY <1>6 DEF CollectDue, Without, TypeOK
  <2>3. waiting' \cup checking' \cup DOMAIN outcomes' \subseteq DOMAIN cfg'
    BY <1>6 DEF CollectDue, Due, TypeOK
  <2> QED BY <1>6, <2>1, <2>2, <2>3 DEF CollectDue, TypeOK
<1>7. ASSUME NEW i \in DOMAIN cfg, StartCheck(i) \/ EndCheck(i) PROVE TypeOK'
  BY <1>7 DEF StartCheck, EndCheck, TypeOK, schedule
<1>8. CASE ApplyResults
  <2>1. \A name : StateOf(name) \in ServiceState
    BY NoStateFacts DEF StateOf, TypeOK
  <2>2. \A name \in DOMAIN states' : states'[name] \in ServiceState
    BY <1>8, <2>1, AfterResultFacts DEF ApplyResults, TypeOK
  <2>3. \A name \in DOMAIN results' : results'[name] \in ServiceState
    BY <1>8, <2>2 DEF ApplyResults, TypeOK
  <2>4. /\ cached' = results' /\ pc' = "reading" /\ DOMAIN outcomes' = {}
        /\ UNCHANGED <<config, cfg, nextRun, waiting, checking>>
    BY <1>8, NoDomain DEF ApplyResults
  <2> QED BY <2>2, <2>3, <2>4 DEF TypeOK
<1>9. CASE UNCHANGED vars
  BY <1>9 DEF vars, TypeOK, schedule, checks
<1> QED
  BY <1>1, <1>2, <1>3, <1>4, <1>5, <1>6, <1>7, <1>8, <1>9 DEF Next, Checks

\* The service collector keeps its types, for any service lists, semaphore and
\* bound on streaks: what is cached for the snapshots are states of services.
THEOREM CollectorTypeCorrect == Spec => []TypeOK
BY InitType, NextType, Rounds, PTL DEF Spec

-----------------------------------------------------------------------------
\* n is the length of the run of outcomes b at the end of a history.
RunIs(history, b, n) ==
    /\ n \in 0..Len(history)
    /\ \A k \in (Len(history) - n + 1)..Len(history) : history[k] = b
    /\ n < Len(history) => history[Len(history) - n] # b

LEMMA RunUnique ==
    ASSUME NEW history \in Seq(BOOLEAN), NEW b \in BOOLEAN, NEW n, RunIs(history, b, n)
    PROVE  Run(history, b) = n
<1>1. Len(history) \in Nat
  OBVIOUS
<1>2. \A m : RunIs(history, b, m) => m = n
  <2> SUFFICES ASSUME NEW m, RunIs(history, b, m), m # n PROVE FALSE
    OBVIOUS
  <2>1. m \in 0..Len(history) /\ n \in 0..Len(history)
    BY DEF RunIs
  <2>2. CASE m < n
    <3>1. Len(history) - m \in (Len(history) - n + 1)..Len(history) /\ m < Len(history)
      BY <1>1, <2>1, <2>2
    <3> QED BY <3>1 DEF RunIs
  <2>3. CASE n < m
    <3>1. Len(history) - n \in (Len(history) - m + 1)..Len(history) /\ n < Len(history)
      BY <1>1, <2>1, <2>3
    <3> QED BY <3>1 DEF RunIs
  <2> QED BY <2>1, <2>2, <2>3
<1>3. Run(history, b) = CHOOSE m \in 0..Len(history) : RunIs(history, b, m)
  BY DEF Run, RunIs
<1>4. n \in 0..Len(history)
  BY DEF RunIs
<1> QED BY <1>2, <1>3, <1>4

\* A history with one more outcome, of which the last MaxStreak are kept.
Extended(history, b) ==
    IF Len(Append(history, b)) > MaxStreak THEN Tail(Append(history, b))
                                           ELSE Append(history, b)

LEMMA ExtendedFacts ==
    ASSUME NEW history \in Seq(BOOLEAN), Len(history) <= MaxStreak, NEW b \in BOOLEAN
    PROVE  /\ Extended(history, b) \in Seq(BOOLEAN)
           /\ Len(Extended(history, b)) =
                 IF Len(history) = MaxStreak THEN MaxStreak ELSE Len(history) + 1
           /\ \A k \in 1..Len(Extended(history, b)) :
                 Extended(history, b)[k] =
                   IF k = Len(Extended(history, b)) THEN b
                   ELSE IF Len(history) = MaxStreak THEN history[k + 1] ELSE history[k]
<1>1. MaxStreak \in Nat \ {0} /\ Len(history) \in Nat
  BY BoundsAssumption
<1>2. CASE Len(history) = MaxStreak
  <2> DEFINE all == Append(history, b)
  <2>1. all \in Seq(BOOLEAN) /\ Len(all) = MaxStreak + 1
    BY <1>1, <1>2
  <2>2. Extended(history, b) = Tail(all)
    BY <1>1, <2>1 DEF Extended
  <2>3. /\ Tail(all) \in Seq(BOOLEAN) /\ Len(Tail(all)) = MaxStreak
        /\ \A k \in 1..MaxStreak : Tail(all)[k] = all[k + 1]
    BY <1>1, <2>1
  <2>4. \A k \in 1..MaxStreak : all[k + 1] = IF k = MaxStreak THEN b ELSE history[k + 1]
    BY <1>1, <1>2
  <2> QED BY <1>2, <2>2, <2>3, <2>4
<1>3. CASE Len(history) # MaxStreak
  <2>1. Extended(history, b) = Append(history, b)
    BY <1>1, <1>3 DEF Extended
  <2> QED BY <1>1, <1>3, <2>1
<1> QED BY <1>2, <1>3

LEMMA ExtendedLast ==
    ASSUME NEW history \in Seq(BOOLEAN), Len(history) <= MaxStreak, NEW b \in BOOLEAN
    PROVE  /\ Extended(history, b) \in Seq(BOOLEAN)
           /\ Len(Extended(history, b)) \in 1..MaxStreak
           /\ Extended(history, b)[Len(Extended(history, b))] = b
<1> DEFINE h == Extended(history, b)
<1>1. /\ MaxStreak \in Nat \ {0} /\ Len(history) \in Nat
      /\ h \in Seq(BOOLEAN)
      /\ Len(h) = IF Len(history) = MaxStreak THEN MaxStreak ELSE Len(history) + 1
      /\ \A k \in 1..Len(h) :
            h[k] = IF k = Len(h) THEN b
                   ELSE IF Len(history) = MaxStreak THEN history[k + 1] ELSE history[k]
  BY ExtendedFacts, BoundsAssumption
<1> HIDE DEF h
<1>2. Len(h) \in 1..MaxStreak /\ Len(h) \in 1..Len(h)
  BY <1>1
<1>3. h[Len(h)] = b
  BY <1>1, <1>2
<1> QED BY <1>1, <1>2, <1>3 DEF h

LEMMA RunGrows ==
    ASSUME NEW history \in Seq(BOOLEAN), Len(history) <= MaxStreak, NEW b \in BOOLEAN,
           NEW n, RunIs(history, b, n)
    PROVE  RunIs(Extended(history, b), b, Smaller(n + 1, MaxStreak))
<1> DEFINE h == Extended(history, b)
<1>1. /\ MaxStreak \in Nat \ {0} /\ Len(history) \in Nat /\ n \in 0..Len(history)
      /\ Len(h) = IF Len(history) = MaxStreak THEN MaxStreak ELSE Len(history) + 1
      /\ \A k \in 1..Len(h) :
            h[k] = IF k = Len(h) THEN b
                   ELSE IF Len(history) = MaxStreak THEN history[k + 1] ELSE history[k]
  BY ExtendedFacts, BoundsAssumption DEF RunIs
<1> HIDE DEF h
<1>3. Smaller(n + 1, MaxStreak) \in 0..Len(h)
  BY <1>1 DEF Smaller
<1>4. CASE Len(history) = MaxStreak
  <2>1. ASSUME NEW k \in (Len(h) - Smaller(n + 1, MaxStreak) + 1)..Len(h), k # Len(h)
        PROVE  k + 1 \in (Len(history) - n + 1)..Len(history) /\ k \in 1..Len(h)
    BY <1>1, <1>4, <2>1 DEF Smaller
  <2>2. \A k \in (Len(h) - Smaller(n + 1, MaxStreak) + 1)..Len(h) : h[k] = b
    <3> TAKE k \in (Len(h) - Smaller(n + 1, MaxStreak) + 1)..Len(h)
    <3>1. CASE k = Len(h)
      BY <1>1, <3>1
    <3>2. CASE k # Len(h)
      BY <1>1, <1>4, <2>1, <3>2 DEF RunIs
    <3> QED BY <3>1, <3>2
  <2>3. ASSUME Smaller(n + 1, MaxStreak) < Len(h) PROVE h[Len(h) - Smaller(n + 1, MaxStreak)] # b
    <3>1. Smaller(n + 1, MaxStreak) = n + 1 /\ n < Len(history)
      BY <1>1, <1>4, <2>3 DEF Smaller
    <3>2. Len(h) - (n + 1) \in 1..Len(h) /\ Len(h) - (n + 1) # Len(h)
          /\ Len(h) - (n + 1) + 1 = Len(history) - n
      BY <1>1, <1>4, <2>3, <3>1
    <3>3. h[Len(h) - (n + 1)] = history[Len(history) - n]
      BY <1>1, <1>4, <3>2
    <3> QED BY <3>1, <3>3 DEF RunIs
  <2> QED BY <1>3, <2>2, <2>3 DEF RunIs, h
<1>5. CASE Len(history) # MaxStreak
  <2>1. Smaller(n + 1, MaxStreak) = n + 1
    BY <1>1, <1>5 DEF Smaller
  <2>2. \A k \in (Len(h) - (n + 1) + 1)..Len(h) : h[k] = b
    <3> TAKE k \in (Len(h) - (n + 1) + 1)..Len(h)
    <3>1. CASE k = Len(h)
      BY <1>1, <3>1
    <3>2. CASE k # Len(h)
      <4>1. k \in (Len(history) - n + 1)..Len(history) /\ k \in 1..Len(h)
        BY <1>1, <1>5, <3>2
      <4> QED BY <1>1, <1>5, <3>2, <4>1 DEF RunIs
    <3> QED BY <3>1, <3>2
  <2>3. ASSUME n + 1 < Len(h) PROVE h[Len(h) - (n + 1)] # b
    <3>1. Len(h) - (n + 1) \in 1..Len(h) /\ Len(h) - (n + 1) # Len(h)
          /\ Len(h) - (n + 1) = Len(history) - n /\ n < Len(history)
      BY <1>1, <1>5, <2>3
    <3>2. h[Len(h) - (n + 1)] = history[Len(history) - n]
      BY <1>1, <1>5, <3>1
    <3> QED BY <3>1, <3>2 DEF RunIs
  <2> QED BY <1>3, <2>1, <2>2, <2>3 DEF RunIs, h
<1> QED BY <1>4, <1>5

LEMMA RunCut ==
    ASSUME NEW history \in Seq(BOOLEAN), Len(history) <= MaxStreak, NEW b \in BOOLEAN,
           NEW c \in BOOLEAN, c # b
    PROVE  RunIs(Extended(history, b), c, 0)
<1> DEFINE h == Extended(history, b)
<1>1. h \in Seq(BOOLEAN) /\ Len(h) \in Nat \ {0} /\ h[Len(h)] = b
  BY ExtendedLast
<1> HIDE DEF h
<1>2. h[Len(h) - 0] # c
  BY <1>1
<1>3. RunIs(h, c, 0)
  BY <1>1, <1>2 DEF RunIs
<1> QED BY <1>3 DEF h

\* A run is empty when the last outcome is another one.
LEMMA RunEmpty ==
    ASSUME NEW history \in Seq(BOOLEAN), Len(history) # 0, NEW b \in BOOLEAN, NEW n,
           RunIs(history, b, n)
    PROVE  n = 0 <=> history[Len(history)] # b
<1>1. Len(history) \in Nat \ {0} /\ n \in 0..Len(history)
  BY DEF RunIs
<1>2. CASE n = 0
  <2>1. history[Len(history) - 0] # b
    BY <1>1, <1>2 DEF RunIs
  <2> QED BY <1>1, <1>2, <2>1
<1>3. CASE n # 0
  <2>1. Len(history) \in (Len(history) - n + 1)..Len(history)
    BY <1>1, <1>3
  <2> QED BY <1>3, <2>1 DEF RunIs
<1> QED BY <1>2, <1>3

-----------------------------------------------------------------------------
\* The state of a service is what its history tells.
Tells(state, history) ==
    /\ history \in Seq(BOOLEAN) /\ Len(history) \in 1..MaxStreak
    /\ state \in ServiceState
    /\ state.lastSuccess = history[Len(history)]
    /\ RunIs(history, TRUE, state.successes)
    /\ RunIs(history, FALSE, state.failures)
    /\ state.transition = (IF state.lastSuccess THEN state.successes ELSE state.failures) - 1

LEMMA FirstTells ==
    ASSUME NEW b \in BOOLEAN
    PROVE  Tells(AfterResult(NoState, b), Extended(<<>>, b))
<1> DEFINE h == Extended(<<>>, b)
<1>1. /\ MaxStreak \in Nat \ {0} /\ <<>> \in Seq(BOOLEAN) /\ Len(<<>>) = 0
      /\ Len(<<>>) <= MaxStreak
  BY BoundsAssumption
<1>2. h \in Seq(BOOLEAN) /\ Len(h) \in 1..MaxStreak /\ h[Len(h)] = b
  BY <1>1, ExtendedLast
<1>3. Smaller(0 + 1, MaxStreak) = 1
  BY <1>1 DEF Smaller
<1>4. RunIs(<<>>, b, 0)
  BY <1>1 DEF RunIs
<1>5. RunIs(h, b, 1)
  <2>1. RunIs(h, b, Smaller(0 + 1, MaxStreak))
    BY <1>1, <1>4, RunGrows
  <2> QED BY <1>3, <2>1
<1>6. AfterResult(NoState, b) \in ServiceState
  BY NoStateFacts, AfterResultFacts
<1>7. \A c \in BOOLEAN : c # b => RunIs(h, c, 0)
  BY <1>1, RunCut
<1> HIDE DEF h
<1>8. CASE b = TRUE
  <2>1. /\ AfterResult(NoState, b).lastSuccess = TRUE
        /\ AfterResult(NoState, b).successes = 1
        /\ AfterResult(NoState, b).failures = 0
        /\ AfterResult(NoState, b).transition = 0
    BY <1>3, <1>8 DEF AfterResult, NoState
  <2>2. RunIs(h, TRUE, 1) /\ RunIs(h, FALSE, 0)
    BY <1>5, <1>7, <1>8
  <2>3. AfterResult(NoState, b).transition =
          (IF AfterResult(NoState, b).lastSuccess
           THEN AfterResult(NoState, b).successes ELSE AfterResult(NoState, b).failures) - 1
    BY <2>1
  <2> QED BY <1>2, <1>6, <1>8, <2>1, <2>2, <2>3 DEF Tells, h
<1>9. CASE b = FALSE
  <2>1. /\ AfterResult(NoState, b).lastSuccess = FALSE
        /\ AfterResult(NoState, b).successes = 0
        /\ AfterResult(NoState, b).failures = 1
        /\ AfterResult(NoState, b).transition = 0
    BY <1>3, <1>9 DEF AfterResult, NoState, Never
  <2>2. RunIs(h, FALSE, 1) /\ RunIs(h, TRUE, 0)
    BY <1>5, <1>7, <1>9
  <2>3. AfterResult(NoState, b).transition =
          (IF AfterResult(NoState, b).lastSuccess
           THEN AfterResult(NoState, b).successes ELSE AfterResult(NoState, b).failures) - 1
    BY <2>1
  <2> QED BY <1>2, <1>6, <1>9, <2>1, <2>2, <2>3 DEF Tells, h
<1> QED BY <1>8, <1>9

LEMMA NextTells ==
    ASSUME NEW state, NEW history, Tells(state, history), NEW b \in BOOLEAN
    PROVE  Tells(AfterResult(state, b), Extended(history, b))
<1> DEFINE h == Extended(history, b)
<1>1. /\ MaxStreak \in Nat \ {0}
      /\ history \in Seq(BOOLEAN) /\ Len(history) \in 1..MaxStreak
      /\ Len(history) # 0 /\ Len(history) <= MaxStreak
      /\ state \in ServiceState
      /\ state.successes \in 0..MaxStreak /\ state.failures \in 0..MaxStreak
      /\ state.lastSuccess \in BOOLEAN
  BY BoundsAssumption DEF Tells, ServiceState
<1>2. h \in Seq(BOOLEAN) /\ Len(h) \in 1..MaxStreak /\ h[Len(h)] = b
  BY <1>1, ExtendedLast
<1>3. AfterResult(state, b) \in ServiceState
  BY <1>1, AfterResultFacts
<1>4. \A n \in 0..MaxStreak :
        Smaller(n + 1, MaxStreak) - 1 = IF n = 0 THEN 0 ELSE Older(n - 1)
  BY <1>1 DEF Smaller, Older
<1>5. RunIs(history, TRUE, state.successes) /\ RunIs(history, FALSE, state.failures)
      /\ state.lastSuccess = history[Len(history)]
  BY DEF Tells
<1>6. /\ state.successes = 0 <=> state.lastSuccess # TRUE
      /\ state.failures = 0 <=> state.lastSuccess # FALSE
  BY <1>1, <1>5, RunEmpty
<1>7. \A c \in BOOLEAN : c # b => RunIs(h, c, 0)
  BY <1>1, RunCut
<1>8. \A n : RunIs(history, b, n) => RunIs(h, b, Smaller(n + 1, MaxStreak))
  BY <1>1, RunGrows
<1> HIDE DEF h
<1>9. CASE b = TRUE
  <2>1. RunIs(h, TRUE, Smaller(state.successes + 1, MaxStreak)) /\ RunIs(h, FALSE, 0)
    BY <1>5, <1>7, <1>8, <1>9
  <2>2. AfterResult(state, b).transition = Smaller(state.successes + 1, MaxStreak) - 1
    BY <1>1, <1>4, <1>6, <1>9 DEF AfterResult, Tells
  <2>3. /\ AfterResult(state, b).lastSuccess = TRUE
        /\ AfterResult(state, b).successes = Smaller(state.successes + 1, MaxStreak)
        /\ AfterResult(state, b).failures = 0
    BY <1>9 DEF AfterResult
  <2> QED BY <1>2, <1>3, <1>9, <2>1, <2>2, <2>3 DEF Tells, h
<1>10. CASE b = FALSE
  <2>1. RunIs(h, FALSE, Smaller(state.failures + 1, MaxStreak)) /\ RunIs(h, TRUE, 0)
    BY <1>5, <1>7, <1>8, <1>10
  <2>2. ~state.lastSuccess => state.transition # Never
    <3> SUFFICES ASSUME ~state.lastSuccess PROVE state.transition # Never
      OBVIOUS
    <3>1. state.lastSuccess = FALSE
      BY <1>1
    <3>2. state.failures # 0
      BY <1>6, <3>1
    <3>3. state.transition = state.failures - 1
      BY <3>1 DEF Tells
    <3> QED BY <1>1, <3>2, <3>3 DEF Never
  <2>3. AfterResult(state, b).transition = Smaller(state.failures + 1, MaxStreak) - 1
    BY <1>1, <1>4, <1>6, <1>10, <2>2 DEF AfterResult, Tells
  <2>4. /\ AfterResult(state, b).lastSuccess = FALSE
        /\ AfterResult(state, b).successes = 0
        /\ AfterResult(state, b).failures = Smaller(state.failures + 1, MaxStreak)
    BY <1>10 DEF AfterResult
  <2> QED BY <1>2, <1>3, <1>10, <2>1, <2>3, <2>4 DEF Tells, h
<1> QED BY <1>9, <1>10

\* Every reported service has a history that its state tells.
HistoriesTold ==
    /\ DOMAIN states = DOMAIN results /\ DOMAIN recent = DOMAIN results
    /\ \A i \in DOMAIN outcomes : outcomes[i] \in BOOLEAN
    /\ \A name \in DOMAIN results :
          states[name] = results[name] /\ Tells(results[name], recent[name])

LEMMA InitHistories == Init => HistoriesTold
BY NoDomain DEF Init, HistoriesTold

LEMMA NextHistories == HistoriesTold /\ [Next]_vars => HistoriesTold'
<1> SUFFICES ASSUME HistoriesTold, [Next]_vars PROVE HistoriesTold'
  OBVIOUS
<1>1. CASE UNCHANGED <<states, results, outcomes, recent>>
  BY <1>1 DEF HistoriesTold
<1>2. CASE ForgetAll
  BY <1>2, NoDomain DEF ForgetAll, HistoriesTold, checks
<1>3. CASE CollectDue
  <2>1. recent' = Without(recent, Removed)
    BY <1>3 DEF CollectDue, HistoriesTold, Removed
  <2> QED BY <1>3, <2>1 DEF CollectDue, Without, HistoriesTold
<1>4. ASSUME NEW i \in DOMAIN cfg, EndCheck(i) PROVE HistoriesTold'
  BY <1>4 DEF EndCheck, HistoriesTold, schedule
<1>5. CASE ApplyResults
  <2> DEFINE checked == {cfg[i].name : i \in DOMAIN outcomes}
             Success(name) == outcomes[CHOOSE i \in DOMAIN outcomes : cfg[i].name = name]
             before(name) == IF name \in DOMAIN recent THEN recent[name] ELSE <<>>
  <2>1. \A name \in checked : Success(name) \in BOOLEAN
    BY DEF HistoriesTold
  <2>2. /\ DOMAIN states' = DOMAIN states \cup checked
        /\ DOMAIN results' = DOMAIN results \cup checked
        /\ DOMAIN recent' = DOMAIN recent \cup checked
        /\ DOMAIN outcomes' = {}
    BY <1>5, NoDomain DEF ApplyResults
  <2>3. \A name \in checked :
           /\ states'[name] = AfterResult(StateOf(name), Success(name))
           /\ results'[name] = states'[name]
           /\ recent'[name] = Extended(before(name), Success(name))
    BY <1>5 DEF ApplyResults, Extended
  <2>4. \A name \in DOMAIN results \ checked :
           states'[name] = states[name] /\ results'[name] = results[name]
             /\ recent'[name] = recent[name]
    BY <1>5 DEF ApplyResults, HistoriesTold
  <2> HIDE DEF checked, Success
  <2>5. ASSUME NEW name \in checked
        PROVE  Tells(AfterResult(StateOf(name), Success(name)),
                     Extended(before(name), Success(name)))
    <3>1. CASE name \in DOMAIN results
      <4>1. StateOf(name) = results[name] /\ before(name) = recent[name]
        BY <3>1 DEF StateOf, HistoriesTold
      <4>2. Tells(results[name], recent[name])
        BY <3>1 DEF HistoriesTold
      <4> QED BY <2>1, <4>1, <4>2, NextTells
    <3>2. CASE name \notin DOMAIN results
      <4>1. StateOf(name) = NoState /\ before(name) = <<>>
        BY <3>2 DEF StateOf, HistoriesTold
      <4> QED BY <2>1, <4>1, FirstTells
    <3> QED BY <3>1, <3>2
  <2> HIDE DEF before
  <2>6. \A name \in DOMAIN results' :
           states'[name] = results'[name] /\ Tells(results'[name], recent'[name])
    <3> SUFFICES ASSUME NEW name \in DOMAIN results'
                 PROVE  states'[name] = results'[name] /\ Tells(results'[name], recent'[name])
      OBVIOUS
    <3>1. CASE name \in checked
      BY <2>3, <2>5, <3>1
    <3>2. CASE name \notin checked
      BY <2>2, <2>4, <3>2 DEF HistoriesTold
    <3> QED BY <3>1, <3>2
  <2> QED BY <2>2, <2>6 DEF HistoriesTold
<1> QED
  BY <1>1, <1>2, <1>3, <1>4, <1>5
  DEF Next, Checks, Reload, Tick, SetBack, ReadConfig, StartCheck, schedule, checks, vars

\* What is reported of a service is its history, for any service lists and any
\* length up to which streaks are told apart (service.go:104-127).
THEOREM StreaksToldRight == Spec => []StreaksTellHistory
<1>1. HistoriesTold => StreaksTellHistory
  <2> SUFFICES ASSUME HistoriesTold, NEW name \in DOMAIN results
               PROVE  LET history == recent[name]
                          last    == history[Len(history)] IN
                        /\ name \in DOMAIN recent
                        /\ results[name] =
                             [lastSuccess |-> last,
                              successes   |-> Run(history, TRUE),
                              failures    |-> Run(history, FALSE),
                              transition  |-> Run(history, last) - 1]
    BY DEF StreaksTellHistory
  <2> DEFINE history == recent[name]
             state == results[name]
  <2>1. Tells(state, history) /\ name \in DOMAIN recent
    BY DEF HistoriesTold
  <2> HIDE DEF history, state
  <2>2. /\ Run(history, TRUE) = state.successes
        /\ Run(history, FALSE) = state.failures
    BY <2>1, RunUnique DEF Tells
  <2>3. /\ state.lastSuccess = history[Len(history)] /\ state.lastSuccess \in BOOLEAN
        /\ state.transition = Run(history, state.lastSuccess) - 1
    BY <2>1, <2>2 DEF Tells, ServiceState
  <2>4. state = [lastSuccess |-> state.lastSuccess, successes |-> state.successes,
                 failures |-> state.failures, transition |-> state.transition]
    BY <2>1 DEF Tells, ServiceState
  <2> QED BY <2>1, <2>2, <2>3, <2>4 DEF history, state
<1>2. Spec => []HistoriesTold
  BY InitHistories, NextHistories, PTL DEF Spec
<1> QED BY <1>1, <1>2, PTL

-----------------------------------------------------------------------------
\* Check steps left in a round: two of a check that waits, one of a check that
\* is under way.
ChecksLeft == 2 * Cardinality(waiting) + Cardinality(checking)

RoundFinite ==
    /\ IsFiniteSet(waiting) /\ IsFiniteSet(checking)
    /\ ChecksLeft <= 2 * Len(cfg)
    /\ Cardinality(checking) <= Limit

LEMMA NoneLeft ==
    /\ IsFiniteSet({}) /\ Cardinality({}) = 0
BY FS_EmptySet

\* A round starts with at most one check of every entry.
LEMMA DueFinite ==
    ASSUME cfg \in Seq(Service)
    PROVE  IsFiniteSet(Due) /\ Cardinality(Due) \in 0..Len(cfg)
<1>1. Len(cfg) \in Nat /\ DOMAIN cfg = 1..Len(cfg) /\ Due \subseteq 1..Len(cfg)
  BY DEF Due
<1>2. IsFiniteSet(1..Len(cfg)) /\ Cardinality(1..Len(cfg)) = Len(cfg)
  <2>1. /\ IsFiniteSet(1..Len(cfg))
        /\ Cardinality(1..Len(cfg)) = IF 1 > Len(cfg) THEN 0 ELSE Len(cfg) - 1 + 1
    BY <1>1, FS_Interval
  <2> QED BY <1>1, <2>1
<1>3. IsFiniteSet(Due) /\ Cardinality(Due) <= Len(cfg)
  <2> DEFINE S == 1..Len(cfg)
  <2>1. IsFiniteSet(S) /\ Cardinality(S) = Len(cfg) /\ Due \in SUBSET S
    BY <1>1, <1>2
  <2> HIDE DEF S
  <2>2. IsFiniteSet(Due) /\ Cardinality(Due) <= Cardinality(S)
    BY <2>1, FS_Subset
  <2> QED BY <2>1, <2>2
<1> QED BY <1>1, <1>3, FS_CardinalityType

\* A step of a check shortens the round it is part of.
LEMMA CheckShortens ==
    ASSUME RoundFinite, NEW i \in DOMAIN cfg, StartCheck(i) \/ EndCheck(i)
    PROVE  /\ IsFiniteSet(waiting') /\ IsFiniteSet(checking')
           /\ ChecksLeft' \in Nat /\ ChecksLeft \in Nat /\ ChecksLeft' < ChecksLeft
           /\ Cardinality(checking') <= Limit
<1>1. /\ IsFiniteSet(waiting) /\ IsFiniteSet(checking) /\ Limit \in Nat
      /\ Cardinality(waiting) \in Nat /\ Cardinality(checking) \in Nat
      /\ Cardinality(checking) <= Limit
  BY FS_CardinalityType, BoundsAssumption DEF RoundFinite
<1>2. CASE StartCheck(i)
  <2>1. /\ i \in waiting /\ Cardinality(checking) < Limit
        /\ waiting' = waiting \ {i} /\ checking' = checking \cup {i}
    BY <1>2 DEF StartCheck
  <2>2. IsFiniteSet(waiting') /\ Cardinality(waiting') = Cardinality(waiting) - 1
    BY <1>1, <2>1, FS_RemoveElement
  <2>3. /\ IsFiniteSet(checking')
        /\ Cardinality(checking') \in {Cardinality(checking), Cardinality(checking) + 1}
    BY <1>1, <2>1, FS_AddElement
  <2>4. Cardinality(waiting') \in Nat
    BY <2>2, FS_CardinalityType
  <2> QED BY <1>1, <2>1, <2>2, <2>3, <2>4 DEF ChecksLeft
<1>3. CASE EndCheck(i)
  <2>1. i \in checking /\ checking' = checking \ {i} /\ waiting' = waiting
    BY <1>3 DEF EndCheck
  <2>2. IsFiniteSet(checking') /\ Cardinality(checking') = Cardinality(checking) - 1
    BY <1>1, <2>1, FS_RemoveElement
  <2>3. Cardinality(checking') \in Nat
    BY <2>2, FS_CardinalityType
  <2> QED BY <1>1, <2>1, <2>2, <2>3 DEF ChecksLeft
<1> QED BY <1>2, <1>3

LEMMA InitRoundFinite == Init => RoundFinite
BY NoneLeft, BoundsAssumption DEF Init, RoundFinite, ChecksLeft

LEMMA NextRoundFinite == RoundsAgree /\ RoundFinite /\ [Next]_vars => RoundFinite'
<1> SUFFICES ASSUME RoundsAgree, RoundFinite, [Next]_vars PROVE RoundFinite'
  OBVIOUS
<1>1. CASE UNCHANGED <<cfg, waiting, checking>>
  BY <1>1 DEF RoundFinite, ChecksLeft
<1>2. CASE ReadConfig
  <2>1. waiting' = {} /\ checking' = {} /\ cfg' \in Seq(Service)
    BY <1>2, ConfigsAssumption DEF ReadConfig, RoundsAgree, Round, checks
  <2> QED BY <2>1, NoneLeft, BoundsAssumption DEF RoundFinite, ChecksLeft
<1>3. CASE CollectDue
  <2>1. waiting' = Due /\ checking' = {} /\ cfg' = cfg /\ cfg \in Seq(Service)
    BY <1>3 DEF CollectDue, RoundsAgree, Round
  <2>2. Len(cfg) \in Nat
    BY <2>1
  <2> QED BY <2>1, <2>2, DueFinite, NoneLeft, BoundsAssumption DEF RoundFinite, ChecksLeft
<1>4. ASSUME NEW i \in DOMAIN cfg, StartCheck(i) \/ EndCheck(i) PROVE RoundFinite'
  <2>1. cfg' = cfg /\ Len(cfg) \in Nat
    BY <1>4 DEF StartCheck, EndCheck, RoundsAgree
  <2> QED BY <1>4, <2>1, CheckShortens DEF RoundFinite
<1> QED
  BY <1>1, <1>2, <1>3, <1>4
  DEF Next, Checks, Reload, Tick, SetBack, ForgetAll, ApplyResults, schedule, checks, vars

\* A round of checks is bounded: it has two steps for every entry of its
\* configuration at most, each of them leaves fewer, nothing that happens
\* meanwhile adds any, and never more than the semaphore's capacity run at once
\* (service.go:77-102).
THEOREM RoundsAreShort ==
    Spec => /\ [](ChecksLeft \in 0..(2 * Len(cfg)) /\ Cardinality(checking) <= Limit)
            /\ [][/\ Checks => ChecksLeft' < ChecksLeft
                  /\ pc = "checking" => ChecksLeft' <= ChecksLeft]_vars
<1>1. RoundsAgree /\ RoundFinite =>
        ChecksLeft \in 0..(2 * Len(cfg)) /\ Cardinality(checking) <= Limit
  <2> SUFFICES ASSUME RoundsAgree, RoundFinite
               PROVE  ChecksLeft \in 0..(2 * Len(cfg)) /\ Cardinality(checking) <= Limit
    OBVIOUS
  <2>1. Cardinality(waiting) \in Nat /\ Cardinality(checking) \in Nat /\ Len(cfg) \in Nat
    BY FS_CardinalityType DEF RoundFinite, RoundsAgree
  <2> QED BY <2>1 DEF RoundFinite, ChecksLeft
<1>2. RoundFinite /\ [Next]_vars =>
        [/\ Checks => ChecksLeft' < ChecksLeft
         /\ pc = "checking" => ChecksLeft' <= ChecksLeft]_vars
  <2> SUFFICES ASSUME RoundFinite, [Next]_vars
               PROVE  /\ Checks => ChecksLeft' < ChecksLeft
                      /\ pc = "checking" => ChecksLeft' <= ChecksLeft
    OBVIOUS
  <2>1. Checks => ChecksLeft' \in Nat /\ ChecksLeft \in Nat /\ ChecksLeft' < ChecksLeft
    BY CheckShortens DEF Checks
  <2>2. CASE UNCHANGED <<waiting, checking>>
    <3>1. ChecksLeft \in Nat
      BY FS_CardinalityType DEF RoundFinite, ChecksLeft
    <3>2. ChecksLeft' = ChecksLeft
      BY <2>2 DEF ChecksLeft
    <3> QED BY <2>1, <3>1, <3>2
  <2>3. CASE Checks
    BY <2>1, <2>3
  <2>4. CASE CollectDue
    BY <2>1, <2>4 DEF CollectDue
  <2> QED
    BY <2>2, <2>3, <2>4
    DEF Next, Reload, Tick, SetBack, ReadConfig, ForgetAll, ApplyResults, checks, vars
<1>3. Spec => []RoundFinite
  BY InitRoundFinite, NextRoundFinite, Rounds, PTL DEF Spec
<1> QED BY <1>1, <1>2, <1>3, Rounds, PTL DEF Spec

-----------------------------------------------------------------------------
\* A wait some configuration asks for.
AskedFor(name, ticks) ==
    \E services \in Configs : \E i \in DOMAIN services :
        services[i].name = name /\ ticks <= services[i].interval

ScheduledSoon == \A name \in DOMAIN nextRun : AskedFor(name, nextRun[name])

SoonInv ==
    /\ cfg \in Configs \cup {<<>>}
    /\ \A name \in DOMAIN nextRun : nextRun[name] \in Nat
    /\ ScheduledSoon

LEMMA InitSoon == Init => SoonInv
BY NoDomain DEF Init, SoonInv, ScheduledSoon

\* The next run a due service is given is one the configuration asks for.
LEMMA IntervalAsked ==
    ASSUME cfg \in Configs, NEW name \in Renewed
    PROVE  Interval(name) \in Nat /\ AskedFor(name, Interval(name))
<1>1. cfg \in Seq(Service)
  BY ConfigsAssumption
<1>2. PICK i \in Due : cfg[i].name = name /\ Interval(name) = cfg[i].interval
  BY DEF Renewed, Interval
<1>3. i \in DOMAIN cfg /\ cfg[i] \in Service
  BY <1>1, <1>2 DEF Due
<1> QED BY <1>2, <1>3 DEF AskedFor, Service

\* What is asked for is asked for a tick later too.
LEMMA LaterAsked ==
    ASSUME NEW name, NEW ticks \in Nat, AskedFor(name, ticks)
    PROVE  Later(ticks) \in Nat /\ AskedFor(name, Later(ticks))
<1>1. PICK services \in Configs :
        \E i \in DOMAIN services : services[i].name = name /\ ticks <= services[i].interval
  BY DEF AskedFor
<1>2. PICK i \in DOMAIN services : services[i].name = name /\ ticks <= services[i].interval
  BY <1>1
<1>3. services \in Seq(Service)
  BY ConfigsAssumption
<1>4. services[i] \in Service
  BY <1>2, <1>3
<1>5. services[i].interval \in Nat
  BY <1>4 DEF Service
<1>6. Later(ticks) \in Nat /\ Later(ticks) <= services[i].interval
  BY <1>2, <1>5 DEF Later
<1> QED BY <1>1, <1>2, <1>6 DEF AskedFor

LEMMA NextSoon == RoundsAgree /\ SoonInv /\ [Next]_vars /\ [~SetBack]_vars => SoonInv'
<1> SUFFICES ASSUME RoundsAgree, SoonInv, [Next]_vars, [~SetBack]_vars PROVE SoonInv'
  OBVIOUS
<1>1. CASE UNCHANGED <<cfg, nextRun>>
  BY <1>1 DEF SoonInv, ScheduledSoon
<1>2. CASE Tick
  <2>1. cfg' = cfg /\ nextRun' = [name \in DOMAIN nextRun |-> Later(nextRun[name])]
    BY <1>2 DEF Tick
  <2>2. \A name \in DOMAIN nextRun :
          Later(nextRun[name]) \in Nat /\ AskedFor(name, Later(nextRun[name]))
    BY LaterAsked DEF SoonInv, ScheduledSoon
  <2> QED BY <2>1, <2>2 DEF SoonInv, ScheduledSoon
<1>3. CASE ReadConfig
  BY <1>3 DEF ReadConfig, RoundsAgree, SoonInv, ScheduledSoon, schedule
<1>4. CASE ForgetAll
  BY <1>4, NoDomain DEF ForgetAll, SoonInv, ScheduledSoon
<1>5. CASE CollectDue
  <2>1. cfg' = cfg /\ cfg \in Configs /\ nextRun' = Rescheduled
    BY <1>5 DEF CollectDue, SoonInv
  <2>2. \A name \in Renewed : Interval(name) \in Nat /\ AskedFor(name, Interval(name))
    BY <2>1, IntervalAsked
  <2> QED BY <2>1, <2>2 DEF SoonInv, ScheduledSoon, Rescheduled
<1> QED
  BY <1>1, <1>2, <1>3, <1>4, <1>5
  DEF Next, Checks, Reload, SetBack, StartCheck, EndCheck, ApplyResults, schedule, checks, vars

\* While the clock is not set back, no service waits longer for its next run
\* than an interval some configuration has given it: a reload, a removal or a
\* repeated name never puts a check off further (service.go:54-75).
THEOREM NeverPutOff == Spec /\ [][~SetBack]_vars => []ScheduledSoon
<1>1. SoonInv => ScheduledSoon
  BY DEF SoonInv
<1>2. Spec /\ [][~SetBack]_vars => []SoonInv
  BY InitSoon, NextSoon, Rounds, PTL DEF Spec
<1> QED BY <1>1, <1>2, PTL

=============================================================================
