-------------------------- MODULE SanitiserProofs ---------------------------
(***************************************************************************)
(* Whatever numbers a configuration file has, the agent runs with settings *)
(* its loops, its sender and its spool can work with.                      *)
(* Whatever names its services have, the names the agent gives them are     *)
(* distinct where no candidate can be mistaken for another.                *)
(***************************************************************************)
EXTENDS Sanitiser, ServiceNames, SequenceTheorems, TLAPS

LEMMA PositiveOrFacts ==
    ASSUME NEW value \in Int, NEW fallback \in Positive
    PROVE  PositiveOr(value, fallback) \in Positive
BY DEF PositiveOr, Positive

LEMMA ResolvePathFacts ==
    ASSUME NEW source \in Path, NEW path \in Path
    PROVE  ResolvePath(source, path) \in Path
<1>1. CASE source = <<>>
  BY <1>1 DEF ResolvePath
<1>2. CASE source # <<>>
  <2>1. Front(source) \in Seq(STRING)
    BY <1>2 DEF Front, Path
  <2>2. Front(source) \o path \in Seq(STRING)
    BY <2>1 DEF Path
  <2> QED BY <2>2 DEF ResolvePath, Path
<1> QED BY <1>1, <1>2

\* Every period, limit, size and delay the agent reads from its configuration
\* is positive, whatever the file says: no loop spins, no batch is empty, no
\* spool holds nothing (config.go:359-402, 576-614).
THEOREM SettingsUsable ==
    ASSUME NEW file \in File, NEW source \in Path
    PROVE  /\ Collection(file.collection) \in CollectionRuntime
           /\ Buffer(file.buffer, source) \in BufferRuntime
           /\ Transport(file.transport) \in TransportRuntime
<1>1. /\ file.collection \in [Intervals -> Int]
      /\ file.buffer \in BufferFile
      /\ file.transport \in TransportFile
  BY DEF File
<1>2. /\ Defaults.collection \in CollectionRuntime
      /\ Defaults.buffer \in BufferRuntime
      /\ Defaults.transport \in TransportRuntime
  BY DefaultsAssumption
<1>3. Collection(file.collection) \in CollectionRuntime
  BY <1>1, <1>2, PositiveOrFacts DEF Collection, CollectionRuntime
<1>4. Buffer(file.buffer, source) \in BufferRuntime
  <2>1. Directory(file.buffer, source) \in Path
    BY <1>1, <1>2, ResolvePathFacts DEF Directory, BufferFile, BufferRuntime
  <2>2. SwitchOr(file.buffer.enabled, Defaults.buffer.enabled) \in BOOLEAN
    BY <1>1, <1>2, Zenon DEF SwitchOr, BufferFile, BufferRuntime
  <2>3. /\ PositiveOr(file.buffer.maxBatches, Defaults.buffer.maxBatches) \in Positive
        /\ PositiveOr(file.buffer.maxBatchBytes, Defaults.buffer.maxBatchBytes) \in Positive
        /\ PositiveOr(file.buffer.maxBatchAge, Defaults.buffer.maxBatchAge) \in Positive
    BY <1>1, <1>2, PositiveOrFacts DEF BufferFile, BufferRuntime
  <2> QED BY <2>1, <2>2, <2>3, Zenon DEF Buffer, BufferRuntime
<1>5. Transport(file.transport) \in TransportRuntime
  <2>1. SwitchOr(file.transport.compression, Defaults.transport.compression) \in BOOLEAN
    BY <1>1, <1>2, Zenon DEF SwitchOr, TransportFile, TransportRuntime
  <2>2. /\ PositiveOr(file.transport.batchSize, Defaults.transport.batchSize) \in Positive
        /\ PositiveOr(file.transport.requestTimeout, Defaults.transport.requestTimeout) \in Positive
        /\ PositiveOr(file.transport.maxRetries, Defaults.transport.maxRetries) \in Positive
        /\ PositiveOr(file.transport.initialBackoff, Defaults.transport.initialBackoff) \in Positive
        /\ PositiveOr(file.transport.maxBackoff, Defaults.transport.maxBackoff) \in Positive
    BY <1>1, <1>2, PositiveOrFacts DEF TransportFile, TransportRuntime
  <2> QED BY <2>1, <2>2, Zenon DEF Transport, TransportRuntime
<1> QED BY <1>3, <1>4, <1>5

\* A service is checked at a positive interval, and the timeout of its check
\* is positive and no longer than that (config.go:508-527, 686-707).
THEOREM ChecksFitTheirInterval ==
    ASSUME NEW service \in ServiceFile, NEW interval \in Positive
    PROVE  /\ Service(service, interval) \in ServiceRuntime
           /\ Service(service, interval).timeout <= Service(service, interval).interval
<1> DEFINE i == PositiveOr(service.interval, interval)
           t == PositiveOr(service.timeout, DefaultTimeout)
<1>1. i \in Positive /\ t \in Positive
  BY PositiveOrFacts, DefaultsAssumption DEF ServiceFile
<1>2. ExpectedStatuses(service.statuses) \in SUBSET (100..599) /\ service.name \in STRING
  BY DEF ExpectedStatuses, ServiceFile
<1> HIDE DEF i, t
<1>3. Service(service, interval) =
        [name |-> service.name, interval |-> i, timeout |-> IF i < t THEN i ELSE t,
         statuses |-> ExpectedStatuses(service.statuses)]
  BY DEF Service, i, t
<1>4. (IF i < t THEN i ELSE t) \in Positive /\ (IF i < t THEN i ELSE t) <= i
  BY <1>1 DEF Positive
<1> QED BY <1>2, <1>3, <1>1, <1>4 DEF ServiceRuntime

\* A file that sets nothing means the defaults, but for the buffer directory,
\* which is found beside the file: the spool moves when such a file is emptied
\* or given something again (config.go:236-262, 381-385, 709-718).
THEOREM NothingSetMeansDefaults ==
    ASSUME NEW source \in Path
    PROVE  LET runtime == RuntimeFromFile(NothingSet, source) IN
             /\ runtime.collection = DefaultRuntime.collection
             /\ runtime.transport = DefaultRuntime.transport
             /\ runtime.buffer = [DefaultRuntime.buffer EXCEPT
                                    !.directory = ResolvePath(source, @)]
<1>1. ~(0 > 0)
  OBVIOUS
<1>2. \A fallback : PositiveOr(0, fallback) = fallback /\ SwitchOr("unset", fallback) = fallback
  BY <1>1 DEF PositiveOr, SwitchOr
<1>3. Collection(NothingSet.collection) = Defaults.collection
  BY <1>2, DefaultsAssumption DEF Collection, NothingSet, CollectionRuntime
<1>4. Transport(NothingSet.transport) = Defaults.transport
  BY <1>2, DefaultsAssumption DEF Transport, NothingSet, TransportRuntime
<1>5. Directory(NothingSet.buffer, source) = ResolvePath(source, Defaults.buffer.directory)
  BY DEF Directory, NothingSet
<1>6. Buffer(NothingSet.buffer, source) =
        [Defaults.buffer EXCEPT !.directory = ResolvePath(source, Defaults.buffer.directory)]
  BY <1>2, <1>5, DefaultsAssumption DEF Buffer, NothingSet, BufferRuntime
<1>7. /\ RuntimeFromFile(NothingSet, source).collection = Collection(NothingSet.collection)
      /\ RuntimeFromFile(NothingSet, source).transport = Transport(NothingSet.transport)
      /\ RuntimeFromFile(NothingSet, source).buffer = Buffer(NothingSet.buffer, source)
  BY DEF RuntimeFromFile
<1> QED BY <1>3, <1>4, <1>6, <1>7 DEF DefaultRuntime

-----------------------------------------------------------------------------
(* The names of services. *)

Name == Seq(STRING \cup Nat)

\* The entries that get a name, and those the loop has passed.
Usable == {i \in 1..Len(services) : services[i].usable}
Passed == {i \in Usable : i < idx}

\* No name is used by three services, and none is what another becomes when
\* it is numbered.
Unambiguous ==
    /\ \A i, j, k \in Usable :
          i < j /\ j < k /\ services[i].name = services[j].name => services[k].name # services[i].name
    /\ \A i, j \in Usable : services[i].name # Renamed(services[j].name, 1)

\* Where a name that was given comes from: it is that of an entry, or that of
\* two entries with the number two.
Given(passed, name) ==
    \/ \E i \in passed : name = services[i].name
    \/ \E i, j \in passed :
          /\ i < j /\ services[i].name = services[j].name
          /\ name = Renamed(services[i].name, 1)

\* Every name was given once, and there was a reason for it.
GivenOnce ==
    /\ names \in Seq(Name)
    /\ \A k \in 1..Len(names) : Given(Passed, names[k])
    /\ DOMAIN seenNames = {names[k] : k \in 1..Len(names)}
    /\ \A name \in DOMAIN seenNames : seenNames[name] = 1
    /\ IsInjective(names)

NamesInv == services \in Seq(Entry) /\ idx \in Nat \ {0} /\ (Unambiguous => GivenOnce)

LEMMA InitNames == MaxServices \in Nat /\ Init => NamesInv
<1> SUFFICES ASSUME MaxServices \in Nat, Init PROVE NamesInv
  OBVIOUS
<1>1. PICK m \in 0..MaxServices : services \in [1..m -> Entry]
  BY DEF Init, SeqOf
<1>2. services \in Seq(Entry)
  BY <1>1
<1>3. DOMAIN names = {} /\ DOMAIN seenNames = {} /\ Len(names) = 0 /\ names \in Seq(Name)
  BY DEF Init
<1> QED BY <1>2, <1>3 DEF Init, NamesInv, GivenOnce, IsInjective

\* One more name, different from the others.
LEMMA OneMore ==
    ASSUME NEW s \in Seq(Name), NEW x \in Name,
           IsInjective(s), \A k \in 1..Len(s) : s[k] # x
    PROVE  /\ Append(s, x) \in Seq(Name) /\ IsInjective(Append(s, x))
           /\ Len(Append(s, x)) = Len(s) + 1
           /\ \A k \in 1..Len(s) : Append(s, x)[k] = s[k]
           /\ Append(s, x)[Len(s) + 1] = x
<1>1. /\ Append(s, x) \in Seq(Name) /\ Len(Append(s, x)) = Len(s) + 1 /\ Len(s) \in Nat
      /\ \A k \in 1..Len(s) : Append(s, x)[k] = s[k]
      /\ Append(s, x)[Len(s) + 1] = x
  BY AppendProperties, LenProperties
<1>2. DOMAIN s = 1..Len(s) /\ DOMAIN Append(s, x) = 1..(Len(s) + 1)
  BY <1>1, LenProperties
<1> HIDE DEF Name
<1>3. IsInjective(Append(s, x))
  BY <1>1, <1>2 DEF IsInjective
<1> QED BY <1>1, <1>3

LEMMA SameBeforeNumber ==
    ASSUME NEW s \in Name, NEW t \in Name, NEW e, Append(s, e) = Append(t, e)
    PROVE  s = t
<1> DEFINE Part == STRING \cup Nat \cup {e}
<1>0. s \in Seq(Part) /\ t \in Seq(Part) /\ e \in Part
  BY DEF Name
<1> HIDE DEF Part
<1>1. /\ Len(Append(s, e)) = Len(s) + 1 /\ Len(Append(t, e)) = Len(t) + 1
      /\ Len(s) \in Nat /\ Len(t) \in Nat
      /\ \A i \in 1..Len(s) : Append(s, e)[i] = s[i]
      /\ \A i \in 1..Len(t) : Append(t, e)[i] = t[i]
  BY <1>0, AppendProperties, LenProperties
<1>2. Len(s) = Len(t) /\ \A i \in 1..Len(s) : s[i] = t[i]
  BY <1>1
<1> QED BY <1>0, <1>2, SeqEqual

LEMMA NextNames ==
    ASSUME InputNames \subseteq Name, NamesInv, [Next]_vars
    PROVE  NamesInv'
<1>0. services \in Seq(Entry) /\ idx \in Nat \ {0}
  BY DEF NamesInv
<1>1. CASE UNCHANGED vars
  BY <1>1 DEF vars, NamesInv, Unambiguous, Usable, GivenOnce, Given, Passed
<1>2. ASSUME Next PROVE NamesInv'
  <2>1. services' = services /\ idx' = idx + 1 /\ idx <= Len(services) /\ Usable' = Usable
    BY <1>2 DEF Next, Skip, Accept, Usable
  <2>2. Unambiguous' = Unambiguous
    BY <2>1 DEF Unambiguous
  <2>3. Passed \subseteq Passed'
    BY <1>0, <2>1 DEF Passed, Usable
  <2>4. \A n : Given(Passed, n) => Given(Passed', n)
    BY <2>3 DEF Given
  <2> SUFFICES ASSUME Unambiguous PROVE GivenOnce'
    BY <1>0, <2>1, <2>2 DEF NamesInv
  <2>5. GivenOnce
    BY DEF NamesInv
  <2>6. CASE Skip
    <3>1. names' = names /\ seenNames' = seenNames
      BY <2>6 DEF Skip
    <3>2. \A k \in 1..Len(names) : Given(Passed', names[k])
      BY <2>4, <2>5 DEF GivenOnce
    <3>3. \A k \in 1..Len(names') : Given(Passed, names[k])'
      BY <2>1, <3>1, <3>2 DEF Given
    <3> QED BY <2>5, <3>1, <3>3 DEF GivenOnce, IsInjective
  <2>7. CASE Accept
    <3> DEFINE own == services[idx].name
               name == NameFor(own)
    <3>0. /\ idx \in Usable /\ idx \in Passed' /\ idx \notin Passed
          /\ names' = Append(names, name)
          /\ seenNames' = [n \in DOMAIN seenNames \cup {name} |->
                             IF n = name THEN Count(n) + 1 ELSE seenNames[n]]
      BY <1>0, <2>1, <2>7 DEF Accept, Usable, Passed
    <3>1. own \in Name /\ Append(own, 2) \in Name
      <4>1. services[idx] \in Entry
        BY <1>0, <2>1
      <4>2. own \in Name
        BY <4>1 DEF Entry
      <4> QED BY <4>2 DEF Name
    <3>2. /\ name \in Name /\ Given(Passed', name)
          /\ name \notin DOMAIN seenNames
      <4>1. CASE own \notin DOMAIN seenNames
        <5>1. name = own
          BY <4>1 DEF NameFor, Count
        <5>2. Given(Passed', own)
          BY <3>0 DEF Given
        <5> QED BY <3>1, <4>1, <5>1, <5>2
      <4>2. CASE own \in DOMAIN seenNames
        <5>1. name = Renamed(own, 1)
          BY <2>5, <4>2 DEF NameFor, Count, GivenOnce
        <5>2. PICK i \in Passed : own = services[i].name
          <6>1. Given(Passed, own)
            BY <2>5, <4>2 DEF GivenOnce
          <6>2. ~\E i, j \in Passed : own = Renamed(services[i].name, 1)
            BY <3>0 DEF Unambiguous, Passed
          <6> QED BY <6>1, <6>2 DEF Given
        <5>3. i < idx /\ i \in Usable
          BY <5>2 DEF Passed
        <5>4. Given(Passed', name)
          BY <2>3, <3>0, <5>1, <5>2, <5>3 DEF Given
        <5>5. ~Given(Passed, name)
          <6>1. ~\E j \in Passed : name = services[j].name
            BY <3>0, <5>1 DEF Unambiguous, Passed
          <6>2. ASSUME NEW j \in Passed, NEW k \in Passed, j < k,
                       services[j].name = services[k].name, name = Renamed(services[j].name, 1)
                PROVE  FALSE
            <7>0. services[j] \in Entry
              BY <1>0, <6>2 DEF Passed, Usable
            <7>1. services[j].name \in Name
              BY <7>0 DEF Entry
            <7>2. services[j].name = own
              BY <3>1, <5>1, <6>2, <7>1, SameBeforeNumber DEF Renamed
            <7> QED BY <3>0, <6>2, <7>2 DEF Unambiguous, Passed
          <6> QED BY <6>1, <6>2 DEF Given
        <5>6. name \notin DOMAIN seenNames
          BY <2>5, <5>5 DEF GivenOnce
        <5> QED BY <3>1, <5>1, <5>4, <5>6 DEF Renamed
      <4> QED BY <4>1, <4>2
    <3> HIDE DEF name, own
    <3>3. \A k \in 1..Len(names) : names[k] # name
      BY <2>5, <3>2 DEF GivenOnce
    <3>4. /\ names' \in Seq(Name) /\ IsInjective(names')
          /\ Len(names') = Len(names) + 1 /\ Len(names) \in Nat
          /\ \A k \in 1..Len(names) : names'[k] = names[k]
          /\ names'[Len(names) + 1] = name
      BY <2>5, <3>0, <3>2, <3>3, OneMore, LenProperties DEF GivenOnce
    <3>5. \A k \in 1..Len(names') : Given(Passed', names'[k])
      <4>1. \A k \in 1..Len(names) : Given(Passed', names'[k])
        BY <2>4, <2>5, <3>4 DEF GivenOnce
      <4> QED BY <3>2, <3>4, <4>1
    <3>8. \A k \in 1..Len(names') : Given(Passed, names[k])'
      BY <2>1, <3>5 DEF Given
    <3>6. {names'[k] : k \in 1..Len(names')} = {names[k] : k \in 1..Len(names)} \cup {name}
      BY <3>4
    <3>7. \A n \in DOMAIN seenNames' : seenNames'[n] = 1
      BY <2>5, <3>0, <3>2 DEF GivenOnce, Count
    <3>9. DOMAIN seenNames' = {names'[k] : k \in 1..Len(names')}
      BY <2>5, <3>0, <3>6 DEF GivenOnce
    <3>10. IsInjective(names)'
      BY <3>4 DEF IsInjective
    <3> QED BY <3>4, <3>7, <3>8, <3>9, <3>10 DEF GivenOnce
  <2> QED BY <1>2, <2>6, <2>7 DEF Next
<1> QED BY <1>1, <1>2

\* Services that are named unlike each other, or alike in pairs, get different
\* names, in any order and however many are left out; what the code gets wrong
\* takes a name used three times or one that looks numbered already
\* (config.go:497-506).
THEOREM NamesUniqueIfUnambiguous ==
    InputNames \subseteq Name /\ MaxServices \in Nat => (Spec => [](Unambiguous => NamesUnique))
<1> SUFFICES ASSUME InputNames \subseteq Name, MaxServices \in Nat
             PROVE  Spec => [](Unambiguous => NamesUnique)
  OBVIOUS
<1>1. Init => NamesInv
  BY InitNames
<1>2. NamesInv /\ [Next]_vars => NamesInv'
  BY NextNames
<1>3. NamesInv => (Unambiguous => NamesUnique)
  BY DEF NamesInv, GivenOnce, NamesUnique
<1> QED BY <1>1, <1>2, <1>3, PTL DEF Spec

=============================================================================
