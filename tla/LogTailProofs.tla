---------------------------- MODULE LogTailProofs ----------------------------
(***************************************************************************)
(* Log lines are forwarded once and in order, and none is skipped without  *)
(* a reason, for any files, limits, and number of lines.                   *)
(***************************************************************************)
EXTENDS LogTail, SequenceTheorems, TLAPS

Parts ==
    /\ sent \in Seq(Entry) /\ logs \in Seq(Entry) /\ allEntries \in Seq(Entry)
    /\ todo \in Seq(Paths)

Ordered(s) ==
    \A i, j \in 1..Len(s) : i < j /\ s[i].path = s[j].path => s[i].line < s[j].line

Before(s, t) == \A x \in ToSet(s), y \in ToSet(t) : x.path = y.path => x.line < y.line

InOrder ==
    /\ Ordered(sent) /\ Ordered(logs) /\ Ordered(allEntries)
    /\ Before(sent, logs) /\ Before(sent, allEntries) /\ Before(logs, allEntries)

Forwarded == ToSet(sent) \cup ToSet(logs) \cup ToSet(allEntries)

\* No line of f after the nth has been forwarded.
UpTo(f, n) == \A x \in Forwarded : x.path = f => x.line <= n

\* Reading f from pos repeats nothing: either it does not go back behind what
\* was forwarded, or that was all truncated away.  A pos beyond the end of the
\* file is always of the second kind.
Behind(f, pos) == UpTo(f, base[f]) \/ (pos <= Size(f) /\ UpTo(f, base[f] + pos))

Positions ==
    /\ \A f \in Paths : UpTo(f, written[f])
    /\ \A f \in Paths : offsets[f] # 0 => Behind(f, offsets[f])
    /\ from # -1 => todo # <<>> /\ Behind(Head(todo), from)

\* As long as nothing is excused, files only grow, and reading goes on where
\* it ended.
Complete ==
    ~excused =>
        /\ \A f \in Paths : offsets[f] <= Size(f)
        /\ from # -1 => from = offsets[Head(todo)]
        /\ \A f \in Paths : \A n \in (start[f] + 1)..(base[f] + offsets[f]) :
              [path |-> f, line |-> n] \in Forwarded

TailInv == TypeOK /\ Parts /\ InOrder /\ Positions /\ Complete

-----------------------------------------------------------------------------
(* Sequences of entries. *)

LEMMA NoEntries == <<>> \in Seq(Entry) /\ ToSet(<<>>) = {} /\ Ordered(<<>>)
BY DEF ToSet, Ordered

LEMMA Joined ==
    ASSUME NEW s \in Seq(Entry), NEW t \in Seq(Entry)
    PROVE  /\ s \o t \in Seq(Entry)
           /\ ToSet(s \o t) = ToSet(s) \cup ToSet(t)
           /\ Ordered(s \o t) <=> Ordered(s) /\ Ordered(t) /\ Before(s, t)
<1> DEFINE st == s \o t
<1>1. /\ st \in Seq(Entry) /\ Len(st) = Len(s) + Len(t)
      /\ \A i \in 1..Len(s) : st[i] = s[i]
      /\ \A i \in 1..Len(t) : st[Len(s) + i] = t[i]
      /\ \A i \in (Len(s) + 1)..Len(st) : i - Len(s) \in 1..Len(t) /\ st[i] = t[i - Len(s)]
  BY ConcatProperties
<1>2. Len(s) \in Nat /\ Len(t) \in Nat
  OBVIOUS
<1>3. ToSet(st) = ToSet(s) \cup ToSet(t)
  <2>1. \A i \in 1..Len(st) : i \in 1..Len(s) \/ i \in (Len(s) + 1)..Len(st)
    BY <1>1, <1>2
  <2>2. \A i \in 1..Len(s) : i \in 1..Len(st)
    BY <1>1, <1>2
  <2>3. \A i \in 1..Len(t) : Len(s) + i \in 1..Len(st)
    BY <1>1, <1>2
  <2>4. DOMAIN s = 1..Len(s) /\ DOMAIN t = 1..Len(t) /\ DOMAIN st = 1..Len(st)
    BY <1>1
  <2>5. ToSet(st) \subseteq ToSet(s) \cup ToSet(t)
    <3> SUFFICES ASSUME NEW i \in 1..Len(st) PROVE st[i] \in ToSet(s) \cup ToSet(t)
      BY <2>4 DEF ToSet
    <3> QED BY <1>1, <2>1, <2>4 DEF ToSet
  <2>6. ToSet(s) \cup ToSet(t) \subseteq ToSet(st)
    <3>1. \A i \in 1..Len(s) : s[i] \in ToSet(st)
      BY <1>1, <2>2, <2>4 DEF ToSet
    <3>2. \A i \in 1..Len(t) : t[i] \in ToSet(st)
      BY <1>1, <2>3, <2>4 DEF ToSet
    <3> QED BY <2>4, <3>1, <3>2 DEF ToSet
  <2> QED BY <2>5, <2>6
<1>4. ASSUME Ordered(st) PROVE Ordered(s) /\ Ordered(t) /\ Before(s, t)
  <2>1. Ordered(s)
    BY <1>1, <1>2, <1>4 DEF Ordered
  <2>2. Ordered(t)
    <3> SUFFICES ASSUME NEW i \in 1..Len(t), NEW j \in 1..Len(t), i < j, t[i].path = t[j].path
                 PROVE  t[i].line < t[j].line
      BY DEF Ordered
    <3>1. /\ Len(s) + i \in 1..Len(st) /\ Len(s) + j \in 1..Len(st) /\ Len(s) + i < Len(s) + j
          /\ st[Len(s) + i] = t[i] /\ st[Len(s) + j] = t[j]
      BY <1>1, <1>2
    <3> QED BY <1>4, <3>1 DEF Ordered
  <2>3. ASSUME NEW i \in 1..Len(s), NEW j \in 1..Len(t), s[i].path = t[j].path
        PROVE  s[i].line < t[j].line
    <3>1. /\ i \in 1..Len(st) /\ Len(s) + j \in 1..Len(st) /\ i < Len(s) + j
          /\ st[i] = s[i] /\ st[Len(s) + j] = t[j]
      BY <1>1, <1>2
    <3> QED BY <1>4, <2>3, <3>1 DEF Ordered
  <2>4. DOMAIN s = 1..Len(s) /\ DOMAIN t = 1..Len(t)
    OBVIOUS
  <2> QED BY <2>1, <2>2, <2>3, <2>4 DEF Before, ToSet
<1>5. ASSUME Ordered(s), Ordered(t), Before(s, t) PROVE Ordered(st)
  <2> SUFFICES ASSUME NEW i \in 1..Len(st), NEW j \in 1..Len(st), i < j, st[i].path = st[j].path
               PROVE  st[i].line < st[j].line
    BY DEF Ordered
  <2>1. CASE i \in 1..Len(s) /\ j \in 1..Len(s)
    BY <1>1, <1>5, <2>1 DEF Ordered
  <2>2. CASE i \in 1..Len(s) /\ j \in (Len(s) + 1)..Len(st)
    <3>1. st[i] \in ToSet(s) /\ st[j] \in ToSet(t)
      BY <1>1, <2>2 DEF ToSet
    <3> QED BY <1>5, <3>1 DEF Before
  <2>3. CASE i \in (Len(s) + 1)..Len(st) /\ j \in (Len(s) + 1)..Len(st)
    <3>1. /\ i - Len(s) \in 1..Len(t) /\ j - Len(s) \in 1..Len(t) /\ i - Len(s) < j - Len(s)
          /\ st[i] = t[i - Len(s)] /\ st[j] = t[j - Len(s)]
      BY <1>1, <1>2, <2>3
    <3> QED BY <1>5, <3>1 DEF Ordered
  <2> QED BY <1>1, <1>2, <2>1, <2>2, <2>3
<1> QED BY <1>1, <1>3, <1>4, <1>5

\* A limit drops elements from the front (logs.go:62-64, agent.go:602-605).
LEMMA LastOfFacts ==
    ASSUME NEW s \in Seq(Entry), NEW n \in Nat \ {0}
    PROVE  /\ LastOf(s, n) \in Seq(Entry)
           /\ Len(LastOf(s, n)) <= n
           /\ ToSet(LastOf(s, n)) \subseteq ToSet(s)
           /\ Ordered(s) => Ordered(LastOf(s, n))
           /\ Len(s) <= n => LastOf(s, n) = s
<1>1. CASE Len(s) <= n
  BY <1>1 DEF LastOf
<1>2. CASE Len(s) > n
  <2> DEFINE k == Len(s) - n
             r == SubSeq(s, k + 1, Len(s))
  <2>1. k \in Nat /\ k + 1 \in 1..Len(s) /\ Len(s) \in Nat
    BY <1>2
  <2>2. /\ r \in Seq(Entry) /\ Len(r) = n
        /\ \A i \in 1..n : r[i] = s[k + i] /\ k + i \in 1..Len(s)
    <3> HIDE DEF k
    <3>1. r \in Seq(Entry) /\ Len(r) = Len(s) - k /\ \A i \in 1..(Len(s) - k) : r[i] = s[k + i]
      BY <2>1, SubSeqProperties
    <3> QED BY <2>1, <3>1 DEF k
  <2>3. LastOf(s, n) = r
    BY <1>2 DEF LastOf
  <2>4. ToSet(r) \subseteq ToSet(s)
    BY <2>2 DEF ToSet
  <2>5. Ordered(s) => Ordered(r)
    <3> SUFFICES ASSUME Ordered(s), NEW i \in 1..n, NEW j \in 1..n, i < j, r[i].path = r[j].path
                 PROVE  r[i].line < r[j].line
      BY <2>2 DEF Ordered
    <3>1. k + i \in 1..Len(s) /\ k + j \in 1..Len(s) /\ k + i < k + j
      BY <2>1, <2>2
    <3> QED BY <2>2, <3>1 DEF Ordered
  <2> QED BY <1>2, <2>2, <2>3, <2>4, <2>5
<1> QED BY <1>1, <1>2

\* The lines a scan returns are the next ones (logs.go:91-105).
LEMMA LinesFacts ==
    ASSUME base \in [Paths -> Nat], NEW f \in Paths, NEW pos \in Nat, NEW n \in Nat
    PROVE  /\ Lines(f, pos, n) \in Seq(Entry)
           /\ ToSet(Lines(f, pos, n)) =
                {[path |-> f, line |-> base[f] + pos + i] : i \in 1..n}
           /\ Ordered(Lines(f, pos, n))
<1> DEFINE s == Lines(f, pos, n)
<1>1. s \in Seq(Entry) /\ Len(s) = n /\ DOMAIN s = 1..n
  BY DEF Lines, Entry
<1>2. \A i \in 1..n : s[i] = [path |-> f, line |-> base[f] + pos + i]
  BY DEF Lines
<1>3. Ordered(s)
  BY <1>1, <1>2 DEF Ordered
<1> QED BY <1>1, <1>2, <1>3 DEF ToSet

\* What is left of the list of paths is a part of its end (logs.go:39-60).
LEMMA SuffixFacts ==
    ASSUME NEW S, NEW t \in Seq(S)
    PROVE  /\ IsSuffix(t, t) /\ IsSuffix(<<>>, t)
           /\ \A s \in Seq(S) : s # <<>> /\ IsSuffix(s, t) => IsSuffix(Tail(s), t)
<1>1. \A s \in Seq(S) :
        /\ Reverse(s) \in Seq(S) /\ Len(Reverse(s)) = Len(s)
        /\ \A i \in 1..Len(s) : Reverse(s)[i] = s[Len(s) - i + 1]
  BY DEF Reverse
<1>2. ASSUME NEW s \in Seq(S), NEW u \in Seq(S)
      PROVE  IsPrefix(s, u) <=> Len(s) <= Len(u) /\ \A i \in 1..Len(s) : s[i] = u[i]
  <2>1. CASE Len(s) <= Len(u)
    <3> DEFINE a == SubSeq(s, 1, Len(s))
               b == SubSeq(u, 1, Len(s))
    <3>1. /\ a = [i \in 1..Len(s) |-> s[i]] /\ b = [i \in 1..Len(s) |-> u[i]]
      BY <2>1, SubSeqProperties
    <3> HIDE DEF a, b
    <3>2. a = b <=> \A i \in 1..Len(s) : s[i] = u[i]
      BY <3>1
    <3> QED BY <2>1, <3>2 DEF IsPrefix, a, b
  <2> QED BY <2>1 DEF IsPrefix
<1> DEFINE Ends(s) ==
      Len(s) <= Len(t) /\ \A i \in 1..Len(s) : s[Len(s) - i + 1] = t[Len(t) - i + 1]
<1>3. \A s \in Seq(S) : IsSuffix(s, t) <=> Ends(s)
  BY <1>1, <1>2 DEF IsSuffix
<1>4. IsSuffix(t, t) /\ IsSuffix(<<>>, t)
  <2>1. <<>> \in Seq(S) /\ Ends(<<>>) /\ Ends(t)
    OBVIOUS
  <2> HIDE DEF Ends
  <2> QED BY <1>3, <2>1
<1>5. ASSUME NEW s \in Seq(S), s # <<>>, IsSuffix(s, t)
      PROVE  IsSuffix(Tail(s), t)
  <2>1. Tail(s) \in Seq(S) /\ Len(Tail(s)) = Len(s) - 1
        /\ \A i \in 1..(Len(s) - 1) : Tail(s)[i] = s[i + 1]
    BY <1>5, HeadTailProperties
  <2>2. Len(s) \in Nat \ {0} /\ Len(t) \in Nat /\ Ends(s)
    BY <1>3, <1>5
  <2>3. ASSUME NEW i \in 1..(Len(s) - 1)
        PROVE  Tail(s)[Len(Tail(s)) - i + 1] = t[Len(t) - i + 1]
    <3>1. Len(s) - i \in 1..(Len(s) - 1) /\ i \in 1..Len(s)
          /\ Len(Tail(s)) - i + 1 = Len(s) - i
      BY <2>1, <2>2
    <3> QED BY <2>1, <2>2, <3>1
  <2>4. Ends(Tail(s))
    BY <2>1, <2>2, <2>3
  <2> HIDE DEF Ends
  <2> QED BY <1>3, <2>1, <2>4
<1> QED BY <1>4, <1>5

\* The three parts of the stream, one after the other.
LEMMA Streamed ==
    ASSUME NEW s \in Seq(Entry), NEW l \in Seq(Entry), NEW a \in Seq(Entry)
    PROVE  /\ s \o l \o a \in Seq(Entry)
           /\ ToSet(s \o l \o a) = ToSet(s) \cup ToSet(l) \cup ToSet(a)
           /\ Ordered(s \o l \o a) <=>
                /\ Ordered(s) /\ Ordered(l) /\ Ordered(a)
                /\ Before(s, l) /\ Before(s, a) /\ Before(l, a)
<1>1. s \o l \in Seq(Entry)
  BY Joined
<1>2. Before(s \o l, a) <=> Before(s, a) /\ Before(l, a)
  BY Joined DEF Before
<1> QED BY <1>1, <1>2, Joined

-----------------------------------------------------------------------------
(* Every step keeps the invariant. *)

LEMMA FilesListed == LogFiles \in Seq(Paths)
<1>1. \A i \in 1..Len(LogFiles) : LogFiles[i] \in Paths
  BY LogFilesAssumption DEF Paths, ToSet
<1> QED BY <1>1, LogFilesAssumption

\* Parts and order make up what the properties say of the stream.
LEMMA StreamFacts ==
    ASSUME Parts
    PROVE  /\ Stream \in Seq(Entry) /\ ToSet(Stream) = Forwarded
           /\ InOrder <=> ForwardedOnceInOrder
<1>1. ForwardedOnceInOrder <=> Ordered(Stream)
  BY DEF ForwardedOnceInOrder, Ordered
<1>2. Stream = sent \o logs \o allEntries
  BY DEF Stream
<1> QED BY <1>1, <1>2, Streamed DEF Parts, Forwarded, InOrder

LEMMA Numbers ==
    ASSUME TypeOK
    PROVE  /\ \A f \in Paths :
                /\ base[f] \in Nat /\ written[f] \in Nat /\ base[f] <= written[f]
                /\ offsets[f] \in Nat /\ start[f] \in Nat
                /\ Size(f) \in Nat /\ base[f] + Size(f) = written[f]
           /\ from \in Nat \cup {-1}
<1>1. \A f \in Paths : base[f] \in Nat /\ written[f] \in Nat /\ base[f] <= written[f]
  BY DEF TypeOK
<1>2. \A f \in Paths : offsets[f] \in Nat /\ start[f] \in Nat
  BY DEF TypeOK
<1>3. from \in Nat \cup {-1}
  BY DEF TypeOK
<1> QED BY <1>1, <1>2, <1>3 DEF Size

LEMMA LinesNumbered ==
    ASSUME Parts
    PROVE  \A x \in Forwarded : x.path \in Paths /\ x.line \in Nat
<1>1. \A s \in Seq(Entry) : \A x \in ToSet(s) : x \in Entry
  BY DEF ToSet
<1> QED BY <1>1 DEF Parts, Forwarded, Entry

\* A path that is visited is one of the files, and so are those after it.
LEMMA Visited ==
    ASSUME Parts, todo # <<>>
    PROVE  Head(todo) \in Paths /\ Tail(todo) \in Seq(Paths)
BY HeadTailProperties DEF Parts

LEMMA LeftToVisit ==
    ASSUME TypeOK, Parts, todo # <<>>
    PROVE  IsSuffix(Tail(todo), LogFiles)
BY FilesListed, SuffixFacts DEF TypeOK, Parts

LEMMA InitTail == Init => TailInv
<1> SUFFICES ASSUME Init PROVE TailInv
  OBVIOUS
<1>1. Parts
  BY NoEntries DEF Init, Parts
<1>2. Forwarded = {}
  BY NoEntries DEF Init, Forwarded
<1>3. InOrder
  BY NoEntries DEF Init, InOrder, Before
<1>4. TypeOK
  <2>1. IsSuffix(todo, LogFiles)
    <3>1. IsSuffix(<<>>, LogFiles)
      BY FilesListed, SuffixFacts
    <3> QED BY <3>1 DEF Init
  <2>2. base \in [Paths -> Nat] /\ written \in [Paths -> Nat] /\ \A f \in Paths : base[f] <= written[f]
    BY DEF Init
  <2>3. Len(logs) <= CacheLimit
    BY LimitsAssumption DEF Init
  <2> QED BY <1>1, <2>1, <2>2, <2>3, StreamFacts DEF Init, TypeOK
<1>5. Positions /\ Complete
  BY <1>2 DEF Init, Positions, Complete, UpTo, Size
<1> QED BY <1>1, <1>3, <1>4, <1>5 DEF TailInv

\* What does not touch the stream.
LEMMA SameStream ==
    ASSUME TailInv, UNCHANGED <<sent, logs, allEntries>>, todo' \in Seq(Paths)
    PROVE  Parts' /\ InOrder' /\ Forwarded' = Forwarded /\ Stream' = Stream /\ Stream \in Seq(Entry)
BY DEF TailInv, TypeOK, Parts, InOrder, Forwarded, Stream

LEMMA WriteTail ==
    ASSUME TailInv, NEW f \in Paths, Write(f)
    PROVE  TailInv'
<1>0. TypeOK /\ Parts
  BY DEF TailInv
<1>1. /\ UNCHANGED <<base, offsets, todo, from, warned, logs, dirty, excused, seen, start>>
      /\ UNCHANGED <<sent, logs, allEntries>>
      /\ written' = [written EXCEPT ![f] = @ + 1]
  BY DEF Write, collector, cache, history
<1>2. written' \in [Paths -> Nat] /\ \A g \in Paths : written[g] <= written'[g]
  BY <1>0, <1>1, Numbers DEF TypeOK
<1>3. Parts' /\ InOrder' /\ Forwarded' = Forwarded /\ Stream' = Stream /\ Stream \in Seq(Entry)
  BY <1>0, <1>1, SameStream DEF Parts
<1>4. TypeOK'
  <2>1. \A g \in Paths : base[g] <= written'[g]
    BY <1>0, <1>2, Numbers
  <2> QED BY <1>0, <1>1, <1>2, <1>3, <2>1 DEF TypeOK
<1>5. \A g \in Paths : Size(g) <= Size(g)' /\ Size(g)' \in Nat
  BY <1>0, <1>1, <1>2, Numbers DEF Size
<1>7. \A g \in Paths : UpTo(g, written[g])'
  BY <1>0, <1>2, <1>3, Numbers, LinesNumbered DEF TailInv, Positions, UpTo
<1>8. ASSUME NEW g \in Paths, NEW pos \in Nat, Behind(g, pos) PROVE Behind(g, pos)'
  BY <1>0, <1>1, <1>3, <1>5, <1>8, Numbers DEF Behind, UpTo
<1>9. Positions'
  BY <1>0, <1>1, <1>7, <1>8, Numbers, Visited DEF TailInv, Positions
<1>10. Complete'
  <2>1. ASSUME ~excused PROVE \A g \in Paths : offsets'[g] <= Size(g)'
    BY <1>0, <1>1, <1>5, <2>1, Numbers DEF TailInv, Complete
  <2> QED BY <1>1, <1>3, <2>1 DEF TailInv, Complete
<1> QED BY <1>3, <1>4, <1>9, <1>10 DEF TailInv

LEMMA TruncateTail ==
    ASSUME TailInv, NEW f \in Paths, Truncate(f)
    PROVE  TailInv'
<1>0. TypeOK /\ Parts
  BY DEF TailInv
<1>1. /\ UNCHANGED <<written, offsets, todo, from, warned, logs, dirty, seen, start>>
      /\ UNCHANGED <<sent, logs, allEntries>>
      /\ base' = [base EXCEPT ![f] = written[f]]
      /\ excused' = TRUE
  BY DEF Truncate, collector, cache
<1>2. base' \in [Paths -> Nat] /\ \A g \in Paths : base'[g] <= written[g]
  BY <1>0, <1>1, Numbers DEF TypeOK
<1>3. Parts' /\ InOrder' /\ Forwarded' = Forwarded /\ Stream' = Stream /\ Stream \in Seq(Entry)
  BY <1>0, <1>1, SameStream DEF Parts
<1>4. TypeOK'
  BY <1>0, <1>1, <1>2, <1>3 DEF TypeOK
<1>5. \A g \in Paths : UpTo(g, written[g])'
  BY <1>1, <1>3 DEF TailInv, Positions, UpTo
<1>6. ASSUME NEW g \in Paths, NEW pos \in Nat, Behind(g, pos) PROVE Behind(g, pos)'
  <2>1. CASE g = f
    BY <1>0, <1>1, <1>5, <2>1 DEF Behind, UpTo, TypeOK
  <2>2. CASE g # f
    BY <1>0, <1>1, <1>3, <1>6, <2>2 DEF Behind, UpTo, Size, TypeOK
  <2> QED BY <2>1, <2>2
<1>7. Positions'
  BY <1>0, <1>1, <1>5, <1>6, Numbers, Visited DEF TailInv, Positions
<1>8. Complete'
  BY <1>1 DEF Complete
<1> QED BY <1>3, <1>4, <1>7, <1>8 DEF TailInv

\* Positions stay good as long as the files stay and nothing is forwarded.
LEMMA StillBehind ==
    ASSUME Forwarded' \subseteq Forwarded, UNCHANGED files, NEW f, NEW pos
    PROVE  /\ UpTo(f, pos) => UpTo(f, pos)'
           /\ Behind(f, pos) => Behind(f, pos)'
<1>1. base' = base /\ Size(f)' = Size(f)
  BY DEF files, Size
<1>2. \A n : UpTo(f, n) => \A x \in Forwarded' : x.path = f => x.line <= n
  BY DEF UpTo
<1> QED BY <1>1, <1>2 DEF Behind, UpTo

LEMMA CollectTail ==
    ASSUME TailInv, Collect
    PROVE  TailInv'
<1>0. TypeOK /\ Parts /\ from = -1
  BY DEF TailInv, Positions, Collect
<1>1. /\ UNCHANGED <<base, written, offsets, from, warned, dirty, excused, seen, start>>
      /\ UNCHANGED <<sent, logs, allEntries>>
      /\ UNCHANGED files
      /\ todo' = LogFiles
  BY DEF Collect, files, cache, history
<1>2. Parts' /\ InOrder' /\ Forwarded' = Forwarded /\ Stream' = Stream /\ Stream \in Seq(Entry)
  BY <1>1, FilesListed, SameStream
<1>3. IsSuffix(todo, LogFiles)'
  BY <1>1, FilesListed, SuffixFacts
<1>4. TypeOK'
  BY <1>0, <1>1, <1>2, <1>3 DEF TypeOK
<1>5. Positions'
  BY <1>0, <1>1, <1>2, StillBehind DEF TailInv, Positions
<1>6. Complete'
  BY <1>0, <1>1, <1>2 DEF TailInv, Complete, Size
<1> QED BY <1>2, <1>4, <1>5, <1>6 DEF TailInv

LEMMA OpenFailsTail ==
    ASSUME TailInv, OpenFails
    PROVE  TailInv'
<1>0. TypeOK /\ Parts /\ todo # <<>>
  BY DEF TailInv, OpenFails
<1>1. /\ UNCHANGED <<base, written, offsets, dirty, seen, start>>
      /\ UNCHANGED <<sent, logs, allEntries>>
      /\ UNCHANGED files
      /\ todo' = Tail(todo) /\ from' = -1 /\ warned' = TRUE /\ excused' = TRUE
  BY DEF OpenFails, files, cache
<1>2. Parts' /\ InOrder' /\ Forwarded' = Forwarded /\ Stream' = Stream /\ Stream \in Seq(Entry)
  BY <1>0, <1>1, Visited, SameStream
<1>3. IsSuffix(todo, LogFiles)'
  BY <1>0, <1>1, LeftToVisit
<1>4. TypeOK'
  BY <1>0, <1>1, <1>2, <1>3 DEF TypeOK
<1>5. Positions'
  BY <1>0, <1>1, <1>2, StillBehind DEF TailInv, Positions
<1>6. Complete'
  BY <1>1 DEF Complete
<1> QED BY <1>2, <1>4, <1>5, <1>6 DEF TailInv

\* Skipping to the end repeats nothing; a file shorter than its offset was
\* truncated, so that starting over repeats nothing either (logs.go:70-80).
LEMMA StatTail ==
    ASSUME TailInv, Stat
    PROVE  TailInv'
<1> DEFINE f == Head(todo)
<1>0. TypeOK /\ Parts /\ todo # <<>> /\ from = -1 /\ f \in Paths
  BY Visited DEF TailInv, Stat
<1>1. /\ UNCHANGED <<base, written, warned, logs, dirty, excused>>
      /\ UNCHANGED <<sent, logs, allEntries>>
      /\ UNCHANGED files
      /\ seen' = seen \cup {f}
  BY DEF Stat, files, cache
<1>2. CASE /\ offsets[f] = 0
           /\ offsets' = [offsets EXCEPT ![f] = Size(f)]
           /\ start' = [start EXCEPT ![f] = written[f]]
           /\ todo' = Tail(todo)
           /\ UNCHANGED from
  <2>1. Parts' /\ InOrder' /\ Forwarded' = Forwarded /\ Stream' = Stream /\ Stream \in Seq(Entry)
    BY <1>0, <1>1, <1>2, Visited, SameStream
  <2>2. IsSuffix(todo, LogFiles)'
    BY <1>0, <1>2, LeftToVisit
  <2>3. offsets' \in [Paths -> Nat] /\ start' \in [Paths -> Nat]
    BY <1>0, <1>2, Numbers DEF TypeOK
  <2>4. TypeOK'
    BY <1>0, <1>1, <1>2, <2>1, <2>2, <2>3 DEF TypeOK
  <2>5. \A g \in Paths : offsets'[g] = IF g = f THEN Size(f) ELSE offsets[g]
    BY <1>0, <1>2 DEF TypeOK
  <2>6. Behind(f, Size(f))
    BY <1>0, Numbers DEF TailInv, Positions, Behind
  <2>7. Positions'
    BY <1>0, <1>1, <1>2, <2>1, <2>5, <2>6, StillBehind DEF TailInv, Positions
  <2>8. Complete'
    <3> SUFFICES ASSUME ~excused
                 PROVE  /\ \A g \in Paths : offsets'[g] <= Size(g)'
                        /\ \A g \in Paths : \A n \in (start'[g] + 1)..(base'[g] + offsets'[g]) :
                              [path |-> g, line |-> n] \in Forwarded'
      BY <1>0, <1>1, <1>2 DEF Complete
    <3>1. /\ \A g \in Paths : offsets[g] <= Size(g)
          /\ \A g \in Paths : \A n \in (start[g] + 1)..(base[g] + offsets[g]) :
                [path |-> g, line |-> n] \in Forwarded
      BY DEF TailInv, Complete
    <3>2. \A g \in Paths : Size(g)' = Size(g) /\ Size(g) \in Nat
      BY <1>0, <1>1, Numbers DEF Size
    <3>3. start'[f] = base'[f] + offsets'[f] /\ start'[f] \in Nat
      BY <1>0, <1>1, <1>2, <2>3, <2>5, Numbers DEF TypeOK
    <3>4. \A g \in Paths \ {f} : start'[g] = start[g]
      BY <1>0, <1>2 DEF TypeOK
    <3>5. \A g \in Paths : offsets'[g] <= Size(g)'
      BY <2>5, <3>1, <3>2
    <3>6. ASSUME NEW g \in Paths, NEW n \in (start'[g] + 1)..(base'[g] + offsets'[g])
          PROVE  [path |-> g, line |-> n] \in Forwarded'
      <4>1. g # f
        BY <3>3, <3>6
      <4> QED BY <1>1, <2>1, <2>5, <3>1, <3>4, <3>6, <4>1
    <3> QED BY <3>5, <3>6
  <2> QED BY <2>1, <2>4, <2>7, <2>8 DEF TailInv
<1>3. CASE /\ offsets[f] # 0
           /\ from' = ResumeAt(f)
           /\ UNCHANGED <<offsets, start, todo>>
  <2>1. Parts' /\ InOrder' /\ Forwarded' = Forwarded /\ Stream' = Stream /\ Stream \in Seq(Entry)
    BY <1>0, <1>1, <1>3, SameStream DEF Parts
  <2>2. from' \in Nat
    BY <1>0, <1>3, Numbers DEF ResumeAt
  <2>3. TypeOK'
    BY <1>0, <1>1, <1>3, <2>1, <2>2 DEF TypeOK
  <2>4. Behind(f, from')
    <3>1. Behind(f, offsets[f])
      BY <1>0, <1>3 DEF TailInv, Positions
    <3>2. CASE Size(f) < offsets[f]
      BY <1>0, <1>3, <3>1, <3>2, Numbers DEF Behind, ResumeAt
    <3>3. CASE ~(Size(f) < offsets[f])
      BY <1>3, <3>1, <3>3 DEF ResumeAt
    <3> QED BY <3>2, <3>3
  <2>6. Positions'
    <3>1. Behind(Head(todo), from)'
      BY <1>1, <1>3, <2>1, <2>4 DEF Behind, UpTo, Size
    <3> QED BY <1>0, <1>1, <1>3, <2>1, <3>1, StillBehind DEF TailInv, Positions
  <2>7. Complete'
    <3>1. ~excused => from' = offsets[f]
      BY <1>0, <1>3, Numbers DEF TailInv, Complete, ResumeAt
    <3> QED BY <1>1, <1>3, <2>1, <3>1 DEF TailInv, Complete, Size
  <2> QED BY <2>1, <2>3, <2>6, <2>7 DEF TailInv
<1> QED BY <1>2, <1>3 DEF Stat

\* What a scan returns is new, and it ends where it remembers, or before the
\* lines the scanner had read ahead (logs.go:82-108).
LEMMA ScanTail ==
    ASSUME TailInv, Scan, NEW f, f = Head(todo)
    PROVE  TailInv'
<1> DEFINE avail == IF Size(f) > from THEN Size(f) - from ELSE 0
           n     == IF avail > FileLimit THEN FileLimit ELSE avail
           new   == Lines(f, from, n)
<1>0. TypeOK /\ Parts /\ InOrder /\ from \in Nat /\ todo # <<>> /\ f \in Paths
  BY Visited, Numbers DEF TailInv, Positions, Scan
<1>1. /\ UNCHANGED <<base, written, logs, dirty, sent, seen, start>>
      /\ UNCHANGED files
      /\ todo' = Tail(todo) /\ from' = -1
  BY DEF Scan, files, cache
<1>2. /\ avail \in Nat /\ n \in Nat /\ n <= avail
      /\ avail > 0 => base[f] + from + avail = written[f]
      /\ avail <= FileLimit => n = avail
      /\ base[f] \in Nat /\ written[f] \in Nat /\ Size(f) \in Nat
      /\ avail > 0 => from + avail = Size(f)
      /\ avail = 0 => Size(f) <= from
  <2>1. FileLimit \in Nat
    BY LimitsAssumption
  <2>2. base[f] \in Nat /\ written[f] \in Nat /\ Size(f) \in Nat /\ base[f] + Size(f) = written[f]
    BY <1>0, Numbers
  <2>3. avail \in Nat /\ (avail > 0 => from + avail = Size(f)) /\ (avail = 0 => Size(f) <= from)
    BY <1>0, <2>2
  <2> QED BY <1>0, <2>1, <2>2, <2>3
<1>3. PICK ahead \in 0..(avail - n) : offsets' = [offsets EXCEPT ![f] = from + n + ahead]
  BY DEF Scan
<1>4. \/ /\ allEntries' = allEntries \o new
         /\ excused' = (excused \/ avail > FileLimit)
         /\ UNCHANGED warned
      \/ /\ UNCHANGED allEntries
         /\ excused' = TRUE /\ warned' = TRUE
  BY DEF Scan
<1> HIDE DEF avail, n
<1>5. /\ new \in Seq(Entry) /\ Ordered(new)
      /\ ToSet(new) = {[path |-> f, line |-> base[f] + from + i] : i \in 1..n}
  BY <1>0, <1>2, LinesFacts DEF TypeOK
<1> HIDE DEF new
<1>6. Behind(f, from)
  BY <1>0 DEF TailInv, Positions
<1>7. \A x \in Forwarded, y \in ToSet(new) : x.path = y.path => x.line < y.line
  <2> SUFFICES ASSUME NEW x \in Forwarded, NEW i \in 1..n, x.path = f
               PROVE  x.line < base[f] + from + i
    BY <1>5
  <2>1. x.line \in Nat /\ x.line <= base[f] + from
    BY <1>0, <1>2, <1>6, LinesNumbered DEF Behind, UpTo
  <2> QED BY <1>0, <1>2, <2>1
<1>8. allEntries' \in Seq(Entry) /\ InOrder'
  <2>1. CASE UNCHANGED allEntries
    BY <1>0, <1>1, <2>1 DEF Parts, InOrder
  <2>2. CASE allEntries' = allEntries \o new
    <3>1. /\ allEntries' \in Seq(Entry) /\ ToSet(allEntries') = ToSet(allEntries) \cup ToSet(new)
          /\ Ordered(allEntries') <=> Ordered(allEntries) /\ Ordered(new) /\ Before(allEntries, new)
      BY <1>0, <1>5, <2>2, Joined DEF Parts
    <3>2. Before(sent, new) /\ Before(logs, new) /\ Before(allEntries, new)
      BY <1>7 DEF Before, Forwarded
    <3>3. Before(sent, allEntries') /\ Before(logs, allEntries')
      BY <1>0, <3>1, <3>2 DEF InOrder, Before
    <3> QED BY <1>0, <1>1, <1>5, <3>1, <3>2, <3>3 DEF InOrder
  <2> QED BY <1>4, <2>1, <2>2
<1>9. \/ Forwarded' = Forwarded /\ excused'
      \/ /\ Forwarded' = Forwarded \cup ToSet(new)
         /\ ~excused' => ~excused /\ ~(avail > FileLimit)
  <2>1. CASE UNCHANGED allEntries /\ excused' = TRUE
    BY <1>1, <2>1 DEF Forwarded
  <2>2. CASE allEntries' = allEntries \o new /\ excused' = (excused \/ avail > FileLimit)
    <3>1. ToSet(allEntries') = ToSet(allEntries) \cup ToSet(new)
      BY <1>0, <1>5, <2>2, Joined DEF Parts
    <3> QED BY <1>1, <2>2, <3>1 DEF Forwarded
  <2> QED BY <1>4, <2>1, <2>2
<1>10. Parts'
  BY <1>0, <1>1, <1>8, Visited DEF Parts
<1>11. TypeOK'
  <2>1. (Stream \in Seq(Entry))'
    BY <1>10, Streamed DEF Parts, Stream
  <2>2. IsSuffix(todo, LogFiles)'
    BY <1>0, <1>1, LeftToVisit
  <2>3. offsets' \in [Paths -> Nat]
    BY <1>0, <1>2, <1>3 DEF TypeOK
  <2>4. warned' \in BOOLEAN /\ excused' \in BOOLEAN
    BY <1>0, <1>4 DEF TypeOK
  <2> QED BY <1>0, <1>1, <2>1, <2>2, <2>3, <2>4 DEF TypeOK
<1>12. \A x \in Forwarded' : \/ x \in Forwarded
                             \/ \E i \in 1..n : x = [path |-> f, line |-> base[f] + from + i]
  BY <1>5, <1>9
<1>13. \A g \in Paths : offsets'[g] = IF g = f THEN from + n + ahead ELSE offsets[g]
  BY <1>0, <1>3 DEF TypeOK
<1>14. \A g \in Paths : Size(g)' = Size(g)
  BY <1>1 DEF Size
<1>15. Positions'
  <2>1. ASSUME NEW g \in Paths PROVE UpTo(g, written[g])'
    <3> SUFFICES ASSUME NEW x \in Forwarded', x.path = g PROVE x.line <= written[g]
      BY <1>1 DEF UpTo
    <3>1. CASE x \in Forwarded
      BY <3>1 DEF TailInv, Positions, UpTo
    <3>2. CASE \E i \in 1..n : x = [path |-> f, line |-> base[f] + from + i]
      BY <1>0, <1>2, <3>2
    <3> QED BY <1>12, <3>1, <3>2
  <2>2. Behind(f, offsets[f])'
    <3>1. CASE avail = 0
      <4>1. n = 0 /\ ahead = 0 /\ offsets'[f] = from
        BY <1>0, <1>2, <1>13, <3>1
      <4>2. Forwarded' \subseteq Forwarded
        BY <1>12, <4>1
      <4> QED BY <1>1, <1>6, <1>14, <1>0, <4>1, <4>2 DEF Behind, UpTo
    <3>2. CASE avail # 0
      <4>1. offsets'[f] <= Size(f) /\ base[f] + from + n <= base[f] + offsets'[f]
        BY <1>0, <1>2, <1>13, <3>2
      <4>2. ASSUME NEW x \in Forwarded', x.path = f PROVE x.line <= base[f] + offsets'[f]
        <5>1. CASE x \in Forwarded
          <6>1. x.line \in Nat /\ x.line <= base[f] + from
            BY <1>0, <1>2, <1>6, <4>2, <5>1, LinesNumbered DEF Behind, UpTo
          <6> QED BY <1>0, <1>2, <1>13, <6>1
        <5>2. CASE \E i \in 1..n : x = [path |-> f, line |-> base[f] + from + i]
          BY <1>0, <1>2, <1>13, <5>2
        <5> QED BY <1>12, <5>1, <5>2
      <4> QED BY <1>0, <1>1, <1>14, <4>1, <4>2 DEF Behind, UpTo
    <3> QED BY <3>1, <3>2
  <2>3. ASSUME NEW g \in Paths \ {f}, offsets[g] # 0 PROVE Behind(g, offsets[g])'
    <3>1. Behind(g, offsets[g])
      BY <2>3 DEF TailInv, Positions
    <3>2. \A x \in Forwarded' : x.path = g => x \in Forwarded
      BY <1>12
    <3> QED BY <1>1, <1>13, <1>14, <3>1, <3>2 DEF Behind, UpTo
  <2> QED BY <1>1, <1>13, <2>1, <2>2, <2>3 DEF Positions
<1>16. Complete'
  <2> SUFFICES ASSUME ~excused'
               PROVE  /\ \A g \in Paths : offsets'[g] <= Size(g)
                      /\ \A g \in Paths : \A k \in (start[g] + 1)..(base[g] + offsets'[g]) :
                            [path |-> g, line |-> k] \in Forwarded'
    BY <1>1, <1>14 DEF Complete
  <2>1. ~excused /\ avail <= FileLimit /\ Forwarded' = Forwarded \cup ToSet(new)
    <3>1. FileLimit \in Nat
      BY LimitsAssumption
    <3> QED BY <1>2, <1>9, <3>1
  <2>2. /\ \A g \in Paths : offsets[g] <= Size(g)
        /\ from = offsets[f]
        /\ \A g \in Paths : \A k \in (start[g] + 1)..(base[g] + offsets[g]) :
              [path |-> g, line |-> k] \in Forwarded
    BY <1>0, <2>1 DEF TailInv, Complete
  <2>3. n = avail /\ ahead = 0 /\ offsets'[f] = Size(f) /\ from + avail = Size(f)
    BY <1>0, <1>2, <1>13, <2>1, <2>2
  <2>4. ASSUME NEW k \in (start[f] + 1)..(base[f] + offsets'[f])
        PROVE  [path |-> f, line |-> k] \in Forwarded'
    <3>1. start[f] \in Nat /\ k \in Nat
      BY <1>0, <1>2, <2>3, Numbers
    <3>2. CASE k <= base[f] + from
      BY <1>0, <1>2, <2>1, <2>2, <3>1, <3>2
    <3>3. CASE k > base[f] + from
      <4>1. base[f] + from \in Nat /\ k <= base[f] + from + n
        BY <1>0, <1>2, <2>3, <3>1
      <4>2. k - (base[f] + from) \in 1..n /\ k = base[f] + from + (k - (base[f] + from))
        BY <1>2, <3>1, <3>3, <4>1
      <4> QED BY <1>5, <2>1, <4>2
    <3> QED BY <1>0, <1>2, <3>1, <3>2, <3>3
  <2> QED BY <1>2, <1>13, <2>1, <2>2, <2>3, <2>4
<1> QED BY <1>8, <1>10, <1>11, <1>15, <1>16 DEF TailInv

\* The limits of a collection and of the cache drop the oldest entries, which
\* leaves the others in their order (logs.go:62-64, agent.go:596-606).
LEMMA SetLogsTail ==
    ASSUME TailInv, SetLogs
    PROVE  TailInv'
<1> DEFINE kept   == LastOf(allEntries, CollectLimit)
           joined == logs \o kept
<1>0. TypeOK /\ Parts /\ InOrder /\ todo = <<>> /\ from = -1
  BY DEF TailInv, Positions, SetLogs
<1>1. /\ UNCHANGED <<base, written, offsets, todo, from, sent, seen, start>>
      /\ UNCHANGED files
      /\ allEntries' = <<>> /\ warned' = FALSE /\ dirty' = TRUE
      /\ logs' = LastOf(joined, CacheLimit)
      /\ excused' = \/ excused
                    \/ Len(allEntries) > CollectLimit
                    \/ Len(logs) + Len(allEntries) > CacheLimit
  BY DEF SetLogs, Cached, files
<1>2. CollectLimit \in Nat \ {0} /\ CacheLimit \in Nat \ {0}
  BY LimitsAssumption
<1>3. /\ kept \in Seq(Entry) /\ ToSet(kept) \subseteq ToSet(allEntries)
      /\ Ordered(kept)
      /\ Len(allEntries) <= CollectLimit => kept = allEntries
  BY <1>0, <1>2, LastOfFacts DEF Parts, InOrder
<1> HIDE DEF kept
<1>4. Before(logs, kept)
  BY <1>0, <1>3 DEF InOrder, Before
<1>5. /\ joined \in Seq(Entry) /\ Ordered(joined)
      /\ ToSet(joined) = ToSet(logs) \cup ToSet(kept)
  BY <1>0, <1>3, <1>4, Joined DEF Parts, InOrder
<1>6. Len(joined) = Len(logs) + Len(kept)
  BY <1>0, <1>3, ConcatProperties DEF Parts
<1> HIDE DEF joined
<1>7. /\ logs' \in Seq(Entry) /\ Ordered(logs') /\ Len(logs') <= CacheLimit
      /\ ToSet(logs') \subseteq ToSet(logs) \cup ToSet(allEntries)
      /\ Len(joined) <= CacheLimit => logs' = joined
  BY <1>1, <1>2, <1>3, <1>5, LastOfFacts
<1>8. Parts'
  BY <1>0, <1>1, <1>7, NoEntries DEF Parts
<1>9. InOrder'
  <2>1. Before(sent, logs')
    BY <1>0, <1>7 DEF InOrder, Before
  <2> QED BY <1>0, <1>1, <1>7, <2>1, NoEntries DEF InOrder, Before
<1>10. TypeOK'
  <2>1. (Stream \in Seq(Entry))'
    BY <1>8, Streamed DEF Parts, Stream
  <2>2. excused' \in BOOLEAN
    BY <1>0, <1>1 DEF TypeOK
  <2> QED BY <1>0, <1>1, <1>7, <2>1, <2>2 DEF TypeOK
<1>11. Forwarded' \subseteq Forwarded
  BY <1>1, <1>7, NoEntries DEF Forwarded
<1>12. Positions'
  BY <1>0, <1>1, <1>11, StillBehind DEF TailInv, Positions
<1>13. Complete'
  <2> SUFFICES ASSUME ~excused' PROVE ~excused /\ Forwarded' = Forwarded
    BY <1>0, <1>1 DEF TailInv, Complete, Size
  <2>1. ~excused /\ ~(Len(allEntries) > CollectLimit) /\ ~(Len(logs) + Len(allEntries) > CacheLimit)
    BY <1>1
  <2>2. Len(allEntries) \in Nat /\ Len(logs) \in Nat
    BY <1>0 DEF Parts
  <2>3. kept = allEntries
    BY <1>2, <1>3, <2>1, <2>2
  <2>4. logs' = joined
    BY <1>2, <1>6, <1>7, <2>1, <2>2, <2>3
  <2> QED BY <1>1, <1>5, <2>1, <2>3, <2>4, NoEntries DEF Forwarded
<1> QED BY <1>8, <1>9, <1>10, <1>12, <1>13 DEF TailInv

LEMMA PopSnapshotTail ==
    ASSUME TailInv, PopSnapshot
    PROVE  TailInv'
<1>0. TypeOK /\ Parts /\ InOrder
  BY DEF TailInv
<1>1. /\ UNCHANGED <<base, written, offsets, todo, from, allEntries, warned, excused, seen, start>>
      /\ UNCHANGED files
      /\ sent' = sent \o logs /\ logs' = <<>> /\ dirty' = FALSE
  BY DEF PopSnapshot, files, collector
<1>2. /\ sent' \in Seq(Entry) /\ ToSet(sent') = ToSet(sent) \cup ToSet(logs)
      /\ Ordered(sent')
  BY <1>0, <1>1, Joined DEF Parts, InOrder
<1>3. Parts'
  BY <1>0, <1>1, <1>2, NoEntries DEF Parts
<1>4. InOrder'
  <2>1. Before(sent', allEntries)
    BY <1>0, <1>2 DEF InOrder, Before
  <2> QED BY <1>0, <1>1, <1>2, <2>1, NoEntries DEF InOrder, Before
<1>5. TypeOK'
  <2>1. (Stream \in Seq(Entry))'
    BY <1>3, Streamed DEF Parts, Stream
  <2>2. Len(logs') <= CacheLimit
    BY <1>1, LimitsAssumption
  <2> QED BY <1>0, <1>1, <2>1, <2>2 DEF TypeOK
<1>6. Forwarded' = Forwarded
  BY <1>1, <1>2, NoEntries DEF Forwarded
<1>7. Positions'
  BY <1>0, <1>1, <1>6, StillBehind DEF TailInv, Positions
<1>8. Complete'
  BY <1>1, <1>6 DEF TailInv, Complete, Size
<1> QED BY <1>3, <1>4, <1>5, <1>7, <1>8 DEF TailInv

LEMMA RestartTail ==
    ASSUME TailInv, Restart
    PROVE  TailInv'
<1>0. TypeOK /\ Parts /\ InOrder
  BY DEF TailInv
<1>1. /\ UNCHANGED <<base, written, sent, start>>
      /\ UNCHANGED files
      /\ offsets' = [f \in Paths |-> 0]
      /\ todo' = <<>> /\ from' = -1
      /\ allEntries' = <<>> /\ warned' = FALSE
      /\ logs' = <<>> /\ dirty' = FALSE
      /\ seen' = {} /\ excused' = TRUE
  BY DEF Restart, files
<1>2. Parts'
  BY <1>0, <1>1, NoEntries DEF Parts
<1>3. InOrder'
  BY <1>0, <1>1, NoEntries DEF InOrder, Before
<1>4. TypeOK'
  <2>1. (Stream \in Seq(Entry))'
    BY <1>2, Streamed DEF Parts, Stream
  <2>2. Len(logs') <= CacheLimit
    BY <1>1, LimitsAssumption
  <2>3. IsSuffix(<<>>, LogFiles)
    BY FilesListed, SuffixFacts
  <2>4. IsSuffix(todo, LogFiles)'
    BY <1>1, <2>3
  <2>5. offsets' \in [Paths -> Nat]
    BY <1>1
  <2> QED BY <1>0, <1>1, <2>1, <2>2, <2>4, <2>5 DEF TypeOK
<1>5. Forwarded' \subseteq Forwarded
  BY <1>1, NoEntries DEF Forwarded
<1>6. Positions'
  BY <1>1, <1>5, StillBehind DEF TailInv, Positions
<1>7. Complete'
  BY <1>1 DEF Complete
<1> QED BY <1>2, <1>3, <1>4, <1>6, <1>7 DEF TailInv

LEMMA NextTail == TailInv /\ [Next]_vars => TailInv'
<1> SUFFICES ASSUME TailInv, [Next]_vars PROVE TailInv'
  OBVIOUS
<1>1. CASE Scan
  BY <1>1, ScanTail
<1>2. CASE UNCHANGED vars
  <2>1. UNCHANGED <<base, written, offsets, todo, from, warned, dirty, excused, seen, start>>
        /\ UNCHANGED <<sent, logs, allEntries>>
    BY <1>2 DEF vars, files, collector, cache, history
  <2> QED
    BY <2>1 DEF TailInv, TypeOK, Parts, InOrder, Positions, Complete, UpTo, Behind, Size, Forwarded,
       Stream
<1> QED
  BY <1>1, <1>2, WriteTail, TruncateTail, CollectTail, StatTail, OpenFailsTail, SetLogsTail,
     PopSnapshotTail, RestartTail DEF Next

LEMMA TailInductive == Spec => []TailInv
BY InitTail, NextTail, PTL DEF Spec

\* The log collector and the cache keep their types, the cache its limit
\* (logs.go:20-108, agent.go:596-606).
THEOREM TailTypeCorrect == Spec => []TypeOK
<1>1. TailInv => TypeOK
  BY DEF TailInv
<1> QED BY <1>1, TailInductive, PTL

\* No line is forwarded twice or out of order, whatever is written and
\* truncated, and wherever the process ends and is started again
\* (logs.go:70-108, agent.go:596-632).
THEOREM LinesForwardedOnce == Spec => []ForwardedOnceInOrder
<1>1. TailInv => ForwardedOnceInOrder
  BY StreamFacts DEF TailInv
<1> QED BY <1>1, TailInductive, PTL

\* An offset tells the truth until a limit is met, a file truncated, a read
\* failed or the process ended (logs.go:82-108, agent.go:596-606).
THEOREM OffsetsTellTruth == Spec => []NoLineSkipped
<1>1. TailInv => NoLineSkipped
  BY StreamFacts DEF TailInv, Complete, NoLineSkipped
<1> QED BY <1>1, TailInductive, PTL

-----------------------------------------------------------------------------
(* What is skipped. *)

\* Where no file is ever truncated, an offset never runs ahead of its file, and
\* is zero for a file that was looked at only when the file was empty then.
OnlyGrown ==
    "truncate" \notin Faults =>
        /\ \A f \in Paths : base[f] = 0 /\ offsets[f] <= written[f]
        /\ \A f \in seen : offsets[f] = 0 => start[f] = 0
        /\ from # -1 => todo # <<>> /\ 0 < from /\ from <= written[Head(todo)]

LEMMA InitGrown == Init => OnlyGrown
BY DEF Init, OnlyGrown

LEMMA NextGrown == TailInv /\ OnlyGrown /\ [Next]_vars => OnlyGrown'
<1> SUFFICES ASSUME TailInv, OnlyGrown, [Next]_vars, "truncate" \notin Faults
             PROVE  /\ \A g \in Paths : base'[g] = 0 /\ offsets'[g] <= written'[g]
                    /\ \A g \in seen' : offsets'[g] = 0 => start'[g] = 0
                    /\ from' # -1 => todo' # <<>> /\ 0 < from' /\ from' <= written'[Head(todo')]
  BY DEF OnlyGrown
<1>0. /\ TypeOK /\ Parts
      /\ \A g \in Paths : base[g] = 0 /\ offsets[g] <= written[g]
      /\ \A g \in seen : offsets[g] = 0 => start[g] = 0
      /\ from # -1 => todo # <<>> /\ 0 < from /\ from <= written[Head(todo)]
      /\ from \in Nat \cup {-1}
      /\ \A g \in Paths : offsets[g] \in Nat /\ written[g] \in Nat /\ Size(g) = written[g]
  BY Numbers DEF TailInv, OnlyGrown, Size
<1>1. ASSUME NEW f \in Paths, Write(f)
      PROVE  /\ \A g \in Paths : base'[g] = 0 /\ offsets'[g] <= written'[g]
             /\ \A g \in seen' : offsets'[g] = 0 => start'[g] = 0
             /\ from' # -1 => todo' # <<>> /\ 0 < from' /\ from' <= written'[Head(todo')]
  <2>1. \A g \in Paths : written[g] <= written'[g] /\ written'[g] \in Nat
    BY <1>0, <1>1 DEF Write, TypeOK
  <2> QED BY <1>0, <1>1, <2>1, Visited DEF Write, collector, history
<1>2. CASE UNCHANGED vars \/ Collect \/ OpenFails \/ SetLogs \/ PopSnapshot \/ Restart
  <2>1. /\ UNCHANGED <<base, written>>
        /\ seen' = {} \/ UNCHANGED <<seen, start>>
        /\ UNCHANGED offsets \/ (offsets' = [f \in Paths |-> 0] /\ seen' = {})
        /\ from' = -1 \/ UNCHANGED <<from, todo>> \/ (Collect /\ UNCHANGED from)
    BY <1>2 DEF vars, Collect, OpenFails, SetLogs, PopSnapshot, Restart, files, collector, history
  <2>2. Collect => from = -1
    BY <1>0 DEF Collect
  <2> QED BY <1>0, <2>1, <2>2
<1>3. CASE Stat
  <2> DEFINE f == Head(todo)
  <2>0. f \in Paths /\ todo # <<>> /\ from = -1 /\ UNCHANGED <<base, written>> /\ seen' = seen \cup {f}
    BY <1>0, <1>3, Visited DEF Stat, files
  <2>1. CASE offsets[f] = 0 /\ offsets' = [offsets EXCEPT ![f] = Size(f)]
               /\ start' = [start EXCEPT ![f] = written[f]] /\ UNCHANGED from
    <3>1. \A g \in Paths : /\ offsets'[g] = IF g = f THEN written[f] ELSE offsets[g]
                           /\ start'[g] = IF g = f THEN written[f] ELSE start[g]
      BY <1>0, <2>1 DEF TypeOK
    <3> QED BY <1>0, <2>0, <2>1, <3>1 DEF TypeOK
  <2>2. CASE offsets[f] # 0 /\ from' = ResumeAt(f) /\ UNCHANGED <<offsets, start, todo>>
    <3>1. from' = offsets[f]
      BY <1>0, <2>0, <2>2 DEF ResumeAt
    <3> QED BY <1>0, <2>0, <2>2, <3>1
  <2> QED BY <1>3, <2>1, <2>2 DEF Stat
<1>4. CASE Scan
  <2> DEFINE f     == Head(todo)
             avail == IF Size(f) > from THEN Size(f) - from ELSE 0
             n     == IF avail > FileLimit THEN FileLimit ELSE avail
  <2>0. /\ f \in Paths /\ from \in Nat /\ 0 < from /\ from <= written[f]
        /\ UNCHANGED <<base, written, seen, start>> /\ from' = -1
    BY <1>0, <1>4, Visited DEF Scan, files
  <2>1. avail \in Nat /\ n \in Nat /\ n <= avail /\ from + avail = written[f]
    BY <1>0, <2>0, LimitsAssumption
  <2>2. PICK ahead \in 0..(avail - n) : offsets' = [offsets EXCEPT ![f] = from + n + ahead]
    BY <1>4 DEF Scan
  <2> HIDE DEF avail, n
  <2>3. ahead \in Nat /\ 0 < from + n + ahead /\ from + n + ahead <= written[f]
    BY <2>0, <2>1, <2>2
  <2>4. \A g \in Paths : offsets'[g] = IF g = f THEN from + n + ahead ELSE offsets[g]
    BY <2>2 DEF TypeOK, TailInv
  <2>5. seen \subseteq Paths
    BY <1>0 DEF TypeOK
  <2> QED BY <1>0, <2>0, <2>3, <2>4, <2>5
<1>5. \A f \in Paths : ~Truncate(f)
  BY DEF Truncate
<1> QED BY <1>1, <1>2, <1>3, <1>4, <1>5 DEF Next

\* The code skips lines of a file that it has looked at before, against its
\* comment "First time seeing this file, start from the end" (logs.go:72); but
\* unless a file is truncated this happens to one that was empty then, and to
\* no other (logs.go:70-80, 104).
SkipsOnlyAfterEmpty ==
    [][\A f \in seen :
         "truncate" \notin Faults /\ start'[f] # start[f] => start[f] = 0 /\ offsets[f] = 0]_vars

\* So the only lines lost at a first sight come from offset 0 meaning two things.
THEOREM SkippedOnlyAfterEmpty == Spec => SkipsOnlyAfterEmpty
<1>1. TailInv /\ OnlyGrown /\ [Next]_vars
        => [\A f \in seen : "truncate" \notin Faults /\ start'[f] # start[f]
               => start[f] = 0 /\ offsets[f] = 0]_vars
  <2> SUFFICES ASSUME TailInv, OnlyGrown, Next, NEW f \in seen, "truncate" \notin Faults,
                      start'[f] # start[f]
               PROVE  start[f] = 0 /\ offsets[f] = 0
    OBVIOUS
  <2>1. Stat
    BY DEF Next, Write, Truncate, Collect, OpenFails, Scan, SetLogs, PopSnapshot, Restart, history
  <2>2. f = Head(todo) /\ offsets[f] = 0
    BY <2>1 DEF Stat, TailInv, TypeOK
  <2> QED BY <2>2 DEF OnlyGrown
<1> QED BY <1>1, InitGrown, NextGrown, TailInductive, PTL DEF Spec, SkipsOnlyAfterEmpty

=============================================================================
