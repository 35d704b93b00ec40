---------------------------- MODULE WatchersProofs ----------------------------
(***************************************************************************)
(* What Watchers promises holds for every scenario, watchers section and   *)
(* order of the names, and however long the kernels take.                  *)
(*                                                                         *)
(* Kept says at each call what a watcher has stored (StorePlace) and what  *)
(* it has recorded (RecordPlace).  RecordedNext is the heart of it: one    *)
(* more entry under the name of the round at hand is the entry of that     *)
(* round.  The properties of the report follow from what is recorded when  *)
(* the last round is over.                                                 *)
(***************************************************************************)
EXTENDS Watchers, ScenarioProofs

-------------------------------------------------------------------------------
(* Names in order. *)

\* Names in order are these names.
LEMMA InOrderIs ==
  ASSUME NEW names, IsFiniteSet(names), names \subseteq Names
  PROVE  /\ InOrder(names) \in Seq(names)
         /\ DOMAIN InOrder(names) = 1 .. Len(InOrder(names))
         /\ \A k \in DOMAIN InOrder(names) : InOrder(names)[k] \in names
         /\ \A x \in names : \E k \in DOMAIN InOrder(names) : InOrder(names)[k] = x
         /\ InOrder(names) = <<>> <=> names = {}
  <1> DEFINE L == InOrder(names)
             n == Cardinality(names)
  <1>1. n \in Nat /\ Len(L) = n /\ DOMAIN L = 1 .. n
    BY ListingLen, FS_CardinalityType DEF InOrder
  <1>2. /\ \A x, y \in names : <<x, y>> \in StringOrder \/ <<y, x>> \in StringOrder
        /\ \A x, y \in names : <<x, y>> \in StringOrder /\ <<y, x>> \in StringOrder => x = y
        /\ \A x, y, z \in names :
             <<x, y>> \in StringOrder /\ <<y, z>> \in StringOrder => <<x, z>> \in StringOrder
    BY OrderAssumption
  <1>3. /\ \A k \in 1 .. n : L[k] \in names
        /\ \A x \in names : \E k \in 1 .. n : L[k] = x
    BY <1>2, ListingWhole DEF InOrder
  <1>4. L = [k \in 1 .. n |-> L[k]]
    BY DEF InOrder, Listed
  <1> HIDE DEF L, n
  <1>5. L \in [1 .. n -> names]
    BY <1>3, <1>4
  <1>6. L \in Seq(names)
    BY <1>1, <1>5
  <1>7. L = <<>> <=> names = {}
    BY <1>1, <1>3, <1>6
  <1> QED
    BY <1>1, <1>3, <1>6, <1>7 DEF L

-------------------------------------------------------------------------------
(* Rounds counted by name. *)

\* How many of the first n entries of d have a name.
Count(d, name, n) == Cardinality({j \in 1 .. n : d[j].name = name})

\* There are no more than n, and one more if the next one has the name.
LEMMA CountNext ==
  ASSUME NEW d, NEW name, NEW n \in Nat
  PROVE  /\ Count(d, name, n) \in 0 .. n
         /\ Count(d, name, n + 1) = Count(d, name, n) + (IF d[n + 1].name = name THEN 1 ELSE 0)
  <1> DEFINE S == {j \in 1 .. n : d[j].name = name}
             T == {j \in 1 .. n + 1 : d[j].name = name}
  <1>1. IsFiniteSet(1 .. n) /\ Cardinality(1 .. n) = n
    BY FS_Interval
  <1>2. IsFiniteSet(S) /\ Cardinality(S) <= n /\ Cardinality(S) \in Nat
    BY <1>1, FS_Subset, FS_CardinalityType
  <1>3. n + 1 \notin S /\ T = IF d[n + 1].name = name THEN S \cup {n + 1} ELSE S
    OBVIOUS
  <1> HIDE DEF S, T
  <1>4. Cardinality(T) = Cardinality(S) + (IF d[n + 1].name = name THEN 1 ELSE 0)
    BY <1>2, <1>3, FS_AddElement
  <1> QED
    BY <1>2, <1>4 DEF Count, S, T

\* The number of an entry among those of its name is one of their numbers.
LEMMA CountWithin ==
  ASSUME NEW d, NEW name, NEW n \in Nat, NEW j \in 0 .. n
  PROVE  /\ Count(d, name, j) \in Nat /\ Count(d, name, n) \in Nat
         /\ Count(d, name, j) <= Count(d, name, n)
         /\ j # 0 /\ d[j].name = name => Count(d, name, j) >= 1
  <1> DEFINE S == {i \in 1 .. j : d[i].name = name}
             T == {i \in 1 .. n : d[i].name = name}
  <1>1. IsFiniteSet(1 .. n)
    BY FS_Interval
  <1>2. S \subseteq T /\ T \subseteq 1 .. n /\ (j # 0 /\ d[j].name = name => j \in S)
    OBVIOUS
  <1> HIDE DEF S, T
  <1>3. IsFiniteSet(T) /\ IsFiniteSet(S) /\ Cardinality(S) <= Cardinality(T)
    BY <1>1, <1>2, FS_Subset
  <1>4. /\ Cardinality(S) \in Nat /\ Cardinality(T) \in Nat
        /\ S # {} => Cardinality(S) # 0
    BY <1>3, FS_CardinalityType, FS_EmptySet
  <1>5. j # 0 /\ d[j].name = name => Cardinality(S) >= 1
    BY <1>2, <1>4
  <1> QED
    BY <1>3, <1>4, <1>5 DEF Count, S, T

\* It depends on the first n entries alone.
LEMMA CountSame ==
  ASSUME NEW d, NEW e, NEW name, NEW n \in Nat, \A j \in 1 .. n : d[j].name = e[j].name
  PROVE  Count(d, name, n) = Count(e, name, n)
  BY DEF Count

\* The names of finitely many entries are finitely many.
LEMMA SeenFinite ==
  ASSUME NEW d, NEW n \in Nat
  PROVE  IsFiniteSet({d[j].name : j \in 1 .. n})
  <1> DEFINE T == {d[j].name : j \in 1 .. n}
             f == [j \in 1 .. n |-> d[j].name]
  <1>1. f \in Surjection(1 .. n, T)
    BY DEF Surjection
  <1>2. IsFiniteSet(1 .. n)
    BY FS_Interval
  <1> HIDE DEF f, T
  <1>3. IsFiniteSet(T)
    BY <1>1, <1>2, FS_Surjection
  <1> QED
    BY <1>3 DEF T

\* A core's rounds are a sequence.
LEMMA RoundsAreRounds ==
  ASSUME NEW s \in Scenarios, NEW t \in CoresOf(s)
  PROVE  Rounds(Program(s, t)) \in Seq(RoundsRun)
  <1> DEFINE P == Program(s, t)
             L == Listed(RoundsOf(P), RoundOrder(P))
             r == Rounds(P)
             n == Cardinality(RoundsOf(P))
  <1>1. Reached(s) \in 0 .. Len(s)
    BY ScenarioIsSeq, ReachedBounds
  <1>2. IsTaskList(P)
    <2>1. Reached(s) \in Nat /\ Len(s) \in Nat
      BY <1>1, ScenarioIsSeq
    <2> QED
      BY <1>1, <2>1, TasksSeq, TasksAreTasks DEF IsTaskList, Program
  <1>3. n \in Nat /\ DOMAIN L = 1 .. n
    BY <1>2, RoundsType, ListingLen, FS_CardinalityType
  <1>4. r = [k \in 1 .. n |-> r[k]] /\ DOMAIN r = 1 .. n
    BY <1>3 DEF Rounds
  <1>5. ASSUME NEW k \in 1 .. n PROVE r[k] \in RoundsRun
    <2> DEFINE One(u) == {Rounds(Program(s, u))[i] : i \in DOMAIN Rounds(Program(s, u))}
               All    == {One(u) : u \in CoresOf(s)}
    <2>1. r[k] \in One(t)
      BY <1>4
    <2> HIDE DEF One
    <2>2. r[k] \in UNION All
      BY <2>1
    <2> HIDE DEF All
    <2>3. UNION All \in {UNION {UNION {{Rounds(Program(v, u))[i] : i \in DOMAIN Rounds(Program(v, u))} :
                                        u \in CoresOf(v)}} : v \in Scenarios}
      BY DEF All, One
    <2> QED
      BY <2>2, <2>3 DEF RoundsRun
  <1> HIDE DEF r, n
  <1>6. r \in [1 .. n -> RoundsRun]
    BY <1>4, <1>5
  <1> QED
    BY <1>3, <1>6 DEF r

-------------------------------------------------------------------------------
(* What one call does to a watcher. *)

\* before() leaves the entries alone and stores what after() needs.
LEMMA BeforeIs ==
  ASSUME NEW w, IsWatcher(w), clock \in Nat
  PROVE  LET b == Before(w) IN
         /\ IsWatcher(b) /\ b.kind = w.kind /\ b.watchMap = w.watchMap
         /\ w.kind \in {"time", "flops", "sync"} => b.stored = clock
         /\ w.kind = "papi" => b.started /\ b.zero = clock
         /\ w.kind = "papi" /\ w.started => b.stored = clock - w.zero
  <1>1. w = [kind |-> w.kind, arg |-> w.arg, watchMap |-> w.watchMap, stored |-> w.stored,
             zero |-> w.zero, started |-> w.started]
    BY DEF IsWatcher
  <1>2. CASE w.kind = "papi" /\ ~ w.started
    <2>1. Before(w) = [w EXCEPT !.started = TRUE, !.zero = clock]
      BY <1>2 DEF Before
    <2>2. Before(w) = [kind |-> w.kind, arg |-> w.arg, watchMap |-> w.watchMap,
                       stored |-> w.stored, zero |-> clock, started |-> TRUE]
      BY <1>1, <2>1
    <2> QED
      BY <1>2, <2>2 DEF IsWatcher
  <1>3. CASE w.kind = "papi" /\ w.started
    <2>1. Before(w) = [w EXCEPT !.stored = clock - w.zero, !.zero = clock]
      BY <1>3 DEF Before
    <2>2. Before(w) = [kind |-> w.kind, arg |-> w.arg, watchMap |-> w.watchMap,
                       stored |-> clock - w.zero, zero |-> clock, started |-> w.started]
      BY <1>1, <2>1
    <2> QED
      BY <1>3, <2>2 DEF IsWatcher
  <1>4. CASE w.kind = "size"
    BY <1>4 DEF Before
  <1>5. CASE w.kind \notin {"papi", "size"}
    <2>1. Before(w) = [w EXCEPT !.stored = clock]
      BY <1>5 DEF Before
    <2>2. Before(w) = [kind |-> w.kind, arg |-> w.arg, watchMap |-> w.watchMap,
                       stored |-> clock, zero |-> w.zero, started |-> w.started]
      BY <1>1, <2>1
    <2> QED
      BY <1>5, <2>2 DEF IsWatcher
  <1> QED
    BY <1>2, <1>3, <1>4, <1>5

\* after() adds one entry to the list of the name, and sets the counters to zero.
LEMMA AfterIs ==
  ASSUME NEW w, IsWatcher(w), clock \in Nat, NEW name
  PROVE  LET a == After(w, name) IN
         /\ IsWatcher(a) /\ a.kind = w.kind /\ a.stored = w.stored /\ a.started = w.started
         /\ w.kind = "papi" => a.zero = clock
         /\ DOMAIN a.watchMap = DOMAIN w.watchMap \cup {name}
         /\ a.watchMap[name] = Append(Entries(w, name), Entry(w))
         /\ \A x \in DOMAIN w.watchMap \ {name} : a.watchMap[x] = w.watchMap[x]
         /\ Entry(w) \in Int
  <1>1. w = [kind |-> w.kind, arg |-> w.arg, watchMap |-> w.watchMap, stored |-> w.stored,
             zero |-> w.zero, started |-> w.started]
    BY DEF IsWatcher
  <1> DEFINE map == [x \in DOMAIN w.watchMap \cup {name} |->
                       IF x = name THEN Append(Entries(w, name), Entry(w)) ELSE w.watchMap[x]]
             zero == IF w.kind = "papi" THEN clock ELSE w.zero
  <1>2. After(w, name) = [w EXCEPT !.watchMap = map, !.zero = zero]
    BY DEF After
  <1>3. /\ DOMAIN map = DOMAIN w.watchMap \cup {name}
        /\ map[name] = Append(Entries(w, name), Entry(w))
        /\ \A x \in DOMAIN w.watchMap \ {name} : map[x] = w.watchMap[x]
    OBVIOUS
  <1>4. zero \in Int /\ (w.kind = "papi" => zero = clock)
    BY DEF IsWatcher
  <1> HIDE DEF map, zero
  <1>5. After(w, name) = [kind |-> w.kind, arg |-> w.arg, watchMap |-> map, stored |-> w.stored,
                          zero |-> zero, started |-> w.started]
    BY <1>1, <1>2
  <1>6. Entry(w) \in Int
    BY DEF Entry, IsWatcher
  <1>7. IsWatcher(After(w, name))
    BY <1>4, <1>5 DEF IsWatcher
  <1> QED
    BY <1>3, <1>4, <1>5, <1>6, <1>7

-------------------------------------------------------------------------------
(* What a watcher has recorded. *)

\* Spans, for a watcher of a kind among N and the j-th of the rounds d.
SpansOf(kind, N, d, j, entry) ==
  LET took == d[j].to - d[j].from
      gap  == d[j].from - d[j - 1].to
  IN /\ kind \in {"time", "flops"} => entry \in took .. took + N
     /\ kind = "papi" /\ j # 1 => entry \in took - gap .. took - gap + 2 * N
     /\ kind = "sync" => entry \in d[j].from - N .. d[j].from - 1

\* The entries of a watcher are those for the first n rounds of d.
Recorded(kind, N, map, d, n) ==
  /\ DOMAIN map = {d[j].name : j \in 1 .. n}
  /\ \A name \in DOMAIN map : map[name] \in Seq(Int) /\ Len(map[name]) = Count(d, name, n)
  /\ \A j \in 1 .. n : SpansOf(kind, N, d, j, map[d[j].name][Count(d, d[j].name, j)])

RecordedAll ==
  \A w \in DOMAIN watchers :
    Recorded(watchers[w].kind, Len(watchers), watchers[w].watchMap, done, Told(w))

\* RecordPlace says this of every watcher.
LEMMA RecordPlaceIs == (RecordPlace <=> RecordedAll) /\ (RecordPlace' <=> RecordedAll')
  <1>1. RecordPlace <=> RecordedAll
    BY DEF RecordPlace, RecordedAll, Recorded, SpansOf, Spans, Gap, TimesWithin, Count
  <1>2. RecordPlace' <=> RecordedAll'
    BY DEF RecordPlace, RecordedAll, Recorded, SpansOf, Spans, Gap, TimesWithin, Count
  <1> QED
    BY <1>1, <1>2

\* It depends on the first n rounds alone.
LEMMA RecordedSame ==
  ASSUME NEW kind, NEW N, NEW map, NEW d, NEW e, NEW n \in Nat,
         \A j \in 1 .. n : d[j] = e[j], Recorded(kind, N, map, d, n)
  PROVE  Recorded(kind, N, map, e, n)
  <1>1. \A name : \A j \in 0 .. n : Count(d, name, j) = Count(e, name, j)
    BY DEF Count
  <1>2. \A j \in 1 .. n : d[j] = e[j] /\ j \in 0 .. n
    OBVIOUS
  <1>3. DOMAIN map = {e[j].name : j \in 1 .. n}
    BY DEF Recorded
  <1>4. \A name \in DOMAIN map : map[name] \in Seq(Int) /\ Len(map[name]) = Count(e, name, n)
    BY <1>1 DEF Recorded
  <1>5. ASSUME NEW j \in 1 .. n
        PROVE  SpansOf(kind, N, e, j, map[e[j].name][Count(e, e[j].name, j)])
    <2>1. SpansOf(kind, N, d, j, map[e[j].name][Count(e, e[j].name, j)])
      BY <1>1, <1>2 DEF Recorded
    <2>2. j # 1 => j - 1 \in 1 .. n
      OBVIOUS
    <2>3. d[j] = e[j] /\ (j # 1 => d[j - 1] = e[j - 1])
      BY <2>2
    <2> QED
      BY <2>1, <2>3 DEF SpansOf
  <1> QED
    BY <1>3, <1>4, <1>5 DEF Recorded

\* A map has one more entry under a name.
Extended(map, name, entry, new) ==
  /\ DOMAIN new = DOMAIN map \cup {name}
  /\ new[name] = Append(IF name \in DOMAIN map THEN map[name] ELSE <<>>, entry)
  /\ \A x \in DOMAIN map \ {name} : new[x] = map[x]

\* One more entry, under the name of the next round, is for the next round.
LEMMA RecordedNext ==
  ASSUME NEW kind, NEW N, NEW map, NEW d, NEW n \in Nat, Recorded(kind, N, map, d, n),
         NEW entry \in Int, SpansOf(kind, N, d, n + 1, entry),
         NEW new, Extended(map, d[n + 1].name, entry, new)
  PROVE  Recorded(kind, N, new, d, n + 1)
  <1> DEFINE name == d[n + 1].name
             list == IF name \in DOMAIN map THEN map[name] ELSE <<>>
  <1>0. /\ DOMAIN new = DOMAIN map \cup {name} /\ new[name] = Append(list, entry)
        /\ \A x \in DOMAIN map \ {name} : new[x] = map[x]
        /\ list = IF name \in DOMAIN map THEN map[name] ELSE <<>>
        /\ name = d[n + 1].name
    BY DEF Extended
  <1> HIDE DEF name, list
  <1>1. \A x : Count(d, x, n) \in Nat
             /\ Count(d, x, n + 1) = Count(d, x, n) + (IF x = name THEN 1 ELSE 0)
    BY <1>0, CountNext
  <1>2. list \in Seq(Int) /\ Len(list) = Count(d, name, n)
    <2>1. CASE name \in DOMAIN map
      BY <1>0, <2>1 DEF Recorded
    <2>2. CASE name \notin DOMAIN map
      <3>1. {j \in 1 .. n : d[j].name = name} = {}
        BY <1>0, <2>2 DEF Recorded
      <3>2. Count(d, name, n) = 0
        BY <3>1, FS_EmptySet DEF Count
      <3>3. list = <<>>
        BY <1>0, <2>2
      <3>4. <<>> \in Seq(Int) /\ Len(<<>>) = 0
        OBVIOUS
      <3> QED
        BY <3>2, <3>3, <3>4
    <2> QED
      BY <2>1, <2>2
  <1>3. /\ new[name] \in Seq(Int) /\ Len(new[name]) = Count(d, name, n) + 1
        /\ new[name][Count(d, name, n) + 1] = entry
        /\ \A i \in 1 .. Count(d, name, n) : new[name][i] = list[i]
    BY <1>0, <1>2
  <1>4. DOMAIN new = {d[j].name : j \in 1 .. n + 1}
    BY <1>0 DEF Recorded
  <1>5. \A x \in DOMAIN new : new[x] \in Seq(Int) /\ Len(new[x]) = Count(d, x, n + 1)
    <2>1. ASSUME NEW x \in DOMAIN map, x # name
          PROVE  new[x] \in Seq(Int) /\ Len(new[x]) = Count(d, x, n + 1)
      <3>1. new[x] = map[x] /\ map[x] \in Seq(Int) /\ Len(map[x]) = Count(d, x, n)
        BY <1>0, <2>1 DEF Recorded
      <3>2. Count(d, x, n + 1) = Count(d, x, n)
        BY <1>1, <2>1
      <3> QED
        BY <3>1, <3>2
    <2>2. Len(new[name]) = Count(d, name, n + 1)
      BY <1>1, <1>3
    <2> QED
      BY <1>0, <1>3, <2>1, <2>2
  <1>6. ASSUME NEW j \in 1 .. n + 1
        PROVE  SpansOf(kind, N, d, j, new[d[j].name][Count(d, d[j].name, j)])
    <2>1. CASE j = n + 1
      BY <1>0, <1>1, <1>3, <2>1
    <2>2. CASE j # n + 1
      <3>1. j \in 1 .. n /\ j \in 0 .. n /\ j # 0
        BY <2>2
      <3>2. SpansOf(kind, N, d, j, map[d[j].name][Count(d, d[j].name, j)]) /\ d[j].name \in DOMAIN map
        BY <3>1 DEF Recorded
      <3>3. Count(d, d[j].name, j) \in 1 .. Count(d, d[j].name, n)
        BY <3>1, CountWithin
      <3>4. new[d[j].name][Count(d, d[j].name, j)] = map[d[j].name][Count(d, d[j].name, j)]
        <4>1. CASE d[j].name = name
          BY <1>0, <1>3, <3>2, <3>3, <4>1
        <4>2. CASE d[j].name # name
          BY <1>0, <3>2, <4>2
        <4> QED
          BY <4>1, <4>2
      <3> QED
        BY <3>2, <3>4
    <2> QED
      BY <2>1, <2>2
  <1> QED
    BY <1>4, <1>5, <1>6 DEF Recorded

-------------------------------------------------------------------------------
(* The steps. *)

\* At the start there is nothing to keep.
LEMMA KeptAtStart == Init => Kept
  <1> SUFFICES ASSUME Init PROVE Kept
    OBVIOUS
  <1> USE DEF Init
  <1>1. keys \in Seq(DOMAIN section)
    BY SectionsAssumption, InOrderIs
  <1>2. rounds \in Seq(RoundsRun)
    BY RoundsAreRounds
  <1>3. Len(watchers) = 0 /\ DOMAIN watchers = {} /\ Len(done) = 0
        /\ watchers \in Seq({watchers[w] : w \in DOMAIN watchers})
        /\ done \in Seq([name : Names, from : Nat, to : Nat])
    OBVIOUS
  <1>4. TypeOK
    BY <1>1, <1>2, <1>3 DEF TypeOK
  <1>5. CallPlace
    BY <1>3 DEF CallPlace
  <1>6. RecordPlace /\ StorePlace
    BY <1>3 DEF RecordPlace, StorePlace
  <1>7. ReportPlace
    BY DEF ReportPlace
  <1> QED
    BY <1>4, <1>5, <1>6, <1>7 DEF Kept

\* The entries are what they should be as long as nobody is told of a round.
LEMMA SameRecord ==
  ASSUME RecordPlace, UNCHANGED <<watchers, done>>, \A w \in DOMAIN watchers : Told(w)' = Told(w)
  PROVE  RecordPlace'
  <1>1. \A name, n : TimesWithin(name, n)' = TimesWithin(name, n)
    BY DEF TimesWithin
  <1>2. \A w, entry, j : Spans(w, entry, j)' = Spans(w, entry, j)
    BY DEF Spans, Gap
  <1> QED
    BY <1>1, <1>2 DEF RecordPlace

\* What is kept does not depend on the keys, but for their type.
LEMMA SameElse ==
  ASSUME Kept, UNCHANGED <<watchers, rounds, pc, at, clock, done, header, rows>>, TypeOK'
  PROVE  Kept'
  <1>1. CallPlace'
    BY DEF Kept, CallPlace
  <1>2. RecordPlace'
    BY SameRecord DEF Kept, Told
  <1>3. StorePlace'
    BY DEF Kept, StorePlace, Due, BeganAt, EndedAt, Told
  <1>4. ReportPlace'
    BY DEF Kept, ReportPlace, Headers, Summary, Row, SizeOf
  <1> QED
    BY <1>1, <1>2, <1>3, <1>4 DEF Kept

\* A key main does not know changes nothing.
LEMMA SkipKeyKeeps == Kept /\ SkipKey => Kept'
  <1> SUFFICES ASSUME Kept, SkipKey PROVE Kept'
    OBVIOUS
  <1>1. keys # <<>> /\ keys' = Tail(keys)
        /\ UNCHANGED <<watchers, section, rounds, pc, at, clock, done, header, rows>>
    BY DEF SkipKey, NextKey, coreVars, report
  <1>2. TypeOK'
    BY <1>1 DEF Kept, TypeOK
  <1> QED
    BY <1>1, <1>2, SameElse

\* Main goes on with the watchers it has attached, or not at all.
LEMMA AttachEnds ==
  ASSUME Kept, pc = "attach", pc' \in {"next", "crashed", "exited"},
         UNCHANGED <<keys, section, watchers, rounds, at, clock, done, header, rows>>
  PROVE  Kept'
  <1>1. TypeOK'
    BY DEF Kept, TypeOK
  <1>2. CallPlace'
    BY DEF CallPlace
  <1>3. RecordPlace'
    BY SameRecord DEF Kept, Told
  <1>4. StorePlace'
    BY DEF Kept, CallPlace, StorePlace, Due, Told
  <1>5. ReportPlace'
    BY DEF Kept, ReportPlace
  <1> QED
    BY <1>1, <1>2, <1>3, <1>4, <1>5 DEF Kept

\* A process that ended has no more calls.
LEMMA FailKeyKeeps == Kept /\ FailKey => Kept'
  BY AttachEnds DEF FailKey, NextKey, coreVars, report

\* The first round is preceded by all of the keys.
LEMMA AttachedKeeps == Kept /\ Attached => Kept'
  BY AttachEnds DEF Attached, coreVars, report

\* The constructor makes a watcher without entries.
LEMMA ConstructedIs ==
  ASSUME NEW sec \in Sections, NEW key \in DOMAIN sec, key \in KnownKeys,
         ~ NoSize(key, sec[key]), ~ BadCounters(key, sec[key]), NEW w \in Constructed(key, sec[key])
  PROVE  IsWatcher(w) /\ DOMAIN w.watchMap = {}
  <1> DEFINE params == sec[key]
  <1>1. params \in Seq({params[i] : i \in DOMAIN params})
    BY SectionsAssumption
  <1>2. Len(params) \in Nat /\ DOMAIN params = 1 .. Len(params)
    BY <1>1
  <1> HIDE DEF params
  <1>4. CASE key = "papi"
    <2>1. PICK v \in Indeterminate : w = Watcher("papi", params, v)
      BY <1>4 DEF Constructed, FlopsKeys, params
    <2>2. Len(params) \in 0 .. MAX_EVENTS /\ \A i \in 1 .. Len(params) : params[i] \in Counters
      <3>1. ~ (Len(params) > MAX_EVENTS) /\ \A i \in DOMAIN params : params[i] \in Counters
        BY <1>4 DEF BadCounters, params
      <3> QED
        BY <1>2, <3>1 DEF MAX_EVENTS
    <2>3. v \in Int
      BY ValuesAssumption
    <2> QED
      BY <2>1, <2>2, <2>3 DEF IsWatcher, Kinds, Watcher
  <1>5. CASE key = "size"
    <2>1. w = Watcher("size", IntParams[params[1]], 0)
      BY <1>5 DEF Constructed, FlopsKeys, params
    <2>2. IntParams[params[1]] \in Int
      BY <1>5, ValuesAssumption DEF NoSize, SizedKeys, params
    <2> QED
      BY <2>1, <2>2 DEF IsWatcher, Kinds, Watcher
  <1>6. CASE key \in DOMAIN FlopsKeys
    <2>1. key # "papi" /\ key # "size"
      BY <1>6 DEF FlopsKeys
    <2>2. PICK x : w = Watcher("flops", x, 0)
      BY <1>6, <2>1 DEF Constructed
    <2> QED
      BY <2>2 DEF IsWatcher, Kinds, Watcher
  <1>7. CASE key \notin {"papi", "size"} \cup DOMAIN FlopsKeys
    <2>1. key \in {"time", "sync"}
      BY <1>7 DEF KnownKeys, SizedKeys
    <2>2. w = Watcher(key, 0, 0)
      BY <1>7 DEF Constructed
    <2> QED
      BY <2>1, <2>2 DEF IsWatcher, Kinds, Watcher
  <1> QED
    BY <1>4, <1>5, <1>6, <1>7

\* A new watcher has recorded nothing, as nothing was run.
LEMMA AddWatcherKeeps == Kept /\ AddWatcher => Kept'
  <1> SUFFICES ASSUME Kept, AddWatcher PROVE Kept'
    OBVIOUS
  <1>1. /\ pc = "attach" /\ keys # <<>> /\ Key \in KnownKeys /\ ~ KeyFails
        /\ keys' = Tail(keys)
        /\ UNCHANGED <<section, pc, rounds, at, clock, done, header, rows>>
    BY DEF AddWatcher, NextKey, coreVars, report
  <1>2. PICK w \in Constructed(Key, section[Key]) : watchers' = Append(watchers, w)
    BY DEF AddWatcher
  <1>3. section \in Sections /\ Key \in DOMAIN section
    BY <1>1 DEF Kept, TypeOK, Key
  <1>4. IsWatcher(w) /\ DOMAIN w.watchMap = {}
    BY <1>1, <1>3, ConstructedIs DEF KeyFails
  <1> DEFINE old == {watchers[i] : i \in DOMAIN watchers}
             all == {watchers'[i] : i \in DOMAIN watchers'}
  <1>5. watchers \in Seq(old) /\ Len(watchers) \in Nat /\ DOMAIN watchers = 1 .. Len(watchers)
    BY DEF Kept, TypeOK
  <1>6. /\ Len(watchers') = Len(watchers) + 1 /\ DOMAIN watchers' = 1 .. Len(watchers) + 1
        /\ watchers'[Len(watchers) + 1] = w
        /\ \A i \in DOMAIN watchers : watchers'[i] = watchers[i]
    <2> HIDE DEF old
    <2>1. watchers \in Seq(old \cup {w})
      BY <1>5
    <2> QED
      BY <1>2, <1>5, <2>1
  <1>7. watchers' \in Seq(all)
    <2>1. watchers \in Seq(all)
      <3>1. \A i \in 1 .. Len(watchers) : watchers[i] \in all
        BY <1>5, <1>6
      <3> HIDE DEF all, old
      <3> QED
        BY <1>5, <3>1
    <2>2. w \in all
      BY <1>5, <1>6
    <2> HIDE DEF all
    <2> QED
      BY <1>2, <2>1, <2>2
  <1>8. \A i \in DOMAIN watchers' : IsWatcher(watchers'[i])
    BY <1>4, <1>5, <1>6 DEF Kept, TypeOK
  <1>9. \A i \in DOMAIN watchers' : DOMAIN watchers'[i].watchMap = {}
    BY <1>1, <1>4, <1>5, <1>6 DEF Kept, CallPlace
  <1> HIDE DEF old, all
  <1>10. TypeOK'
    <2>1. at' \in 1 .. Len(watchers') + 1
      BY <1>1, <1>5, <1>6 DEF Kept, TypeOK
    <2>2. keys' \in Seq(DOMAIN section')
      BY <1>1 DEF Kept, TypeOK
    <2> QED
      BY <1>1, <1>7, <1>8, <2>1, <2>2 DEF Kept, TypeOK, all
  <1>11. done = <<>> /\ Len(done) = 0
    BY <1>1 DEF Kept, CallPlace
  <1>12. CallPlace'
    BY <1>1, <1>9, <1>11 DEF CallPlace
  <1>13. RecordPlace'
    <2>1. \A i : Told(i)' = 0
      BY <1>1, <1>11 DEF Told
    <2> QED
      BY <1>9, <2>1 DEF RecordPlace
  <1>14. StorePlace'
    BY <1>1, <1>11 DEF StorePlace, Due, Told
  <1>15. ReportPlace'
    BY <1>1 DEF Kept, ReportPlace
  <1> QED
    BY <1>10, <1>12, <1>13, <1>14, <1>15 DEF Kept

\* Nothing is due before the round begins.
LEMMA StartRoundKeeps == Kept /\ StartRound => Kept'
  <1> SUFFICES ASSUME Kept, StartRound PROVE Kept'
    OBVIOUS
  <1>1. /\ pc = "next" /\ rounds # <<>> /\ at' = 1
        /\ pc' = IF Measured(Head(rounds)) /\ watchers # <<>> THEN "before" ELSE "kernel"
        /\ UNCHANGED <<keys, section, watchers, rounds, clock, done, header, rows>>
    BY DEF StartRound, report
  <1>2. Len(watchers) \in Nat /\ DOMAIN watchers = 1 .. Len(watchers)
        /\ (watchers = <<>> <=> Len(watchers) = 0)
    BY DEF Kept, TypeOK
  <1>3. TypeOK'
    BY <1>1, <1>2 DEF Kept, TypeOK
  <1>4. CallPlace'
    BY <1>1, <1>2 DEF CallPlace
  <1>5. RecordPlace'
    BY <1>1, SameRecord DEF Kept, Told
  <1>6. StorePlace'
    <2>1. \A w \in DOMAIN watchers : ~ Due(w)' /\ ~ Due(w)
      BY <1>1, <1>2 DEF Due
    <2>2. \A w \in DOMAIN watchers : Told(w)' = Told(w) /\ EndedAt(w)' = EndedAt(w)
      BY <1>1 DEF Told, EndedAt
    <2> QED
      BY <1>1, <2>1, <2>2 DEF Kept, StorePlace
  <1>7. ReportPlace'
    BY <1>1 DEF Kept, ReportPlace
  <1> QED
    BY <1>3, <1>4, <1>5, <1>6, <1>7 DEF Kept

\* One watcher of the list is changed.
LEMMA WatcherChange ==
  ASSUME TypeOK, at \in DOMAIN watchers, NEW b, IsWatcher(b), watchers' = [watchers EXCEPT ![at] = b]
  PROVE  /\ Len(watchers') = Len(watchers) /\ DOMAIN watchers' = DOMAIN watchers
         /\ DOMAIN watchers = 1 .. Len(watchers) /\ Len(watchers) \in Nat /\ at \in Nat
         /\ watchers'[at] = b /\ \A w \in DOMAIN watchers \ {at} : watchers'[w] = watchers[w]
         /\ watchers' \in Seq({watchers'[w] : w \in DOMAIN watchers'})
         /\ \A w \in DOMAIN watchers' : IsWatcher(watchers'[w])
         /\ watchers' # <<>>
  <1> DEFINE all == {watchers'[w] : w \in DOMAIN watchers'}
  <1>1. Len(watchers) \in Nat /\ DOMAIN watchers = 1 .. Len(watchers)
    BY DEF TypeOK
  <1>2. DOMAIN watchers' = 1 .. Len(watchers)
        /\ watchers'[at] = b /\ \A w \in DOMAIN watchers \ {at} : watchers'[w] = watchers[w]
    BY <1>1
  <1>3. watchers' \in [1 .. Len(watchers) -> all]
    BY <1>1, <1>2
  <1>4. \A w \in DOMAIN watchers' : IsWatcher(watchers'[w])
    BY <1>1, <1>2 DEF TypeOK
  <1> HIDE DEF all
  <1>5. watchers' \in Seq(all) /\ Len(watchers') = Len(watchers)
    <2>1. \A T : \A n \in Nat : \A f \in [1 .. n -> T] : f \in Seq(T) /\ Len(f) = n
      OBVIOUS
    <2> QED
      BY <1>1, <1>3, <2>1
  <1>6. watchers' # <<>>
    BY <1>1, <1>2
  <1> QED
    BY <1>1, <1>2, <1>4, <1>5, <1>6 DEF all

\* before() stores what its after() needs, and no later before() changes it.
LEMMA CallBeforeKeeps == Kept /\ CallBefore => Kept'
  <1> SUFFICES ASSUME Kept, CallBefore PROVE Kept'
    OBVIOUS
  <1> DEFINE b == Before(watchers[at])
  <1>1. /\ pc = "before" /\ watchers' = [watchers EXCEPT ![at] = b]
        /\ at' = at + 1 /\ clock' = clock + 1
        /\ pc' = IF at = Len(watchers) THEN "kernel" ELSE "before"
        /\ UNCHANGED <<keys, section, rounds, done, header, rows>>
    BY DEF CallBefore, report
  <1>2. /\ rounds # <<>> /\ Measured(Head(rounds)) /\ at \in DOMAIN watchers
        /\ clock \in Nat /\ IsWatcher(watchers[at]) /\ TypeOK
    BY <1>1 DEF Kept, CallPlace, TypeOK
  <1>3. /\ IsWatcher(b) /\ b.kind = watchers[at].kind /\ b.watchMap = watchers[at].watchMap
        /\ b.kind \in {"time", "flops", "sync"} => b.stored = clock
        /\ b.kind = "papi" => b.started /\ b.zero = clock
        /\ b.kind = "papi" /\ watchers[at].started => b.stored = clock - watchers[at].zero
    BY <1>2, BeforeIs
  <1> HIDE DEF b
  <1>4. /\ Len(watchers') = Len(watchers) /\ DOMAIN watchers' = DOMAIN watchers
        /\ DOMAIN watchers = 1 .. Len(watchers) /\ Len(watchers) \in Nat /\ at \in Nat
        /\ watchers'[at] = b /\ \A w \in DOMAIN watchers \ {at} : watchers'[w] = watchers[w]
        /\ watchers' \in Seq({watchers'[w] : w \in DOMAIN watchers'})
        /\ \A w \in DOMAIN watchers' : IsWatcher(watchers'[w])
    BY <1>1, <1>2, <1>3, WatcherChange
  <1>5. TypeOK'
    <2>1. pc' \in {"before", "kernel"} /\ clock' \in Nat /\ at' \in 1 .. Len(watchers') + 1
      BY <1>1, <1>2, <1>4
    <2> QED
      BY <1>1, <1>2, <1>4, <2>1 DEF TypeOK
  <1>6. CallPlace'
    <2>1. pc' = "before" => at' \in DOMAIN watchers'
      BY <1>1, <1>2, <1>4
    <2>2. pc' = "kernel" => at' = Len(watchers') + 1
      BY <1>1, <1>4
    <2> QED
      BY <1>1, <1>2, <2>1, <2>2 DEF CallPlace
  <1>7. \A w \in DOMAIN watchers :
          watchers'[w].kind = watchers[w].kind /\ watchers'[w].watchMap = watchers[w].watchMap
    BY <1>3, <1>4
  <1>8. RecordPlace'
    <2>1. \A name, n : TimesWithin(name, n)' = TimesWithin(name, n)
      BY <1>1 DEF TimesWithin
    <2>2. \A w \in DOMAIN watchers : \A entry, j : Spans(w, entry, j)' = Spans(w, entry, j)
      BY <1>1, <1>4, <1>7 DEF Spans, Gap
    <2>3. \A w : Told(w)' = Len(done) /\ Told(w) = Len(done)
      BY <1>1 DEF Told
    <2>4. /\ DOMAIN watchers' = DOMAIN watchers /\ done' = done
          /\ \A w \in DOMAIN watchers : watchers'[w].watchMap = watchers[w].watchMap
      BY <1>1, <1>4, <1>7
    <2> QED
      BY <2>1, <2>2, <2>3, <2>4 DEF Kept, RecordPlace
  <1>9. StorePlace'
    <2> SUFFICES ASSUME NEW w \in DOMAIN watchers
                 PROVE  /\ watchers'[w].kind = "papi" /\ (done' # <<>> \/ Due(w)') => watchers'[w].started
                        /\ Due(w)' /\ watchers'[w].kind \in {"time", "flops", "sync"} =>
                             watchers'[w].stored = BeganAt(w)'
                        /\ watchers'[w].kind = "papi" =>
                             /\ Due(w)' => watchers'[w].zero = BeganAt(w)'
                             /\ Due(w)' /\ Told(w)' # 0 =>
                                  watchers'[w].stored = BeganAt(w)' - EndedAt(w)'
                             /\ ~ Due(w)' /\ Told(w)' # 0 => watchers'[w].zero = EndedAt(w)'
      BY <1>4 DEF StorePlace
    <2> pc' # "after" /\ pc # "after" /\ (pc' = "kernel" => at = Len(watchers))
      BY <1>1
    <2>0. w \in Nat /\ w <= Len(watchers) /\ at \in Nat
      <3>1. DOMAIN watchers = 1 .. Len(watchers)
        BY <1>4
      <3> QED
        BY <1>2, <3>1
    <2>1. Due(w)' => w <= at
      <3>1. CASE pc' = "kernel"
        BY <2>0, <3>1
      <3>2. CASE pc' # "kernel"
        <4>1. Due(w)' => w < at'
          BY <3>2 DEF Due
        <4> QED
          BY <1>1, <2>0, <4>1
      <3> QED
        BY <3>1, <3>2
    <2>2. BeganAt(w)' = clock' - (at' - w) /\ BeganAt(w) = clock - (at - w)
      BY DEF BeganAt
    <2>3. BeganAt(w)' = BeganAt(w) /\ (w = at => BeganAt(w)' = clock)
      BY <1>1, <1>2, <1>4, <2>0, <2>2
    <2>4. Told(w)' = Len(done) /\ Told(w) = Len(done) /\ EndedAt(w)' = EndedAt(w)
          /\ (Told(w) # 0 => done # <<>>)
      BY <1>1 DEF Told, EndedAt
    <2>5. CASE w = at
      <3>1. b.kind = "papi" /\ done # <<>> => watchers[at].started
        BY <1>2, <1>3 DEF Kept, StorePlace
      <3>2. ~ Due(at)
        BY <1>1, <2>0, <2>5 DEF Due
      <3>3. b.kind = "papi" /\ Told(at) # 0 => watchers[at].zero = EndedAt(at)
        BY <1>2, <1>3, <3>2 DEF Kept, StorePlace
      <3>4. Due(w)'
        <4>1. CASE pc' = "before"
          BY <1>1, <2>0, <2>5, <4>1 DEF Due
        <4>2. CASE pc' = "kernel"
          BY <1>1, <1>2, <4>2 DEF Due
        <4> QED
          BY <1>1, <4>1, <4>2
      <3> QED
        BY <1>1, <1>3, <1>4, <2>3, <2>4, <2>5, <3>1, <3>3, <3>4
    <2>6. CASE w # at
      <3>1. watchers'[w] = watchers[w]
        BY <1>4, <2>6
      <3>2. Due(w)' <=> Due(w)
        <4>1. Due(w)' => w < at
          BY <2>0, <2>1, <2>6
        <4>2. Due(w) <=> w < at
          BY <1>1 DEF Due
        <4>3. w < at => Due(w)'
          <5>1. CASE pc' = "before"
            BY <1>1, <2>0, <5>1 DEF Due
          <5>2. CASE pc' = "kernel"
            BY <1>1, <1>2, <5>2 DEF Due
          <5> QED
            BY <1>1, <5>1, <5>2
        <4> QED
          BY <4>1, <4>2, <4>3
      <3> QED
        BY <1>1, <2>3, <2>4, <3>1, <3>2 DEF Kept, StorePlace
    <2> QED
      BY <2>5, <2>6
  <1>10. ReportPlace'
    BY <1>1 DEF Kept, ReportPlace
  <1> QED
    BY <1>5, <1>6, <1>8, <1>9, <1>10 DEF Kept

\* One more round is done.
LEMMA DoneGrows ==
  ASSUME TypeOK, NEW r \in [name : Names, from : Nat, to : Nat], done' = Append(done, r)
  PROVE  /\ done' \in Seq([name : Names, from : Nat, to : Nat])
         /\ Len(done) \in Nat /\ Len(done') = Len(done) + 1 /\ done'[Len(done) + 1] = r
         /\ DOMAIN done = 1 .. Len(done)
         /\ \A j \in 1 .. Len(done) : done'[j] = done[j]
         /\ \A name : \A n \in 0 .. Len(done) : TimesWithin(name, n)' = TimesWithin(name, n)
  <1>1. done \in Seq([name : Names, from : Nat, to : Nat])
    BY DEF TypeOK
  <1>2. /\ done' \in Seq([name : Names, from : Nat, to : Nat])
        /\ Len(done) \in Nat /\ Len(done') = Len(done) + 1 /\ done'[Len(done) + 1] = r
        /\ DOMAIN done = 1 .. Len(done)
        /\ \A j \in 1 .. Len(done) : done'[j] = done[j]
    BY <1>1
  <1>3. ASSUME NEW name, NEW n \in 0 .. Len(done)
        PROVE  TimesWithin(name, n)' = TimesWithin(name, n)
    <2>1. \A j \in 1 .. n : done'[j] = done[j]
      BY <1>2
    <2> QED
      BY <2>1 DEF TimesWithin
  <1> QED
    BY <1>2, <1>3

\* Types of what a round has.
LEMMA RoundTypes ==
  ASSUME TypeOK, rounds # <<>>
  PROVE  Head(rounds).name \in Names /\ Tail(rounds) \in Seq(RoundsRun)
  <1>1. Head(rounds) \in RoundsRun /\ Tail(rounds) \in Seq(RoundsRun)
    BY DEF TypeOK
  <1> QED
    BY <1>1, NamesAssumption

\* The kernel ends the round: now every watcher is due to be told of it.
LEMMA RunKernelKeeps == Kept /\ RunKernel => Kept'
  <1> SUFFICES ASSUME Kept, RunKernel PROVE Kept'
    OBVIOUS
  <1> DEFINE N == Len(watchers)
             m == Measured(Head(rounds))
  <1>1. pc = "kernel" /\ at' = 1 /\ UNCHANGED <<keys, section, watchers, header, rows>>
    BY DEF RunKernel, report
  <1>2. PICK d \in Durations :
          /\ clock' = clock + d
          /\ done' = IF m THEN Append(done, [name |-> Head(rounds).name, from |-> clock, to |-> clock + d])
                     ELSE done
    BY DEF RunKernel
  <1>3. IF m /\ watchers # <<>> THEN pc' = "after" /\ rounds' = rounds
                                ELSE pc' = "next" /\ rounds' = Tail(rounds)
    BY DEF RunKernel, NextRound
  <1>4. TypeOK /\ rounds # <<>> /\ (m => at = N + 1)
    BY <1>1 DEF Kept, CallPlace
  <1>5. clock \in Nat /\ clock' \in Nat /\ N \in Nat /\ DOMAIN watchers = 1 .. N
        /\ (watchers = <<>> <=> N = 0)
    <2>1. clock \in Nat /\ d \in Nat
      BY <1>4, ValuesAssumption DEF TypeOK
    <2>2. clock' \in Nat
      BY <1>2, <2>1
    <2>3. N \in Nat /\ DOMAIN watchers = 1 .. N /\ (watchers = <<>> <=> N = 0)
      BY <1>4 DEF TypeOK
    <2> QED
      BY <2>1, <2>2, <2>3
  <1> DEFINE r == [name |-> Head(rounds).name, from |-> clock, to |-> clock + d]
  <1>6. r \in [name : Names, from : Nat, to : Nat] /\ Tail(rounds) \in Seq(RoundsRun)
        /\ r.name = Head(rounds).name /\ r.from = clock /\ r.to = clock'
    BY <1>2, <1>4, <1>5, RoundTypes
  <1>7. m => done' = Append(done, r)
    BY <1>2
  <1>8. ~ m => done' = done
    BY <1>2
  <1> HIDE DEF r, m, N
  <1>9. TypeOK'
    <2>1. done' \in Seq([name : Names, from : Nat, to : Nat])
      BY <1>4, <1>6, <1>7, <1>8, DoneGrows DEF TypeOK
    <2>2. rounds' \in Seq(RoundsRun) /\ pc' \in {"after", "next"}
      BY <1>3, <1>4, <1>6 DEF TypeOK
    <2>3. at' \in 1 .. Len(watchers') + 1
      BY <1>1, <1>5 DEF N
    <2> QED
      BY <1>1, <1>4, <1>5, <2>1, <2>2, <2>3 DEF TypeOK
  <1>10. ReportPlace'
    BY <1>1, <1>3 DEF Kept, ReportPlace
  <1>11. CASE ~ (m /\ watchers # <<>>)
    <2>1. pc' = "next"
      BY <1>3, <1>11
    <2>2. CallPlace'
      BY <2>1 DEF CallPlace
    <2>3. \A w \in DOMAIN watchers : ~ m
      BY <1>5, <1>11
    <2>4. RecordPlace'
      <3>1. CASE ~ m
        BY <1>1, <1>8, <2>1, <3>1, SameRecord DEF Kept, Told
      <3>2. CASE m
        BY <1>1, <2>3, <3>2 DEF RecordPlace
      <3> QED
        BY <3>1, <3>2
    <2>5. StorePlace'
      <3>1. \A w : ~ Due(w)' /\ (~ m => ~ Due(w))
        BY <1>1, <2>1 DEF Due, m
      <3>2. CASE ~ m
        <4>1. \A w : Told(w)' = Told(w) /\ EndedAt(w)' = EndedAt(w)
          BY <1>1, <1>8, <2>1, <3>2 DEF Told, EndedAt
        <4> QED
          BY <1>1, <1>8, <3>1, <3>2, <4>1 DEF Kept, StorePlace
      <3>3. CASE m
        BY <1>1, <2>3, <3>3 DEF StorePlace
      <3>4. <<>> \in Seq(Int) /\ Len(<<>>) = 0
        OBVIOUS
      <3> QED
        BY <3>2, <3>3, <3>4
    <2> QED
      BY <1>9, <1>10, <2>2, <2>4, <2>5 DEF Kept
  <1>12. CASE m /\ watchers # <<>>
    <2>1. pc' = "after" /\ rounds' = rounds /\ at' = 1 /\ at = N + 1 /\ N \in Nat \ {0}
      BY <1>1, <1>3, <1>4, <1>5, <1>12
    <2>2. /\ Len(done) \in Nat /\ Len(done') = Len(done) + 1 /\ done'[Len(done) + 1] = r
          /\ DOMAIN done = 1 .. Len(done)
          /\ \A j \in 1 .. Len(done) : done'[j] = done[j]
          /\ \A name : \A n \in 0 .. Len(done) : TimesWithin(name, n)' = TimesWithin(name, n)
      BY <1>4, <1>6, <1>7, <1>12, DoneGrows
    <2>3. done'[Len(done')] = r /\ done' # <<>>
      BY <2>2
    <2>4. CallPlace'
      <3>1. at' \in DOMAIN watchers' /\ clock' = done'[Len(done')].to + at' - 1
        BY <1>1, <1>5, <1>6, <2>1, <2>3
      <3> QED
        BY <1>4, <1>6, <1>12, <2>1, <2>3, <3>1 DEF CallPlace, m
    <2>5. ASSUME NEW w \in DOMAIN watchers PROVE Told(w)' = Len(done) /\ Told(w) = Len(done)
      BY <1>1, <1>5, <2>1, <2>2 DEF Told
    <2>6. RecordPlace'
      <3> SUFFICES ASSUME NEW w \in DOMAIN watchers
                   PROVE  Recorded(watchers[w].kind, N, watchers[w].watchMap, done', Len(done))
        BY <1>1, <2>5, RecordPlaceIs DEF RecordedAll, N
      <3>1. Recorded(watchers[w].kind, N, watchers[w].watchMap, done, Len(done))
        BY <2>5, RecordPlaceIs DEF Kept, RecordedAll, N
      <3> QED
        BY <2>2, <3>1, RecordedSame
    <2>7. StorePlace'
      <3> SUFFICES ASSUME NEW w \in DOMAIN watchers
                   PROVE  /\ watchers[w].kind = "papi" => watchers[w].started
                          /\ watchers[w].kind \in {"time", "flops", "sync"} =>
                               watchers[w].stored = BeganAt(w)'
                          /\ watchers[w].kind = "papi" =>
                               /\ watchers[w].zero = BeganAt(w)'
                               /\ Told(w)' # 0 => watchers[w].stored = BeganAt(w)' - EndedAt(w)'
        <4>1. \A w \in DOMAIN watchers : Due(w)'
          BY <1>1, <1>5, <2>1 DEF Due
        <4> QED
          BY <1>1, <4>1 DEF StorePlace
      <3>1. Due(w)
        BY <1>1, <1>12 DEF Due, m
      <3>2. BeganAt(w) = clock - (at - w)
        BY <1>1 DEF BeganAt
      <3>3. BeganAt(w)' = r.from - (N + 1 - w)
        BY <1>1, <2>1, <2>3 DEF BeganAt, N
      <3>4. w \in Nat
        BY <1>5
      <3>5. BeganAt(w)' = BeganAt(w)
        BY <1>5, <1>6, <2>1, <3>2, <3>3, <3>4
      <3>6. Told(w)' = Told(w) /\ (Told(w) # 0 => EndedAt(w)' = EndedAt(w))
        <4>1. Told(w)' = Len(done) /\ Told(w) = Len(done)
          BY <2>5
        <4>2. Len(done) # 0 => done'[Len(done)] = done[Len(done)]
          BY <2>2
        <4> QED
          BY <4>1, <4>2 DEF EndedAt
      <3> QED
        BY <3>1, <3>5, <3>6 DEF Kept, StorePlace
    <2> QED
      BY <1>9, <1>10, <2>4, <2>6, <2>7 DEF Kept
  <1> QED
    BY <1>11, <1>12

\* What is known of the rounds done.
LEMMA DoneType ==
  ASSUME TypeOK, NEW j \in 1 .. Len(done)
  PROVE  done[j].from \in Nat /\ done[j].to \in Nat
  <1>1. \A T : \A q \in Seq(T) : \A i \in 1 .. Len(q) : q[i] \in T
    OBVIOUS
  <1>2. done \in Seq([name : Names, from : Nat, to : Nat])
    BY DEF TypeOK
  <1>3. done[j] \in [name : Names, from : Nat, to : Nat]
    BY <1>1, <1>2
  <1> QED
    BY <1>3

\* The round at hand is the last of those done.
LEMMA LastDone ==
  ASSUME TypeOK, done # <<>>
  PROVE  /\ Len(done) \in Nat \ {0} /\ DOMAIN done = 1 .. Len(done)
         /\ done[Len(done)].from \in Nat /\ done[Len(done)].to \in Nat
  <1>1. done \in Seq([name : Names, from : Nat, to : Nat])
    BY DEF TypeOK
  <1>2. Len(done) \in Nat \ {0} /\ DOMAIN done = 1 .. Len(done)
    BY <1>1
  <1>3. Len(done) \in 1 .. Len(done)
    BY <1>2
  <1> QED
    BY <1>2, <1>3, DoneType

\* The entry of a watcher whose turn it is spans the round at hand.
LEMMA EntrySpans ==
  ASSUME Kept, pc = "after"
  PROVE  SpansOf(watchers[at].kind, Len(watchers), done, Len(done), Entry(watchers[at]))
  <1> DEFINE w == watchers[at]
             N == Len(watchers)
             r == done[Len(done)]
  <1>1. /\ rounds # <<>> /\ at \in DOMAIN watchers /\ done # <<>> /\ clock = r.to + at - 1
        /\ TypeOK
    BY DEF Kept, CallPlace
  <1>2. DOMAIN watchers = 1 .. N /\ N \in Nat
    BY <1>1 DEF TypeOK
  <1>3. at \in 1 .. N /\ r.from \in Nat /\ r.to \in Nat
    BY <1>1, <1>2, LastDone
  <1>4. IsWatcher(w)
    BY <1>1 DEF TypeOK
  <1>5. Due(at) /\ BeganAt(at) = r.from - (N + 1 - at) /\ Told(at) = Len(done) - 1
    BY <1>3 DEF Due, BeganAt, Told
  <1>6. /\ w.kind \in {"time", "flops", "sync"} => w.stored = BeganAt(at)
        /\ w.kind = "papi" => w.zero = BeganAt(at)
        /\ w.kind = "papi" /\ Len(done) # 1 => w.stored = BeganAt(at) - EndedAt(at)
    <2>1. Len(done) # 1 => Told(at) # 0
      BY <1>1, <1>5, LastDone
    <2> QED
      BY <1>1, <1>5, <2>1 DEF Kept, StorePlace
  <1> DEFINE before == done[Len(done) - 1].to
  <1>7. EndedAt(at) = before + (at - 1)
    BY <1>5 DEF EndedAt
  <1>8. Len(done) # 1 => before \in Nat
    <2>1. Len(done) # 1 => Len(done) - 1 \in 1 .. Len(done)
      BY <1>1, LastDone
    <2> QED
      BY <1>1, <2>1, DoneType
  <1> HIDE DEF w, N, r, before
  <1>9. \A a, n, f, t \in Int : a \in 1 .. n =>
          /\ f - (n + 1 - a) \in f - n .. f - 1
          /\ (t + a - 1) - (f - (n + 1 - a)) = (t - f) + n
          /\ (t - f) + n \in t - f .. (t - f) + n
          /\ \A b \in Int :
               ((t - f) + n) - ((f - (n + 1 - a)) - (b + (a - 1)))
                 \in (t - f) - (f - b) .. (t - f) - (f - b) + 2 * n
    OBVIOUS
  <1>10. /\ r.from - (N + 1 - at) \in r.from - N .. r.from - 1
         /\ clock - BeganAt(at) = (r.to - r.from) + N
         /\ (r.to - r.from) + N \in r.to - r.from .. (r.to - r.from) + N
         /\ Len(done) # 1 =>
              ((r.to - r.from) + N) - (BeganAt(at) - EndedAt(at))
                \in (r.to - r.from) - (r.from - before) .. (r.to - r.from) - (r.from - before) + 2 * N
    <2>1. at \in Int /\ N \in Int /\ r.from \in Int /\ r.to \in Int
      BY <1>2, <1>3
    <2>2. /\ r.from - (N + 1 - at) \in r.from - N .. r.from - 1
          /\ (r.to + at - 1) - (r.from - (N + 1 - at)) = (r.to - r.from) + N
          /\ (r.to - r.from) + N \in r.to - r.from .. (r.to - r.from) + N
      BY <1>3, <1>9, <2>1
    <2>3. Len(done) # 1 =>
            ((r.to - r.from) + N) - ((r.from - (N + 1 - at)) - (before + (at - 1)))
              \in (r.to - r.from) - (r.from - before) .. (r.to - r.from) - (r.from - before) + 2 * N
      BY <1>3, <1>8, <1>9, <2>1
    <2> QED
      BY <1>1, <1>5, <1>7, <2>2, <2>3
  <1>11. CASE w.kind \in {"time", "flops"}
    <2>1. Entry(w) = clock - BeganAt(at)
      BY <1>6, <1>11 DEF Entry
    <2> QED
      BY <1>10, <1>11, <2>1 DEF SpansOf, w, N, r
  <1>12. CASE w.kind = "papi"
    <2>1. Len(done) # 1 => Entry(w) = (clock - BeganAt(at)) - (BeganAt(at) - EndedAt(at))
      BY <1>6, <1>12 DEF Entry
    <2>2. Len(done) # 1 => Entry(w) = ((r.to - r.from) + N) - (BeganAt(at) - EndedAt(at))
      <3>1. clock - BeganAt(at) = (r.to - r.from) + N
        BY <1>10
      <3> QED
        BY <2>1, <3>1
    <2> QED
      BY <1>10, <1>12, <2>2 DEF SpansOf, w, N, r, before
  <1>13. CASE w.kind = "sync"
    <2>1. Entry(w) = r.from - (N + 1 - at)
      BY <1>5, <1>6, <1>13 DEF Entry
    <2> QED
      BY <1>10, <1>13, <2>1 DEF SpansOf, w, N, r
  <1>14. CASE w.kind = "size"
    BY <1>14 DEF SpansOf, w
  <1> QED
    BY <1>4, <1>11, <1>12, <1>13, <1>14 DEF IsWatcher, Kinds

\* The entry after() makes is for the round at hand.
LEMMA CallAfterKeeps == Kept /\ CallAfter => Kept'
  <1> SUFFICES ASSUME Kept, CallAfter PROVE Kept'
    OBVIOUS
  <1> DEFINE N    == Len(watchers)
             w    == watchers[at]
             name == Head(rounds).name
             a    == After(w, name)
  <1>1. /\ pc = "after" /\ watchers' = [watchers EXCEPT ![at] = a]
        /\ at' = at + 1 /\ clock' = clock + 1
        /\ UNCHANGED <<keys, section, done, header, rows>>
    BY DEF CallAfter, report
  <1>2. IF at = N THEN pc' = "next" /\ rounds' = Tail(rounds) ELSE pc' = "after" /\ rounds' = rounds
    BY <1>1 DEF CallAfter, NextRound
  <1>3. /\ TypeOK /\ rounds # <<>> /\ Measured(Head(rounds)) /\ at \in DOMAIN watchers
        /\ done # <<>> /\ done[Len(done)].name = name /\ clock = done[Len(done)].to + at - 1
    BY <1>1 DEF Kept, CallPlace
  <1>4. IsWatcher(w) /\ clock \in Nat
    BY <1>3 DEF TypeOK
  <1>5. /\ IsWatcher(a) /\ a.kind = w.kind /\ a.stored = w.stored /\ a.started = w.started
        /\ w.kind = "papi" => a.zero = clock
        /\ DOMAIN a.watchMap = DOMAIN w.watchMap \cup {name}
        /\ a.watchMap[name] = Append(Entries(w, name), Entry(w))
        /\ \A x \in DOMAIN w.watchMap \ {name} : a.watchMap[x] = w.watchMap[x]
        /\ Entry(w) \in Int
    BY <1>4, AfterIs
  <1>6. SpansOf(w.kind, N, done, Len(done), Entry(w))
    BY <1>1, EntrySpans
  <1> HIDE DEF a, N, name
  <1>7. /\ Len(watchers') = N /\ DOMAIN watchers' = DOMAIN watchers
        /\ DOMAIN watchers = 1 .. N /\ N \in Nat /\ at \in Nat
        /\ watchers'[at] = a /\ \A v \in DOMAIN watchers \ {at} : watchers'[v] = watchers[v]
        /\ watchers' \in Seq({watchers'[v] : v \in DOMAIN watchers'})
        /\ \A v \in DOMAIN watchers' : IsWatcher(watchers'[v])
    BY <1>1, <1>3, <1>5, WatcherChange DEF N
  <1>8. at \in 1 .. N
    BY <1>3, <1>7
  <1>9. TypeOK'
    <2>1. at' \in 1 .. Len(watchers') + 1 /\ clock' \in Nat
      BY <1>1, <1>4, <1>7, <1>8
    <2>2. rounds' \in Seq(RoundsRun) /\ pc' \in {"after", "next"}
      BY <1>2, <1>3, RoundTypes DEF TypeOK
    <2> QED
      BY <1>1, <1>3, <1>7, <2>1, <2>2 DEF TypeOK
  <1>10. CallPlace'
    <2>1. CASE at = N
      BY <1>2, <2>1 DEF CallPlace
    <2>2. CASE at # N
      <3>1. at' \in DOMAIN watchers'
        BY <1>1, <1>7, <1>8, <2>2
      <3>2. done[Len(done)].to \in Nat
        BY <1>3, LastDone
      <3>3. clock' = done'[Len(done')].to + at' - 1
        BY <1>1, <1>3, <1>8, <3>2
      <3> QED
        BY <1>1, <1>2, <1>3, <2>2, <3>1, <3>3 DEF CallPlace, name
    <2> QED
      BY <2>1, <2>2
  <1>11. Len(done) \in Nat \ {0}
    BY <1>3 DEF TypeOK
  <1>12. ASSUME NEW v \in DOMAIN watchers, v # at
         PROVE  Told(v)' = Told(v) /\ (Due(v)' <=> Due(v)) /\ (Due(v)' => pc' = "after")
    <2>1. v \in 1 .. N /\ v \in Nat
      BY <1>7
    <2>2. at' <= v <=> at <= v
      BY <1>1, <1>8, <1>12, <2>1
    <2>3. at = N => ~ (at <= v)
      BY <1>8, <1>12, <2>1
    <2>4. pc' = "after" => Told(v)' = Told(v) /\ (Due(v)' <=> Due(v))
      BY <1>1, <1>2, <2>2 DEF Told, Due
    <2>5. pc' # "after" => Told(v)' = Told(v) /\ ~ Due(v)' /\ ~ Due(v)
      BY <1>1, <1>2, <2>3 DEF Told, Due
    <2> QED
      BY <2>4, <2>5
  <1>13. Told(at) = Len(done) - 1
    BY <1>1, <1>8 DEF Told
  <1>14. ASSUME NEW v \in DOMAIN watchers, v = at
         PROVE  Told(v)' = Len(done) /\ ~ Due(v)'
    <2>1. pc' = "after" => ~ (at' <= v)
      BY <1>1, <1>8, <1>14
    <2> QED
      BY <1>1, <1>2, <2>1 DEF Told, Due
  <1>15. RecordPlace'
    <2> SUFFICES ASSUME NEW v \in DOMAIN watchers
                 PROVE  Recorded(watchers'[v].kind, N, watchers'[v].watchMap, done, Told(v)')
      BY <1>1, <1>7, RecordPlaceIs DEF RecordedAll
    <2>1. Recorded(watchers[v].kind, N, watchers[v].watchMap, done, Told(v))
      BY RecordPlaceIs DEF Kept, RecordedAll, N
    <2>2. CASE v # at
      BY <1>7, <1>12, <2>1, <2>2
    <2>3. CASE v = at
      <3> DEFINE n    == Len(done) - 1
                 list == Entries(w, name)
      <3>1. n \in Nat /\ n + 1 = Len(done)
        BY <1>11
      <3>2. Recorded(w.kind, N, w.watchMap, done, n)
        BY <1>13, <2>1, <2>3
      <3>3. list = IF name \in DOMAIN w.watchMap THEN w.watchMap[name] ELSE <<>>
        BY DEF Entries
      <3>4. SpansOf(w.kind, N, done, n + 1, Entry(w)) /\ name = done[n + 1].name
        BY <1>3, <1>6, <3>1
      <3> HIDE DEF n, list, w
      <3>5. Recorded(w.kind, N, a.watchMap, done, n + 1)
        <4>1. Extended(w.watchMap, name, Entry(w), a.watchMap) /\ Entry(w) \in Int
          BY <1>5, <3>3 DEF Extended, list
        <4> QED
          BY <3>1, <3>2, <3>4, <4>1, RecordedNext
      <3> QED
        BY <1>5, <1>7, <1>14, <2>3, <3>1, <3>5
    <2> QED
      BY <2>2, <2>3
  <1>16. StorePlace'
    <2> SUFFICES ASSUME NEW v \in DOMAIN watchers
                 PROVE  /\ watchers'[v].kind = "papi" /\ (done' # <<>> \/ Due(v)') => watchers'[v].started
                        /\ Due(v)' /\ watchers'[v].kind \in {"time", "flops", "sync"} =>
                             watchers'[v].stored = BeganAt(v)'
                        /\ watchers'[v].kind = "papi" =>
                             /\ Due(v)' => watchers'[v].zero = BeganAt(v)'
                             /\ Due(v)' /\ Told(v)' # 0 =>
                                  watchers'[v].stored = BeganAt(v)' - EndedAt(v)'
                             /\ ~ Due(v)' /\ Told(v)' # 0 => watchers'[v].zero = EndedAt(v)'
      BY <1>7 DEF StorePlace
    <2>1. CASE v = at
      <3>1. w.kind = "papi" => w.started
        BY <1>3 DEF Kept, StorePlace
      <3>2. EndedAt(v)' = clock
        <4>1. EndedAt(v)' = done[Len(done)].to + (at - 1)
          BY <1>1, <1>14, <2>1 DEF EndedAt
        <4>2. done[Len(done)].to \in Nat
          BY <1>3, LastDone
        <4> QED
          BY <1>3, <1>8, <4>1, <4>2
      <3> QED
        BY <1>5, <1>7, <1>14, <2>1, <3>1, <3>2
    <2>2. CASE v # at
      <3>1. watchers'[v] = watchers[v]
        BY <1>7, <2>2
      <3>2. pc' = "after" => BeganAt(v)' = BeganAt(v)
        BY <1>1, <1>7 DEF BeganAt, N
      <3>3. EndedAt(v)' = EndedAt(v)
        BY <1>1, <1>12, <2>2 DEF EndedAt
      <3> QED
        BY <1>1, <1>12, <2>2, <3>1, <3>2, <3>3 DEF Kept, StorePlace
    <2> QED
      BY <2>1, <2>2
  <1>17. ReportPlace'
    BY <1>1, <1>2 DEF Kept, ReportPlace
  <1> QED
    BY <1>9, <1>10, <1>15, <1>16, <1>17 DEF Kept

\* The report changes no watcher.
LEMMA ReportKeeps == Kept /\ Report => Kept'
  <1> SUFFICES ASSUME Kept, Report PROVE Kept'
    OBVIOUS
  <1>1. /\ pc = "next" /\ pc' = "reported" /\ header' = Headers /\ rows' = Summary
        /\ UNCHANGED <<keys, section, watchers, rounds, at, clock, done>>
    BY DEF Report, coreVars
  <1>2. TypeOK'
    BY <1>1 DEF Kept, TypeOK
  <1>3. CallPlace'
    BY <1>1 DEF CallPlace
  <1>4. RecordPlace'
    BY <1>1, SameRecord DEF Kept, Told
  <1>5. StorePlace'
    BY <1>1 DEF Kept, StorePlace, Due, Told, EndedAt
  <1>6. ReportPlace'
    <2>1. Headers' = Headers /\ Summary' = Summary
      BY <1>1 DEF Headers, Summary, Row, SizeOf
    <2> QED
      BY <1>1, <2>1 DEF ReportPlace
  <1> QED
    BY <1>2, <1>3, <1>4, <1>5, <1>6 DEF Kept

\* Every step keeps it.
LEMMA KeptStep == Kept /\ [Next]_vars => Kept'
  <1> SUFFICES ASSUME Kept, [Next]_vars PROVE Kept'
    OBVIOUS
  <1>1. CASE SkipKey    BY <1>1, SkipKeyKeeps
  <1>2. CASE AddWatcher BY <1>2, AddWatcherKeeps
  <1>3. CASE FailKey    BY <1>3, FailKeyKeeps
  <1>4. CASE Attached   BY <1>4, AttachedKeeps
  <1>5. CASE StartRound BY <1>5, StartRoundKeeps
  <1>6. CASE CallBefore BY <1>6, CallBeforeKeeps
  <1>7. CASE RunKernel  BY <1>7, RunKernelKeeps
  <1>8. CASE CallAfter  BY <1>8, CallAfterKeeps
  <1>9. CASE Report     BY <1>9, ReportKeeps
  <1>10. CASE UNCHANGED vars
    <2>1. UNCHANGED <<keys, section, watchers, rounds, pc, at, clock, done, header, rows>>
      BY <1>10 DEF vars
    <2>2. TypeOK'
      BY <2>1 DEF Kept, TypeOK
    <2> QED
      BY <2>1, <2>2, SameElse
  <1> QED
    BY <1>1, <1>2, <1>3, <1>4, <1>5, <1>6, <1>7, <1>8, <1>9, <1>10 DEF Next

\* The inductive invariant: what the watchers have stored and recorded at each
\* call, for any scenario, any watchers section and kernels of any length.
THEOREM WatchersInvariant == Spec => []Kept
  BY KeptAtStart, KeptStep, PTL DEF Spec

\* What main attaches are watchers it knows, with no more counters than there is
\* room for.
THEOREM TypeCorrect == Spec => []TypeOK
  <1>1. Kept => TypeOK
    BY DEF Kept
  <1> QED
    BY <1>1, WatchersInvariant, PTL

-------------------------------------------------------------------------------
(* What the entries are of. *)

\* Rounds counted are those done.
LEMMA TimesIs ==
  /\ \A name, n : TimesWithin(name, n) = Count(done, name, n)
  /\ \A name : Times(name) = Count(done, name, Len(done))
  BY DEF Times, TimesWithin, Count

\* Each entry is for a round that was.
LEMMA KeptSpans == Kept => EntriesSpan
  <1> SUFFICES ASSUME Kept, NEW w \in DOMAIN watchers
               PROVE  LET map == watchers[w].watchMap IN
                      /\ \A name \in DOMAIN map : Len(map[name]) <= Times(name)
                      /\ \A j \in DOMAIN done :
                           LET name == done[j].name
                               i    == TimesWithin(name, j)
                           IN name \in DOMAIN map /\ i \in DOMAIN map[name] => Spans(w, map[name][i], j)
    BY DEF EntriesSpan
  <1> DEFINE map == watchers[w].watchMap
             n   == Told(w)
  <1>1. /\ \A name \in DOMAIN map : map[name] \in Seq(Int) /\ Len(map[name]) = TimesWithin(name, n)
        /\ \A j \in 1 .. n : Spans(w, map[done[j].name][TimesWithin(done[j].name, j)], j)
    BY DEF Kept, RecordPlace
  <1>2. Len(done) \in Nat /\ DOMAIN done = 1 .. Len(done)
    BY DEF Kept, TypeOK
  <1>3. /\ n \in 0 .. Len(done) /\ (n = Len(done) \/ Len(done) = n + 1)
        /\ n \in Int /\ Len(done) \in Int
    <2>1. pc = "after" => Len(done) \in Nat \ {0}
      BY LastDone DEF Kept, CallPlace
    <2> QED
      BY <1>2, <2>1 DEF Told
  <1> HIDE DEF map, n
  <1>4. ASSUME NEW name \in DOMAIN map PROVE Len(map[name]) <= Times(name)
    <2>1. Len(map[name]) = Count(done, name, n) /\ Times(name) = Count(done, name, Len(done))
      BY <1>1, TimesIs
    <2>2. Count(done, name, n) <= Count(done, name, Len(done))
      BY <1>2, <1>3, CountWithin
    <2> QED
      BY <2>1, <2>2
  <1>5. ASSUME NEW j \in DOMAIN done, done[j].name \in DOMAIN map,
               TimesWithin(done[j].name, j) \in DOMAIN map[done[j].name]
        PROVE  Spans(w, map[done[j].name][TimesWithin(done[j].name, j)], j)
    <2>1. CASE j \in 1 .. n
      BY <1>1, <2>1
    <2>2. CASE j \notin 1 .. n
      <3> DEFINE name == done[j].name
      <3>1. n \in Nat /\ j = n + 1
        <4>1. j \in 1 .. Len(done)
          BY <1>2
        <4>2. \A a, b, c \in Int : a \in 1 .. b /\ a \notin 1 .. c /\ (c = b \/ b = c + 1) => a = c + 1
          OBVIOUS
        <4> QED
          BY <1>3, <2>2, <4>1, <4>2
      <3>2. TimesWithin(name, n) \in Nat /\ TimesWithin(name, j) = TimesWithin(name, n) + 1
        <4>1. Count(done, name, n) \in 0 .. n
              /\ Count(done, name, n + 1) = Count(done, name, n) + (IF done[n + 1].name = name THEN 1 ELSE 0)
          BY <3>1, CountNext
        <4>2. Count(done, name, j) = Count(done, name, n) + 1 /\ Count(done, name, n) \in Nat
          BY <3>1, <4>1
        <4> HIDE DEF name
        <4> QED
          BY <4>2, TimesIs
      <3>3. TimesWithin(name, j) \in 1 .. TimesWithin(name, n)
        BY <1>1, <1>5
      <3> QED
        BY <3>2, <3>3
    <2> QED
      BY <2>1, <2>2
  <1> QED
    BY <1>4, <1>5 DEF map

\* Every entry of every watcher is for its own round: a time measures that and
\* nothing but it, and a counter's entry is by just the gap before it less.
THEOREM EntriesAreSpans == Spec => []EntriesSpan
  BY KeptSpans, WatchersInvariant, PTL

-------------------------------------------------------------------------------
(* What the report has. *)

\* At the report each watcher has an entry for each round, under its name.
LEMMA AllTold ==
  ASSUME Kept, pc = "reported", NEW w \in DOMAIN watchers
  PROVE  /\ DOMAIN watchers[w].watchMap = Seen
         /\ \A name \in Seen : Len(Entries(watchers[w], name)) = Times(name)
         /\ IsFiniteSet(Seen) /\ Seen \subseteq Names
         /\ \A name : Times(name) \in Nat
         /\ \A name \in Seen : Times(name) # 0
  <1>1. /\ done \in Seq([name : Names, from : Nat, to : Nat])
        /\ Len(done) \in Nat /\ DOMAIN done = 1 .. Len(done)
    BY DEF Kept, TypeOK
  <1>2. Told(w) = Len(done)
    BY DEF Told
  <1>3. Seen = {done[j].name : j \in 1 .. Len(done)}
    BY <1>1 DEF Seen
  <1>4. /\ DOMAIN watchers[w].watchMap = Seen
        /\ \A name \in Seen : Len(watchers[w].watchMap[name]) = Times(name)
    BY <1>2, <1>3 DEF Kept, RecordPlace, Times
  <1>5. \A name \in Seen : Len(Entries(watchers[w], name)) = Times(name)
    BY <1>4 DEF Entries
  <1>6. IsFiniteSet(Seen) /\ Seen \subseteq Names
    <2>1. \A T : \A q \in Seq(T) : \A j \in 1 .. Len(q) : q[j] \in T
      OBVIOUS
    <2>2. \A j \in 1 .. Len(done) : done[j] \in [name : Names, from : Nat, to : Nat]
      BY <1>1, <2>1
    <2>3. IsFiniteSet(Seen)
      BY <1>1, <1>3, SeenFinite
    <2> QED
      BY <1>3, <2>2, <2>3
  <1>7. \A name : Times(name) \in Nat
    <2>1. \A name : Count(done, name, Len(done)) \in 0 .. Len(done)
      BY <1>1, CountNext
    <2> QED
      BY <1>1, <2>1, TimesIs
  <1>8. ASSUME NEW name \in Seen PROVE Times(name) # 0
    <2>1. PICK j \in 1 .. Len(done) : done[j].name = name
      BY <1>3
    <2>2. /\ Count(done, name, j) \in Nat /\ Count(done, name, Len(done)) \in Nat
          /\ Count(done, name, j) <= Count(done, name, Len(done)) /\ Count(done, name, j) >= 1
      <3>1. j \in 0 .. Len(done) /\ j # 0
        BY <1>1
      <3> QED
        BY <1>1, <2>1, <3>1, CountWithin
    <2>3. Times(name) = Count(done, name, Len(done))
      BY TimesIs
    <2> QED
      BY <2>2, <2>3
  <1> QED
    BY <1>4, <1>5, <1>6, <1>7, <1>8

\* The report has a block for each watched name, and in each block as many lines
\* as the first of all names ran times.
LEMMA ReportRows ==
  ASSUME Kept, pc = "reported", watchers # <<>>
  PROVE  LET names == InOrder(Reported)
             size  == SizeOf(watchers[1])
         IN /\ DOMAIN rows = DOMAIN names /\ size \in Nat
            /\ \A n \in DOMAIN names :
                 /\ names[n] \in Reported /\ rows[n] = [i \in 1 .. size |-> Row(names[n], i)]
                 /\ size = Times(First)
            /\ \A x \in Reported : \E n \in DOMAIN names : names[n] = x
  <1> DEFINE names == InOrder(Reported)
             size  == SizeOf(watchers[1])
  <1>1. 1 \in DOMAIN watchers
    BY DEF Kept, TypeOK
  <1>2. /\ DOMAIN watchers[1].watchMap = Seen /\ IsFiniteSet(Seen) /\ Seen \subseteq Names
        /\ \A name \in Seen : Len(Entries(watchers[1], name)) = Times(name)
        /\ \A name : Times(name) \in Nat
    BY <1>1, AllTold
  <1>3. IsFiniteSet(Reported) /\ Reported \subseteq Names /\ Reported \subseteq Seen
    BY <1>2, FS_Subset DEF Reported
  <1>4. /\ \A n \in DOMAIN names : names[n] \in Reported
        /\ \A x \in Reported : \E n \in DOMAIN names : names[n] = x
    BY <1>3, InOrderIs
  <1>5. KeysOf(watchers[1]) = names
    BY <1>2 DEF KeysOf, Reported
  <1>6. IF Seen = {} THEN size = 0 ELSE First \in Seen /\ size = Times(First)
    <2>1. /\ DOMAIN InOrder(Seen) = 1 .. Len(InOrder(Seen)) /\ InOrder(Seen) \in Seq(Seen)
          /\ \A k \in DOMAIN InOrder(Seen) : InOrder(Seen)[k] \in Seen
          /\ InOrder(Seen) = <<>> <=> Seen = {}
      BY <1>2, InOrderIs
    <2>2. CASE Seen = {}
      BY <1>2, <2>1, <2>2 DEF SizeOf
    <2>3. CASE Seen # {}
      <3>1. InOrder(Seen) # <<>>
        BY <2>1, <2>3
      <3>2. 1 \in DOMAIN InOrder(Seen)
        BY <2>1, <3>1
      <3>3. First \in Seen
        BY <2>1, <3>2 DEF First
      <3>4. Entries(watchers[1], First) = watchers[1].watchMap[First]
        BY <1>2, <3>3 DEF Entries
      <3>5. size = Len(watchers[1].watchMap[First])
        BY <1>2, <3>1 DEF SizeOf, First
      <3> QED
        BY <1>2, <2>3, <3>3, <3>4, <3>5
    <2> QED
      BY <2>2, <2>3
  <1>7. rows = [n \in DOMAIN names |-> [i \in 1 .. size |-> Row(names[n], i)]]
    BY <1>5 DEF Kept, ReportPlace, Summary
  <1>8. size \in Nat /\ (Reported # {} => size = Times(First))
    BY <1>2, <1>3, <1>6
  <1> HIDE DEF names, size
  <1> QED
    BY <1>4, <1>7, <1>8 DEF names, size

\* It is whole when every watched name ran as often as the first of all.
LEMMA KeptWhole == Kept => ReportWhole
  <1> SUFFICES ASSUME Kept, pc = "reported", watchers # <<>>
               PROVE  LET names   == InOrder(Reported)
                          printed == [n \in DOMAIN rows |->
                                        [i \in DOMAIN rows[n] |-> <<rows[n][i].name, rows[n][i].number>>]]
                          whole   == [n \in DOMAIN names |->
                                        [i \in 1 .. Times(names[n]) |-> <<names[n], i>>]]
                      IN printed = whole <=> \A name \in Reported : Times(name) = Times(First)
    BY DEF ReportWhole
  <1> DEFINE names   == InOrder(Reported)
             size    == SizeOf(watchers[1])
             printed == [n \in DOMAIN rows |->
                           [i \in DOMAIN rows[n] |-> <<rows[n][i].name, rows[n][i].number>>]]
             whole   == [n \in DOMAIN names |-> [i \in 1 .. Times(names[n]) |-> <<names[n], i>>]]
             block(n, k) == [i \in 1 .. k |-> <<names[n], i>>]
  <1>1. /\ DOMAIN rows = DOMAIN names /\ size \in Nat
        /\ \A n \in DOMAIN names :
             /\ names[n] \in Reported /\ rows[n] = [i \in 1 .. size |-> Row(names[n], i)]
             /\ size = Times(First)
        /\ \A x \in Reported : \E n \in DOMAIN names : names[n] = x
    BY ReportRows
  <1>2. \A name : Times(name) \in Nat
    <2>1. 1 \in DOMAIN watchers
      BY DEF Kept, TypeOK
    <2> QED
      BY <2>1, AllTold
  <1> HIDE DEF names, size
  <1>3. ASSUME NEW n \in DOMAIN names
        PROVE  printed[n] = block(n, size) /\ whole[n] = block(n, Times(names[n]))
    BY <1>1 DEF Row
  <1>4. DOMAIN printed = DOMAIN names /\ DOMAIN whole = DOMAIN names
    BY <1>1
  <1>5. printed = whole <=> \A n \in DOMAIN names : printed[n] = whole[n]
    BY <1>1
  <1>6. ASSUME NEW n, NEW k \in Nat, NEW l \in Nat
        PROVE  block(n, k) = block(n, l) <=> k = l
    <2>1. block(n, k) = block(n, l) => 1 .. k = 1 .. l
      <3>1. DOMAIN block(n, k) = 1 .. k /\ DOMAIN block(n, l) = 1 .. l
        OBVIOUS
      <3> HIDE DEF block
      <3> QED
        BY <3>1
    <2>2. 1 .. k = 1 .. l => k = l
      OBVIOUS
    <2> HIDE DEF block
    <2> QED
      BY <2>1, <2>2
  <1> HIDE DEF printed, whole, block
  <1>7. printed = whole <=> \A n \in DOMAIN names : size = Times(names[n])
    BY <1>1, <1>2, <1>3, <1>5, <1>6
  <1>8. (\A n \in DOMAIN names : size = Times(names[n]))
          <=> \A name \in Reported : Times(name) = Times(First)
    BY <1>1
  <1> QED
    BY <1>7, <1>8 DEF printed, whole, names

\* For any scenario the report has each round of each watched name once, in order,
\* if and only if these names ran as often as the first of all.
THEOREM ReportIsWhole == Spec => []ReportWhole
  BY KeptWhole, WatchersInvariant, PTL

\* A line for a round that was not is past the end of every list.
LEMMA KeptPastEnd == Kept => PastEndOnly
  <1> SUFFICES ASSUME Kept, pc = "reported", watchers # <<>>
               PROVE  (\E n \in DOMAIN rows : \E i \in DOMAIN rows[n] : rows[n][i].pastEnd)
                        <=> \E name \in Reported : Times(name) < Times(First)
    BY DEF PastEndOnly
  <1> DEFINE names == InOrder(Reported)
             size  == SizeOf(watchers[1])
  <1>1. /\ DOMAIN rows = DOMAIN names /\ size \in Nat
        /\ \A n \in DOMAIN names :
             /\ names[n] \in Reported /\ rows[n] = [i \in 1 .. size |-> Row(names[n], i)]
             /\ size = Times(First)
        /\ \A x \in Reported : \E n \in DOMAIN names : names[n] = x
    BY ReportRows
  <1>2. 1 \in DOMAIN watchers
    BY DEF Kept, TypeOK
  <1>3. /\ \A name : Times(name) \in Nat
        /\ \A w \in DOMAIN watchers : \A name \in Seen : Len(Entries(watchers[w], name)) = Times(name)
    BY <1>2, AllTold
  <1> HIDE DEF names, size
  <1>4. ASSUME NEW n \in DOMAIN names, NEW i \in 1 .. size
        PROVE  rows[n][i].pastEnd <=> i > Times(names[n])
    <2>1. rows[n][i].pastEnd <=> \E w \in DOMAIN watchers : i > Len(Entries(watchers[w], names[n]))
      BY <1>1 DEF Row
    <2>2. names[n] \in Seen
      BY <1>1 DEF Reported
    <2> QED
      BY <1>2, <1>3, <2>1, <2>2
  <1>5. \A n \in DOMAIN names : DOMAIN rows[n] = 1 .. size
    BY <1>1
  <1>6. ASSUME NEW n \in DOMAIN rows, NEW i \in DOMAIN rows[n], rows[n][i].pastEnd
        PROVE  \E name \in Reported : Times(name) < Times(First)
    <2>1. n \in DOMAIN names /\ i \in 1 .. size
      BY <1>1, <1>5
    <2>2. i > Times(names[n]) /\ names[n] \in Reported /\ size = Times(First)
      BY <1>1, <1>4, <1>6, <2>1
    <2>3. Times(names[n]) < Times(First)
      BY <1>1, <1>3, <2>1, <2>2
    <2> QED
      BY <2>2, <2>3
  <1>7. ASSUME NEW name \in Reported, Times(name) < Times(First)
        PROVE  \E n \in DOMAIN rows : \E i \in DOMAIN rows[n] : rows[n][i].pastEnd
    <2>1. PICK n \in DOMAIN names : names[n] = name
      BY <1>1
    <2>2. size = Times(First)
      BY <1>1
    <2>3. size \in 1 .. size /\ size > Times(names[n])
      BY <1>1, <1>3, <1>7, <2>1, <2>2
    <2>4. rows[n][size].pastEnd
      BY <1>4, <2>3
    <2> QED
      BY <1>1, <1>5, <2>3, <2>4
  <1> QED
    BY <1>6, <1>7

\* For any scenario the report reads past the end of a list if and only if a
\* watched name ran less often than the first of all.
THEOREM PastTheEnd == Spec => []PastEndOnly
  BY KeptPastEnd, WatchersInvariant, PTL

\* A watcher has a value for each column that has a name.
LEMMA ColumnsFit ==
  ASSUME NEW w, IsWatcher(w), NEW name, NEW i
  PROVE  Len(DataEntry(w, name, i)) =
           Cardinality({c \in DOMAIN DataHeader(w) : DataHeader(w)[c] # ""})
  <1> DEFINE columns == {c \in DOMAIN DataHeader(w) : DataHeader(w)[c] # ""}
  <1>1. CASE w.kind = "papi"
    <2> DEFINE n == Len(w.arg)
    <2>1. n \in Nat /\ n <= 4
      <3>1. n \in 0 .. MAX_EVENTS
        BY <1>1 DEF IsWatcher
      <3> HIDE DEF n
      <3> QED
        BY <3>1 DEF MAX_EVENTS
    <2>0. \A c \in 1 .. n : w.arg[c] # ""
      <3>1. \A c \in 1 .. n : w.arg[c] \in Counters
        BY <1>1 DEF IsWatcher
      <3> QED
        BY <3>1, ValuesAssumption
    <2>2. Len(DataEntry(w, name, i)) = n
      <3> DEFINE entry == IF i <= Len(w.watchMap[name]) THEN w.watchMap[name][i] ELSE "past the end"
      <3>1. DataEntry(w, name, i) = [e \in 1 .. n |-> entry]
        BY <1>1 DEF DataEntry
      <3> HIDE DEF entry, n
      <3>2. DataEntry(w, name, i) \in [1 .. n -> {entry}] /\ n \in Nat
        BY <2>1, <3>1
      <3>3. \A T : \A k \in Nat : \A f \in [1 .. k -> T] : Len(f) = k
        OBVIOUS
      <3> QED
        BY <3>2, <3>3
    <2>3. DataHeader(w) = [c \in 1 .. 4 |-> IF c <= n THEN w.arg[c] ELSE ""]
      BY <1>1 DEF DataHeader, MAX_EVENTS
    <2> HIDE DEF n
    <2>4. columns = 1 .. n
      <3>1. DOMAIN DataHeader(w) = 1 .. 4
        BY <2>3
      <3>2. \A c \in 1 .. 4 : DataHeader(w)[c] # "" <=> c <= n
        <4>1. \A c \in 1 .. 4 : DataHeader(w)[c] = IF c <= n THEN w.arg[c] ELSE ""
          BY <2>3
        <4>2. \A c \in 1 .. 4 : c <= n => c \in 1 .. n
          BY <2>1
        <4> QED
          BY <2>0, <4>1, <4>2
      <3>3. \A c : c \in 1 .. n <=> c \in 1 .. 4 /\ c <= n
        BY <2>1
      <3> QED
        BY <2>1, <3>1, <3>2, <3>3
    <2>5. Cardinality(1 .. n) = n
      <3>1. n - 1 + 1 = n /\ (1 > n => n = 0)
        BY <2>1
      <3> QED
        BY <2>1, <3>1, FS_Interval
    <2> HIDE DEF columns
    <2> QED
      BY <2>2, <2>4, <2>5 DEF columns
  <1>2. CASE w.kind # "papi"
    <2>1. Len(DataEntry(w, name, i)) = 1
      BY <1>2 DEF DataEntry
    <2>2. \E x \in {"gflops", "size", "cycle-sync", "time-ms"} : DataHeader(w) = <<x>>
      BY <1>2 DEF DataHeader, IsWatcher, Kinds
    <2>3. columns = {1}
      <3>1. PICK x \in {"gflops", "size", "cycle-sync", "time-ms"} : DataHeader(w) = <<x>>
        BY <2>2
      <3>2. DOMAIN DataHeader(w) = {1} /\ DataHeader(w)[1] = x
        BY <3>1
      <3>3. x # ""
        OBVIOUS
      <3> QED
        BY <3>2, <3>3
    <2> HIDE DEF columns
    <2> QED
      BY <2>1, <2>3, FS_Singleton DEF columns
  <1> QED
    BY <1>1, <1>2

\* There are lines only where there is a report.
LEMMA KeptHeader == Kept => HeaderFits
  <1> SUFFICES ASSUME Kept, NEW n \in DOMAIN rows, NEW i \in DOMAIN rows[n]
               PROVE  /\ DOMAIN rows[n][i].values = DOMAIN header
                      /\ \A w \in DOMAIN header :
                           Len(rows[n][i].values[w]) =
                             Cardinality({c \in DOMAIN header[w] : header[w][c] # ""})
    BY DEF HeaderFits
  <1>1. pc = "reported" /\ header = Headers /\ watchers # <<>>
    BY DEF Kept, ReportPlace, Summary
  <1>2. PICK name : rows[n][i] = Row(name, i)
    BY <1>1, ReportRows
  <1>3. /\ rows[n][i].values = [w \in DOMAIN watchers |-> DataEntry(watchers[w], name, i)]
        /\ header = [w \in DOMAIN watchers |-> DataHeader(watchers[w])]
    BY <1>1, <1>2 DEF Row, Headers
  <1>4. \A w \in DOMAIN watchers : IsWatcher(watchers[w])
    BY DEF Kept, TypeOK
  <1>5. DOMAIN rows[n][i].values = DOMAIN header /\ DOMAIN header = DOMAIN watchers
    BY <1>3
  <1>6. ASSUME NEW w \in DOMAIN watchers
        PROVE  Len(rows[n][i].values[w]) = Cardinality({c \in DOMAIN header[w] : header[w][c] # ""})
    <2>1. rows[n][i].values[w] = DataEntry(watchers[w], name, i) /\ header[w] = DataHeader(watchers[w])
      BY <1>3
    <2>2. Len(DataEntry(watchers[w], name, i)) =
            Cardinality({c \in DOMAIN DataHeader(watchers[w]) : DataHeader(watchers[w])[c] # ""})
      BY <1>4, ColumnsFit
    <2> QED
      BY <2>1, <2>2
  <1> QED
    BY <1>5, <1>6

\* For any watchers and counters, a line has a value for each named column.
THEOREM HeaderMatches == Spec => []HeaderFits
  BY KeptHeader, WatchersInvariant, PTL

===============================================================================
