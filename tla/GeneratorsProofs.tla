--------------------------- MODULE GeneratorsProofs ---------------------------
(***************************************************************************)
(* The scenarios of the generators are balanced, and their programs are    *)
(* ordered by the meetings, for any number of cores.                       *)
(*                                                                         *)
(* A scenario is in stages when its actions can be numbered such that each *)
(* core has one sync action in each stage, first of all its actions of     *)
(* that stage (Staged).  Which actions may run at once is then known from  *)
(* the numbers, and it is enough to number the actions of each script.     *)
(***************************************************************************)
EXTENDS Generators, ArraysProofs

-------------------------------------------------------------------------------
(* Scenarios in stages: which actions come between which meetings, by the  *)
(* action list alone.                                                      *)

\* Action i is for core t, and makes it meet the others.
SyncFor(s, t, i) == t \in Targets(s, s[i]) /\ TaskOf(s[i]).sync

\* The actions can be numbered with stages.  The sync actions of a core have the
\* stages 1 to top, each once, and any action for the core comes after just
\* those whose stages are not above its own.
Staged(s, stage, top) ==
  /\ \A i \in DOMAIN s : stage[i] \in 0 .. top /\ (TaskOf(s[i]).sync => stage[i] # 0)
  /\ \A t \in CoresOf(s) : \A r \in 1 .. top : \E i \in DOMAIN s : SyncFor(s, t, i) /\ stage[i] = r
  /\ \A i, j \in DOMAIN s : \A t \in Targets(s, s[i]) :
       SyncFor(s, t, j) => (j <= i <=> stage[j] <= stage[i])

\* No action writes what another uses on another core in its stage.
StagedApart(s, stage) ==
  \A i, j \in DOMAIN s : \A t \in Targets(s, s[i]), u \in Targets(s, s[j]) :
    t # u /\ stage[i] = stage[j] => Writes(TaskOf(s[i])) \cap Uses(TaskOf(s[j])) = {}

\* What an action uses is filled in an earlier stage, or earlier by its own core.
StagedSupplied(s, stage) ==
  \A j \in DOMAIN s : \A u \in Targets(s, s[j]) :
    \A a \in Uses(TaskOf(s[j])) \ Renews(TaskOf(s[j])) :
      \E i \in DOMAIN s : \E t \in Targets(s, s[i]) :
        a \in Renews(TaskOf(s[i])) /\ (stage[i] < stage[j] \/ (t = u /\ i < j))

InStages(s, stage, top) ==
  Staged(s, stage, top) /\ StagedApart(s, stage) /\ StagedSupplied(s, stage)

\* The programs of the cores of a scenario.
Programs(s) == [t \in CoresOf(s) |-> Program(s, t)]

\* A finite set that can be numbered from 1 to b has b elements.
LEMMA NumberedCount ==
  ASSUME NEW S, NEW f, NEW b \in Nat, IsFiniteSet(S),
         \A j \in S : f[j] \in 1 .. b,
         \A i, j \in S : f[i] = f[j] => i = j,
         \A r \in 1 .. b : \E j \in S : f[j] = r
  PROVE  Cardinality(S) = b
  <1> DEFINE g == [j \in S |-> f[j]]
  <1>1. g \in [S -> 1 .. b] /\ \A j \in S : g[j] = f[j]
    OBVIOUS
  <1> HIDE DEF g
  <1>2. g \in Bijection(S, 1 .. b)
    BY <1>1 DEF Bijection, Injection, Surjection, IsInjective
  <1>3. Cardinality(1 .. b) = b
    BY FS_Interval
  <1> QED
    BY <1>2, <1>3, FS_Bijection DEF ExistsBijection

\* An action is for cores that the scenario has.
LEMMA TargetsAreCores ==
  ASSUME NEW s, NEW i \in DOMAIN s PROVE Targets(s, s[i]) \subseteq CoresOf(s)
  BY DEF Targets, CoresOf, IsKnown

\* The stage of an action is the number of sync tasks that precede or are it.
LEMMA StagedMeets ==
  ASSUME NEW s \in Scenarios, NEW stage, NEW top \in Nat, Staged(s, stage, top),
         NEW t \in CoresOf(s)
  PROVE  /\ \A i \in 1 .. Len(s) : t \in Targets(s, s[i]) => Meets(s, t, i) = stage[i]
         /\ Meets(s, t, Len(s)) = top
  <1> DEFINE S(n) == {j \in 1 .. n : SyncFor(s, t, j)}
  <1>1. DOMAIN s = 1 .. Len(s) /\ Len(s) \in Nat
    BY ScenarioIsSeq
  <1>2. \A n \in Nat : IsFiniteSet(S(n)) /\ Meets(s, t, n) = Cardinality(S(n))
    <2> TAKE n \in Nat
    <2>1. S(n) \in SUBSET (1 .. n) /\ IsFiniteSet(1 .. n)
      BY FS_Interval
    <2> QED
      BY <2>1, FS_Subset DEF Meets, SyncFor
  <1>3. \A n \in 0 .. Len(s) : \A j \in S(n) :
          j \in DOMAIN s /\ j <= n /\ SyncFor(s, t, j) /\ stage[j] \in 1 .. top
    <2> TAKE n \in 0 .. Len(s)
    <2> TAKE j \in S(n)
    <2>1. j \in DOMAIN s /\ j <= n /\ SyncFor(s, t, j)
      BY <1>1
    <2>2. stage[j] \in 0 .. top /\ stage[j] # 0
      BY <2>1 DEF Staged, SyncFor
    <2> QED
      BY <2>1, <2>2
  <1>4. \A n \in 0 .. Len(s) : \A i, j \in S(n) : stage[i] = stage[j] => i = j
    <2> TAKE n \in 0 .. Len(s)
    <2> TAKE i, j \in S(n)
    <2> HAVE stage[i] = stage[j]
    <2>1. i \in DOMAIN s /\ j \in DOMAIN s /\ SyncFor(s, t, i) /\ SyncFor(s, t, j)
          /\ stage[i] \in 1 .. top /\ stage[j] \in 1 .. top
      BY <1>3
    <2>2. t \in Targets(s, s[i]) /\ t \in Targets(s, s[j])
      BY <2>1 DEF SyncFor
    <2>3. j <= i /\ i <= j
      BY <2>1, <2>2 DEF Staged
    <2> QED
      BY <1>1, <2>1, <2>3
  <1>5. \A r \in 1 .. top : \E j \in S(Len(s)) : stage[j] = r
    BY <1>1 DEF Staged
  <1>6. Meets(s, t, Len(s)) = top
    <2> DEFINE X == S(Len(s))
    <2>1. IsFiniteSet(X) /\ Meets(s, t, Len(s)) = Cardinality(X) /\ Len(s) \in 0 .. Len(s)
      BY <1>1, <1>2
    <2>2. \A j \in X : stage[j] \in 1 .. top
      BY <1>3, <2>1
    <2>3. \A i, j \in X : stage[i] = stage[j] => i = j
      BY <1>4, <2>1
    <2>4. \A r \in 1 .. top : \E j \in X : stage[j] = r
      BY <1>5
    <2> HIDE DEF X
    <2> QED
      BY <2>1, <2>2, <2>3, <2>4, NumberedCount
  <1>7. ASSUME NEW i \in 1 .. Len(s), t \in Targets(s, s[i]) PROVE Meets(s, t, i) = stage[i]
    <2> DEFINE X == S(i) b == stage[i]
    <2>1. i \in DOMAIN s /\ i \in Nat /\ i \in 0 .. Len(s) /\ b \in 0 .. top
      BY <1>1 DEF Staged
    <2>2. IsFiniteSet(X) /\ Meets(s, t, i) = Cardinality(X) /\ b \in Nat
      BY <1>2, <2>1
    <2>3. \A j \in X : stage[j] \in 1 .. b
      <3> TAKE j \in X
      <3>1. j \in DOMAIN s /\ j <= i /\ SyncFor(s, t, j) /\ stage[j] \in 1 .. top
        BY <1>3, <2>1
      <3>2. stage[j] <= stage[i]
        BY <1>7, <2>1, <3>1 DEF Staged
      <3> QED
        BY <2>1, <3>1, <3>2
    <2>4. \A j, k \in X : stage[j] = stage[k] => j = k
      BY <1>4, <2>1
    <2>5. \A r \in 1 .. b : \E j \in X : stage[j] = r
      <3> TAKE r \in 1 .. b
      <3>1. r \in 1 .. top
        BY <2>1
      <3>2. PICK j \in DOMAIN s : SyncFor(s, t, j) /\ stage[j] = r
        BY <3>1 DEF Staged
      <3>3. stage[j] <= stage[i]
        BY <2>1, <3>2
      <3>4. j <= i
        BY <1>7, <2>1, <3>2, <3>3 DEF Staged
      <3> QED
        BY <1>1, <2>1, <3>2, <3>4
    <2> HIDE DEF X, b
    <2>6. Cardinality(X) = b
      BY <2>2, <2>3, <2>4, <2>5, NumberedCount
    <2> QED
      BY <2>2, <2>6 DEF b
  <1> QED
    BY <1>6, <1>7

\* Where the tasks of a program are, and after how many meetings.
LEMMA StagedPrograms ==
  ASSUME NEW s \in Scenarios, NEW stage, NEW top \in Nat, Runnable(s), Staged(s, stage, top),
         NEW t \in CoresOf(s), NEW P, P = Program(s, t)
  PROVE  /\ DOMAIN P = 1 .. Len(P) /\ Len(P) \in Nat \ {0} /\ P[1] = StartSync
         /\ SyncsOf(P) = 1 + top
         /\ \A i \in DOMAIN s : t \in Targets(s, s[i]) =>
              /\ PlaceOf(s, t, i) \in DOMAIN P /\ P[PlaceOf(s, t, i)] = TaskOf(s[i])
              /\ SyncsWithin(P, PlaceOf(s, t, i)) = 1 + stage[i]
         /\ \A k \in DOMAIN P : k # 1 =>
              \E i \in DOMAIN s : t \in Targets(s, s[i]) /\ PlaceOf(s, t, i) = k
  <1>1. P = TasksUpTo(s, t, Len(s)) /\ Len(s) \in 0 .. Len(s) /\ Len(s) \in Nat
        /\ DOMAIN s = 1 .. Len(s)
    BY RunnableReached, ScenarioIsSeq DEF Program
  <1>2. DOMAIN P = 1 .. Len(P) /\ Len(P) \in Nat \ {0} /\ P[1] = StartSync
    BY <1>1, TasksSeq
  <1>3. SyncsOf(P) = 1 + top
    BY <1>1, SyncsUpTo, StagedMeets
  <1>4. ASSUME NEW i \in DOMAIN s, t \in Targets(s, s[i])
        PROVE  /\ PlaceOf(s, t, i) \in DOMAIN P /\ P[PlaceOf(s, t, i)] = TaskOf(s[i])
               /\ SyncsWithin(P, PlaceOf(s, t, i)) = 1 + stage[i]
    <2>1. i \in 1 .. Len(s)
      BY <1>1
    <2>2. Meets(s, t, i) = stage[i]
      BY <1>4, <2>1, StagedMeets
    <2>3. /\ PlaceOf(s, t, i) \in 2 .. Len(P) /\ P[PlaceOf(s, t, i)] = TaskOf(s[i])
          /\ SyncsWithin(P, PlaceOf(s, t, i)) = 1 + Meets(s, t, i)
      BY <1>1, <1>4, <2>1, TaskAt
    <2> QED
      BY <1>2, <2>2, <2>3
  <1>5. ASSUME NEW k \in DOMAIN P, k # 1
        PROVE  \E i \in DOMAIN s : t \in Targets(s, s[i]) /\ PlaceOf(s, t, i) = k
    <2>1. k \in 2 .. Len(P)
      BY <1>2, <1>5
    <2> QED
      BY <1>1, <2>1, TaskFrom
  <1> QED
    BY <1>2, <1>3, <1>4, <1>5

\* The arguments the kernels write.
LEMMA WrittenArgIs ==
  /\ DOMAIN WrittenArg = FirstWritten \cup {"dtrsm", "dsyrk", "dgemm", "naive_dgemm"}
  /\ \A k \in FirstWritten : WrittenArg[k] = 1
  /\ WrittenArg["dtrsm"] = 2 /\ WrittenArg["dsyrk"] = 2
  /\ WrittenArg["dgemm"] = 3 /\ WrittenArg["naive_dgemm"] = 3
  /\ "dummy" \notin DOMAIN WrittenArg
  BY DEF WrittenArg, FirstWritten, InitKernels

\* A scenario in stages is balanced, and its programs are ordered by the meetings.
LEMMA StagedIsOrdered ==
  ASSUME NEW s \in Scenarios, NEW stage, NEW top \in Nat, Runnable(s), InStages(s, stage, top)
  PROVE  Balanced(s) /\ Separated(Programs(s)) /\ Supplied(Programs(s))
  <1> DEFINE P == Programs(s)
  <1>0. Staged(s, stage, top) /\ StagedApart(s, stage) /\ StagedSupplied(s, stage)
    BY DEF InStages
  <1>1. DOMAIN P = CoresOf(s) /\ \A t \in CoresOf(s) : P[t] = Program(s, t)
    BY DEF Programs
  <1>2. Balanced(s)
    <2>1. \A t \in CoresOf(s) : SyncsOf(Program(s, t)) = 1 + top
      BY <1>0, StagedPrograms
    <2> QED
      BY <2>1 DEF Balanced
  <1>3. Uses(StartSync) = {} /\ Writes(StartSync) = {}
    <2>1. StartSync.kernel = "dummy" /\ StartSync.args = <<>>
      BY DEF StartSync, Task
    <2>2. DOMAIN <<>> = {}
      OBVIOUS
    <2> QED
      BY <2>1, <2>2, WrittenArgIs DEF Uses, Writes
  <1>4. \A i \in DOMAIN s : stage[i] \in Nat
    BY <1>0 DEF Staged
  <1>5. Separated(P)
    <2> SUFFICES ASSUME NEW t \in CoresOf(s), NEW u \in CoresOf(s), t # u,
                        NEW k \in DOMAIN P[t], NEW l \in DOMAIN P[u],
                        SyncsWithin(P[t], k) = SyncsWithin(P[u], l)
                 PROVE  Writes(P[t][k]) \cap Uses(P[u][l]) = {}
      BY <1>1 DEF Separated
    <2>1. P[t][1] = StartSync /\ P[u][1] = StartSync
      BY <1>0, <1>1, StagedPrograms
    <2>2. CASE k = 1 \/ l = 1
      BY <1>3, <2>1, <2>2
    <2>3. CASE k # 1 /\ l # 1
      <3>1. PICK i \in DOMAIN s : t \in Targets(s, s[i]) /\ PlaceOf(s, t, i) = k
        BY <1>0, <1>1, <2>3, StagedPrograms
      <3>2. PICK j \in DOMAIN s : u \in Targets(s, s[j]) /\ PlaceOf(s, u, j) = l
        BY <1>0, <1>1, <2>3, StagedPrograms
      <3>3. P[t][k] = TaskOf(s[i]) /\ SyncsWithin(P[t], k) = 1 + stage[i]
        BY <1>0, <1>1, <3>1, StagedPrograms
      <3>4. P[u][l] = TaskOf(s[j]) /\ SyncsWithin(P[u], l) = 1 + stage[j]
        BY <1>0, <1>1, <3>2, StagedPrograms
      <3>5. 1 + stage[i] = 1 + stage[j]
        BY <3>3, <3>4
      <3>6. stage[i] = stage[j]
        BY <1>4, <3>5
      <3> QED
        BY <1>0, <3>1, <3>2, <3>3, <3>4, <3>6 DEF StagedApart
    <2> QED
      BY <2>2, <2>3
  <1>6. Supplied(P)
    <2> SUFFICES ASSUME NEW u \in CoresOf(s), NEW l \in DOMAIN P[u],
                        NEW a \in Uses(P[u][l]) \ Renews(P[u][l])
                 PROVE  \E t \in CoresOf(s) : \E k \in DOMAIN P[t] :
                          /\ a \in Renews(P[t][k])
                          /\ SyncsWithin(P[t], k) < SyncsWithin(P[u], l) \/ (t = u /\ k < l)
      BY <1>1 DEF Supplied
    <2>1. P[u][1] = StartSync
      BY <1>0, <1>1, StagedPrograms
    <2>2. l # 1
      BY <1>3, <2>1
    <2>3. PICK j \in DOMAIN s : u \in Targets(s, s[j]) /\ PlaceOf(s, u, j) = l
      BY <1>0, <1>1, <2>2, StagedPrograms
    <2>4. P[u][l] = TaskOf(s[j]) /\ SyncsWithin(P[u], l) = 1 + stage[j]
      BY <1>0, <1>1, <2>3, StagedPrograms
    <2>5. PICK i \in DOMAIN s : \E t \in Targets(s, s[i]) :
            a \in Renews(TaskOf(s[i])) /\ (stage[i] < stage[j] \/ (t = u /\ i < j))
      BY <1>0, <2>3, <2>4 DEF StagedSupplied
    <2>6. PICK t \in Targets(s, s[i]) :
            a \in Renews(TaskOf(s[i])) /\ (stage[i] < stage[j] \/ (t = u /\ i < j))
      BY <2>5
    <2> DEFINE k == PlaceOf(s, t, i)
    <2>7. t \in CoresOf(s)
      BY TargetsAreCores
    <2>8. k \in DOMAIN P[t] /\ P[t][k] = TaskOf(s[i]) /\ SyncsWithin(P[t], k) = 1 + stage[i]
      BY <1>0, <1>1, <2>6, <2>7, StagedPrograms
    <2>9. t = u /\ i < j => k < l
      BY <2>3, PlacesInOrder, ScenarioIsSeq
    <2>10. stage[i] < stage[j] => SyncsWithin(P[t], k) < SyncsWithin(P[u], l)
      BY <1>4, <2>4, <2>8
    <2> QED
      BY <2>6, <2>7, <2>8, <2>9, <2>10
  <1> QED
    BY <1>2, <1>5, <1>6

-------------------------------------------------------------------------------
(* The lists the scripts build. *)

\* A list without the same element twice.
NoRepeats(list) == \A i, j \in DOMAIN list : list[i] = list[j] => i = j

\* Where element p of the i-th of blocks of w elements is.
Spot(w, i, p) == w * (i - 1) + p

\* Which block the k-th element is in, and at which place of it.
BlockOf(w, k) == 1 + ((k - 1) \div w)
InBlock(w, k) == 1 + ((k - 1) % w)

\* A number by its quotient and its remainder.
Splits(w, x, q, r) == q \in Int /\ r \in 0 .. w - 1 /\ x = w * q + r

\* There is one way to split a number.
LEMMA SplitIs ==
  ASSUME NEW w \in Nat \ {0}, NEW x \in Int
  PROVE  /\ Splits(w, x, x \div w, x % w)
         /\ \A q, r : Splits(w, x, q, r) => x \div w = q /\ x % w = r
  <1>1. x \div w \in Int /\ x % w \in 0 .. w - 1 /\ x = w * (x \div w) + (x % w)
    OBVIOUS
  <1>2. \A a, b, c, d : Splits(w, x, a, c) /\ Splits(w, x, b, d) => a = b /\ c = d
    <2> SUFFICES ASSUME NEW a \in Int, NEW b \in Int, NEW c \in 0 .. w - 1, NEW d \in 0 .. w - 1,
                        w * a + c = w * b + d
                 PROVE  a = b /\ c = d
      BY DEF Splits
    <2>1. w * a \in Int /\ w * b \in Int /\ w * (a - b) = w * a - w * b
      OBVIOUS
    <2>2. w * (a - b) < w /\ - w < w * (a - b)
      BY <2>1
    <2>3. \A u, v \in Int : u <= v => w * u <= w * v
      OBVIOUS
    <2>4. a - b >= 1 => w * (a - b) >= w * 1
      BY <2>3
    <2>5. a - b <= -1 => w * (a - b) <= w * (-1)
      BY <2>3
    <2>6. w * 1 = w /\ w * (-1) = - w /\ w * (a - b) \in Int
      OBVIOUS
    <2>7. a = b
      BY <2>2, <2>4, <2>5, <2>6
    <2> QED
      BY <2>1, <2>7
  <1>3. Splits(w, x, x \div w, x % w)
    BY <1>1 DEF Splits
  <1> QED
    BY <1>2, <1>3, Zenon

\* Places and spots are the same thing.
LEMMA SpotIs ==
  ASSUME NEW w \in Nat \ {0}, NEW n \in Nat
  PROVE  /\ \A i \in 1 .. n : \A p \in 1 .. w :
              /\ Spot(w, i, p) \in 1 .. w * n
              /\ BlockOf(w, Spot(w, i, p)) = i /\ InBlock(w, Spot(w, i, p)) = p
         /\ \A k \in 1 .. w * n : \E i \in 1 .. n : \E p \in 1 .. w : k = Spot(w, i, p)
  <1>1. \A a, b \in Int : a <= b => w * a <= w * b
    OBVIOUS
  <1>2. ASSUME NEW i \in 1 .. n, NEW p \in 1 .. w
        PROVE  /\ Spot(w, i, p) \in 1 .. w * n
               /\ BlockOf(w, Spot(w, i, p)) = i /\ InBlock(w, Spot(w, i, p)) = p
    <2> DEFINE q == i - 1 r == p - 1 m == w * q
    <2>1. q \in Int /\ 0 <= q /\ q + 1 <= n /\ r \in 0 .. w - 1 /\ r \in Int /\ n \in Int
      OBVIOUS
    <2>2. m \in Int /\ w * 0 <= m /\ w * (q + 1) <= w * n /\ w * (q + 1) = m + w /\ w * n \in Int
          /\ w * 0 = 0
      BY <1>1, <2>1
    <2>3. Spot(w, i, p) = m + p /\ Spot(w, i, p) - 1 = m + r
      BY <2>2 DEF Spot
    <2> DEFINE x == Spot(w, i, p) - 1
    <2>4. x \in Int /\ Splits(w, x, q, r)
      BY <2>1, <2>2, <2>3 DEF Splits
    <2> HIDE DEF x, q, r
    <2>5. x \div w = q /\ x % w = r
      BY <2>4, SplitIs
    <2>6. Spot(w, i, p) \in 1 .. w * n
      <3>1. m \in Int /\ 0 <= m /\ m + w <= w * n /\ p \in 1 .. w /\ w * n \in Int
        BY <2>2
      <3>2. m + p \in 1 .. w * n
        BY <3>1
      <3> QED
        BY <2>3, <3>2
    <2> QED
      BY <2>1, <2>5, <2>6 DEF x, q, r, BlockOf, InBlock
  <1>3. ASSUME NEW k \in 1 .. w * n PROVE \E i \in 1 .. n : \E p \in 1 .. w : k = Spot(w, i, p)
    <2> DEFINE q == (k - 1) \div w r == (k - 1) % w
    <2>1. k \in Int /\ 1 <= k /\ k <= w * n /\ w * n \in Int
      OBVIOUS
    <2>2. k - 1 \in Int
      BY <2>1
    <2>3. k - 1 = w * q + r /\ r \in 0 .. w - 1 /\ q \in Int
      BY <2>2, SplitIs DEF Splits
    <2> HIDE DEF q, r
    <2>4. q >= 0
      <3>1. q <= -1 => w * q <= w * (-1)
        BY <1>1, <2>3
      <3>2. w * (-1) = - w /\ w * q \in Int
        BY <2>3
      <3> QED
        BY <2>1, <2>3, <3>1, <3>2
    <2>5. q < n
      <3>1. n <= q => w * n <= w * q
        BY <1>1, <2>3
      <3>2. w * q \in Int
        BY <2>3
      <3> QED
        BY <2>1, <2>3, <3>1, <3>2
    <2>6. q + 1 \in 1 .. n /\ r + 1 \in 1 .. w /\ (q + 1) - 1 = q
      BY <2>3, <2>4, <2>5
    <2>7. k = Spot(w, q + 1, r + 1)
      BY <2>1, <2>3, <2>6 DEF Spot
    <2> QED
      BY <2>6, <2>7
  <1> QED
    BY <1>2, <1>3

\* The places in a block come after all of the blocks before it.
LEMMA SpotOrder ==
  ASSUME NEW w \in Nat \ {0}, NEW i \in Nat, NEW j \in Nat, NEW p \in 1 .. w, NEW q \in 1 .. w
  PROVE  /\ Spot(w, i, p) \in Int /\ Spot(w, j, q) \in Int
         /\ Spot(w, i, p) <= Spot(w, j, q) <=> i < j \/ (i = j /\ p <= q)
  <1>1. \A a, b \in Int : a <= b => w * a <= w * b
    OBVIOUS
  <1>2. w * (i - 1) \in Int /\ w * (j - 1) \in Int /\ w * i = w * (i - 1) + w /\ w * j = w * (j - 1) + w
        /\ p \in Int /\ q \in Int
    OBVIOUS
  <1>3. i < j => w * i <= w * (j - 1)
    BY <1>1
  <1>4. j < i => w * j <= w * (i - 1)
    BY <1>1
  <1>5. i < j => Spot(w, i, p) <= Spot(w, j, q)
    BY <1>2, <1>3 DEF Spot
  <1>6. j < i => ~ (Spot(w, i, p) <= Spot(w, j, q))
    BY <1>2, <1>4 DEF Spot
  <1>7. i = j => (Spot(w, i, p) <= Spot(w, j, q) <=> p <= q)
    BY <1>2 DEF Spot
  <1> QED
    BY <1>2, <1>5, <1>6, <1>7 DEF Spot

\* List L has the elements of n blocks of w, each at its spot.
HasBlocks(w, n, blocks, L) ==
  /\ IsList(L) /\ Len(L) = w * n
  /\ \A i \in 1 .. n : \A p \in 1 .. w :
       Spot(w, i, p) \in DOMAIN L /\ L[Spot(w, i, p)] = blocks[i][p]
  /\ \A k \in DOMAIN L : \E i \in 1 .. n : \E p \in 1 .. w : k = Spot(w, i, p)

\* So have blocks one after another.
LEMMA InTurnIs ==
  ASSUME NEW w \in Nat \ {0}, NEW blocks, Len(blocks) \in Nat
  PROVE  HasBlocks(w, Len(blocks), blocks, InTurn(w, blocks))
  <1> DEFINE n == Len(blocks) m == w * n L == InTurn(w, blocks)
  <1>1. m \in Nat
    OBVIOUS
  <1>2. DOMAIN L = 1 .. m /\ L = [k \in DOMAIN L |-> L[k]]
        /\ \A k \in 1 .. m : L[k] = blocks[BlockOf(w, k)][InBlock(w, k)]
    BY DEF InTurn, BlockOf, InBlock
  <1> HIDE DEF L
  <1>3. IsList(L) /\ Len(L) = m
    <2> HIDE DEF m
    <2> QED
      BY <1>1, <1>2, FunctionIsList
  <1>4. /\ \A i \in 1 .. n : \A p \in 1 .. w :
             /\ Spot(w, i, p) \in 1 .. m
             /\ BlockOf(w, Spot(w, i, p)) = i /\ InBlock(w, Spot(w, i, p)) = p
        /\ \A k \in 1 .. m : \E i \in 1 .. n : \E p \in 1 .. w : k = Spot(w, i, p)
    BY SpotIs
  <1> HIDE DEF m, n
  <1>5. \A i \in 1 .. n : \A p \in 1 .. w :
          Spot(w, i, p) \in DOMAIN L /\ L[Spot(w, i, p)] = blocks[i][p]
    BY <1>2, <1>4
  <1>6. \A k \in DOMAIN L : \E i \in 1 .. n : \E p \in 1 .. w : k = Spot(w, i, p)
    BY <1>2, <1>4
  <1> QED
    BY <1>3, <1>5, <1>6 DEF L, m, n, HasBlocks

\* A list has finitely many elements.
LEMMA CoresInFinite == ASSUME NEW list, IsList(list) PROVE IsFiniteSet(CoresIn(list))
  <1> DEFINE S == DOMAIN list T == CoresIn(list) f == [i \in S |-> list[i]]
  <1>1. IsFiniteSet(S)
    BY ListPlaces, FS_Interval
  <1>2. f \in Surjection(S, T)
    BY DEF Surjection, CoresIn
  <1> HIDE DEF S, T, f
  <1>3. IsFiniteSet(T)
    BY <1>1, <1>2, FS_Surjection
  <1> QED
    BY <1>3 DEF T

\* Cores in order are these cores, each once.
LEMMA InOrderOfIs ==
  ASSUME NEW cores, cores \subseteq Int, IsFiniteSet(cores)
  PROVE  /\ IsList(InOrderOf(cores)) /\ NoRepeats(InOrderOf(cores))
         /\ CoresIn(InOrderOf(cores)) = cores
  <1> DEFINE R == {e \in cores \X cores : e[1] <= e[2]} L == Listed(cores, R) n == Cardinality(cores)
  <1>1. /\ \A x, y \in cores : <<x, y>> \in R \/ <<y, x>> \in R
        /\ \A x, y \in cores : <<x, y>> \in R /\ <<y, x>> \in R => x = y
        /\ \A x, y, z \in cores : <<x, y>> \in R /\ <<y, z>> \in R => <<x, z>> \in R
    OBVIOUS
  <1> HIDE DEF R
  <1>2. IsList(L) /\ Len(L) = n /\ DOMAIN L = 1 .. n
    BY ListingSeq, ListingLen DEF IsList
  <1>3. /\ \A k \in 1 .. n : L[k] \in cores
        /\ \A x \in cores : \E k \in 1 .. n : L[k] = x
        /\ \A k, l \in 1 .. n : L[k] = L[l] => k = l
    BY <1>1, ListingWhole
  <1> HIDE DEF L, n
  <1>4. NoRepeats(L)
    BY <1>2, <1>3 DEF NoRepeats
  <1>5. \A x : x \in CoresIn(L) <=> \E k \in 1 .. n : L[k] = x
    BY <1>2 DEF CoresIn
  <1>6. CoresIn(L) = cores
    <2>1. CoresIn(L) \subseteq cores
      BY <1>3, <1>5
    <2>2. cores \subseteq CoresIn(L)
      BY <1>3, <1>5
    <2> QED
      BY <2>1, <2>2
  <1> QED
    BY <1>2, <1>4, <1>6 DEF InOrderOf, L, R

\* What a script takes from a list without the elements of another, and without
\* its repetitions.
LEMMA MinusIs ==
  ASSUME NEW list, NEW other, IsList(list), CoresIn(list) \subseteq Int
  PROVE  /\ IsList(Minus(list, other)) /\ NoRepeats(Minus(list, other))
         /\ CoresIn(Minus(list, other)) = CoresIn(list) \ CoresIn(other)
         /\ IsList(Uniq(list)) /\ NoRepeats(Uniq(list)) /\ CoresIn(Uniq(list)) = CoresIn(list)
  <1> DEFINE S == CoresIn(list) T == CoresIn(list) \ CoresIn(other)
  <1>1. IsFiniteSet(S) /\ S \subseteq Int
    BY CoresInFinite
  <1>2. IsFiniteSet(T) /\ T \subseteq Int
    BY <1>1, FS_Subset
  <1> HIDE DEF S, T
  <1>3. /\ IsList(InOrderOf(S)) /\ NoRepeats(InOrderOf(S)) /\ CoresIn(InOrderOf(S)) = S
        /\ IsList(InOrderOf(T)) /\ NoRepeats(InOrderOf(T)) /\ CoresIn(InOrderOf(T)) = T
    BY <1>1, <1>2, InOrderOfIs
  <1> QED
    BY <1>3 DEF Minus, Uniq, S, T

-------------------------------------------------------------------------------
(* Scenarios whose actions are all kernels. *)

\* An action that runs a kernel main knows, under its own name: an init once at
\* least, the others as often as they say.
IsKernel(a) ==
  /\ a.node = "map" /\ a.sync \in BOOLEAN
  /\ a.kernel \in KnownKernels /\ a.kernel # "void"
  /\ a.kernel \in InitKernels => a.repeat > 0

\* Such an action gives its core that kernel.
LEMMA KernelAction ==
  ASSUME NEW s, NEW a, IsKernel(a)
  PROVE  /\ ~ Fatal(a) /\ Targets(s, a) = {a.core}
         /\ TaskOf(a).kernel = a.kernel /\ TaskOf(a).args = a.args /\ TaskOf(a).sync = a.sync
         /\ TaskOf(a).repeat = a.repeat
  <1>1. ~ IsBarrier(a) /\ IsKnown(a) /\ ~ IsUnknown(a) /\ KernelName(a) = a.kernel
    BY DEF IsKernel, IsBarrier, IsKnown, IsUnknown, KernelName
  <1> QED
    BY <1>1 DEF IsKernel, Fatal, Targets, TaskOf, KernelTask, Task

\* What an action of a kernel uses and writes, if it has a round, and renews.
Used(a)    == {a.args[p] : p \in DOMAIN a.args}
Written(a) == IF a.kernel \in DOMAIN WrittenArg THEN {a.args[WrittenArg[a.kernel]]} ELSE {}
Renewed(a) == IF a.kernel \in InitKernels THEN Written(a) ELSE {}

\* What an action that runs a kernel gives its core.
LEMMA KernelUses ==
  ASSUME NEW s, NEW a, IsKernel(a)
  PROVE  /\ ~ Fatal(a) /\ Targets(s, a) = {a.core} /\ TaskOf(a).sync = a.sync
         /\ Uses(TaskOf(a)) \subseteq Used(a) /\ Writes(TaskOf(a)) \subseteq Written(a)
         /\ Renews(TaskOf(a)) = Renewed(a)
  <1>1. /\ ~ Fatal(a) /\ Targets(s, a) = {a.core}
        /\ TaskOf(a).kernel = a.kernel /\ TaskOf(a).args = a.args /\ TaskOf(a).sync = a.sync
        /\ TaskOf(a).repeat = a.repeat
    BY KernelAction
  <1>2. Uses(TaskOf(a)) \subseteq Used(a) /\ Writes(TaskOf(a)) \subseteq Written(a)
    BY <1>1 DEF Uses, Used, Writes, Written
  <1>3. a.kernel \in InitKernels => HasRounds(TaskOf(a))
    BY <1>1 DEF IsKernel, HasRounds
  <1>4. Renews(TaskOf(a)) = Renewed(a)
    BY <1>1, <1>3 DEF Writes, Written, Renews, Renewed
  <1> QED
    BY <1>1, <1>2, <1>4

\* A scenario of kernels only.
OnlyKernels(s) == \A i \in DOMAIN s : IsKernel(s[i])

\* The numbers of its actions are stages, by their cores and flags.
KernelStages(s, stage, top) ==
  /\ \A i \in DOMAIN s : stage[i] \in 0 .. top /\ (s[i].sync => stage[i] # 0)
  /\ \A i \in DOMAIN s : \A r \in 1 .. top :
       \E j \in DOMAIN s : s[j].core = s[i].core /\ s[j].sync /\ stage[j] = r
  /\ \A i, j \in DOMAIN s : s[i].core = s[j].core /\ s[j].sync => (j <= i <=> stage[j] <= stage[i])

\* What they use in a stage keeps them apart, and was filled before.
KernelsApart(s, stage) ==
  \A i, j \in DOMAIN s :
    s[i].core # s[j].core /\ stage[i] = stage[j] => Written(s[i]) \cap Used(s[j]) = {}
KernelsSupplied(s, stage) ==
  \A j \in DOMAIN s : \A a \in Used(s[j]) \ Renewed(s[j]) :
    \E i \in DOMAIN s :
      a \in Renewed(s[i]) /\ (stage[i] < stage[j] \/ (s[i].core = s[j].core /\ i < j))

\* A scenario of kernels is in stages when its cores, flags and arrays say so.
LEMMA KernelsInStages ==
  ASSUME NEW s, NEW stage, NEW top \in Nat, OnlyKernels(s),
         KernelStages(s, stage, top), KernelsApart(s, stage), KernelsSupplied(s, stage)
  PROVE  Runnable(s) /\ InStages(s, stage, top)
  <1>1. \A i \in DOMAIN s :
          /\ ~ Fatal(s[i]) /\ Targets(s, s[i]) = {s[i].core} /\ TaskOf(s[i]).sync = s[i].sync
          /\ Uses(TaskOf(s[i])) \subseteq Used(s[i]) /\ Writes(TaskOf(s[i])) \subseteq Written(s[i])
          /\ Renews(TaskOf(s[i])) = Renewed(s[i])
    <2> TAKE i \in DOMAIN s
    <2>1. IsKernel(s[i])
      BY DEF OnlyKernels
    <2> QED
      BY <2>1, KernelUses
  <1>2. CoresOf(s) = {s[i].core : i \in DOMAIN s}
    BY DEF CoresOf, OnlyKernels, IsKernel
  <1>3. Staged(s, stage, top)
    <2>1. \A i \in DOMAIN s : stage[i] \in 0 .. top /\ (TaskOf(s[i]).sync => stage[i] # 0)
      BY <1>1 DEF KernelStages
    <2>2. ASSUME NEW t \in CoresOf(s), NEW r \in 1 .. top
          PROVE  \E i \in DOMAIN s : SyncFor(s, t, i) /\ stage[i] = r
      <3>1. PICK i \in DOMAIN s : s[i].core = t
        BY <1>2
      <3>2. PICK j \in DOMAIN s : s[j].core = s[i].core /\ s[j].sync /\ stage[j] = r
        BY DEF KernelStages
      <3> QED
        BY <1>1, <3>1, <3>2 DEF SyncFor
    <2>3. ASSUME NEW i \in DOMAIN s, NEW j \in DOMAIN s, NEW t \in Targets(s, s[i]), SyncFor(s, t, j)
          PROVE  j <= i <=> stage[j] <= stage[i]
      <3>1. s[i].core = t /\ s[j].core = t /\ s[j].sync
        BY <1>1, <2>3 DEF SyncFor
      <3> QED
        BY <3>1 DEF KernelStages
    <2> QED
      BY <2>1, <2>2, <2>3 DEF Staged
  <1>4. StagedApart(s, stage)
    BY <1>1 DEF StagedApart, KernelsApart
  <1>5. StagedSupplied(s, stage)
    <2> SUFFICES ASSUME NEW j \in DOMAIN s, NEW u \in Targets(s, s[j]),
                        NEW a \in Uses(TaskOf(s[j])) \ Renews(TaskOf(s[j]))
                 PROVE  \E i \in DOMAIN s : \E t \in Targets(s, s[i]) :
                          a \in Renews(TaskOf(s[i])) /\ (stage[i] < stage[j] \/ (t = u /\ i < j))
      BY DEF StagedSupplied
    <2>1. a \in Used(s[j]) \ Renewed(s[j]) /\ u = s[j].core
      BY <1>1
    <2>2. PICK i \in DOMAIN s :
            a \in Renewed(s[i]) /\ (stage[i] < stage[j] \/ (s[i].core = s[j].core /\ i < j))
      BY <2>1 DEF KernelsSupplied
    <2> QED
      BY <1>1, <2>1, <2>2
  <1> QED
    BY <1>1, <1>3, <1>4, <1>5 DEF Runnable, InStages

\* All that wait meet once: each core fills arrays, which go to one core, and
\* then runs at most one kernel on those of its own.
MeetsOnce(s) ==
  /\ \A i \in DOMAIN s : \E j \in DOMAIN s : i <= j /\ s[j].core = s[i].core /\ s[j].sync
  /\ \A i, j \in DOMAIN s : s[i].sync /\ s[j].sync /\ s[i].core = s[j].core => i = j
  /\ \A i \in DOMAIN s : ~ s[i].sync => Used(s[i]) = Renewed(s[i])
  /\ \A i, j \in DOMAIN s :
       s[i].sync = s[j].sync /\ Used(s[i]) \cap Used(s[j]) # {} => s[i].core = s[j].core
  /\ \A i \in DOMAIN s : Written(s[i]) \subseteq Used(s[i])
  /\ \A j \in DOMAIN s : s[j].sync =>
       \A a \in Used(s[j]) : \E i \in DOMAIN s : ~ s[i].sync /\ a \in Renewed(s[i])

LEMMA MeetsOnceInStages ==
  ASSUME NEW s, NEW n \in Nat, DOMAIN s = 1 .. n, OnlyKernels(s), MeetsOnce(s)
  PROVE  Runnable(s) /\ InStages(s, [i \in DOMAIN s |-> IF s[i].sync THEN 1 ELSE 0], 1)
  <1> DEFINE stage == [i \in DOMAIN s |-> IF s[i].sync THEN 1 ELSE 0]
  <1>1. \A i \in DOMAIN s : stage[i] = (IF s[i].sync THEN 1 ELSE 0) /\ s[i].sync \in BOOLEAN
    BY DEF OnlyKernels, IsKernel
  <1> HIDE DEF stage
  <1>2. KernelStages(s, stage, 1)
    <2>1. ASSUME NEW i \in DOMAIN s PROVE stage[i] \in 0 .. 1 /\ (s[i].sync => stage[i] # 0)
      BY <1>1
    <2>2. ASSUME NEW i \in DOMAIN s, NEW r \in 1 .. 1
          PROVE  \E j \in DOMAIN s : s[j].core = s[i].core /\ s[j].sync /\ stage[j] = r
      <3>1. PICK j \in DOMAIN s : i <= j /\ s[j].core = s[i].core /\ s[j].sync
        BY DEF MeetsOnce
      <3> QED
        BY <1>1, <3>1
    <2>3. ASSUME NEW i \in DOMAIN s, NEW j \in DOMAIN s, s[i].core = s[j].core, s[j].sync
          PROVE  j <= i <=> stage[j] <= stage[i]
      <3>1. i \in Int /\ j \in Int
        OBVIOUS
      <3>2. CASE s[i].sync
        <4>1. i = j
          BY <2>3, <3>2 DEF MeetsOnce
        <4> QED
          BY <1>1, <3>1, <3>2, <4>1
      <3>3. CASE ~ s[i].sync
        <4>1. PICK k \in DOMAIN s : i <= k /\ s[k].core = s[i].core /\ s[k].sync
          BY DEF MeetsOnce
        <4>2. k = j
          BY <2>3, <4>1 DEF MeetsOnce
        <4>3. i # j
          BY <2>3, <3>3
        <4> QED
          BY <1>1, <2>3, <3>1, <3>3, <4>1, <4>2, <4>3
      <3> QED
        BY <3>2, <3>3
    <2> QED
      BY <2>1, <2>2, <2>3 DEF KernelStages
  <1>3. KernelsApart(s, stage)
    <2> SUFFICES ASSUME NEW i \in DOMAIN s, NEW j \in DOMAIN s, s[i].core # s[j].core,
                        stage[i] = stage[j]
                 PROVE  Written(s[i]) \cap Used(s[j]) = {}
      BY DEF KernelsApart
    <2>1. s[i].sync = s[j].sync
      BY <1>1
    <2>2. Used(s[i]) \cap Used(s[j]) = {}
      BY <2>1 DEF MeetsOnce
    <2>3. Written(s[i]) \subseteq Used(s[i])
      BY DEF MeetsOnce
    <2> QED
      BY <2>2, <2>3
  <1>4. KernelsSupplied(s, stage)
    <2> SUFFICES ASSUME NEW j \in DOMAIN s, NEW a \in Used(s[j]) \ Renewed(s[j])
                 PROVE  \E i \in DOMAIN s :
                          a \in Renewed(s[i]) /\ (stage[i] < stage[j] \/ (s[i].core = s[j].core /\ i < j))
      BY DEF KernelsSupplied
    <2>1. s[j].sync
      BY DEF MeetsOnce
    <2>2. PICK i \in DOMAIN s : ~ s[i].sync /\ a \in Renewed(s[i])
      BY <2>1 DEF MeetsOnce
    <2> QED
      BY <1>1, <2>1, <2>2
  <1> QED
    BY <1>2, <1>3, <1>4, KernelsInStages DEF stage

-------------------------------------------------------------------------------
(* Kernels that start together. *)

\* List s is x and then y.
JoinsTo(x, y, s) ==
  /\ IsList(s) /\ Len(s) = Len(x) + Len(y)
  /\ \A k \in DOMAIN x : k \in DOMAIN s /\ s[k] = x[k]
  /\ \A k \in DOMAIN y : Len(x) + k \in DOMAIN s /\ s[Len(x) + k] = y[k]
  /\ \A k \in DOMAIN s : k \in DOMAIN x \/ \E l \in DOMAIN y : k = Len(x) + l

LEMMA JoinedIs ==
  ASSUME NEW x, NEW y, IsList(x), IsList(y) PROVE JoinsTo(x, y, x \o y)
  BY JoinedLists DEF JoinsTo

\* List s is x, then y, then z.
JoinThree(x, y, z, s) ==
  /\ IsList(s)
  /\ \A k \in DOMAIN x : k \in DOMAIN s /\ s[k] = x[k]
  /\ \A k \in DOMAIN y : Len(x) + k \in DOMAIN s /\ s[Len(x) + k] = y[k]
  /\ \A k \in DOMAIN z : Len(x) + Len(y) + k \in DOMAIN s /\ s[Len(x) + Len(y) + k] = z[k]
  /\ \A i \in DOMAIN s : \/ i \in DOMAIN x
                         \/ \E k \in DOMAIN y : i = Len(x) + k
                         \/ \E k \in DOMAIN z : i = Len(x) + Len(y) + k

LEMMA ThreeLists ==
  ASSUME NEW x, NEW y, NEW z, NEW u, NEW s, JoinsTo(x, y, u), JoinsTo(u, z, s)
  PROVE  JoinThree(x, y, z, s)
  BY DEF JoinsTo, JoinThree

InitAction(init, on, arg, core) == CreateAction(init, on, 1, FALSE, <<<<arg, core>>>>)
DummyAction(core) == CreateAction("dummy", core, 1, TRUE, <<>>)

\* The arrays of each core are initialised, and nothing else.
HasInits(L, init, args, cores, on) ==
  /\ IsList(L)
  /\ \A k \in DOMAIN cores : \A x \in DOMAIN args :
       \E i \in DOMAIN L : L[i] = InitAction(init, on[k], args[x], cores[k])
  /\ \A i \in DOMAIN L : \E k \in DOMAIN cores : \E x \in DOMAIN args :
       L[i] = InitAction(init, on[k], args[x], cores[k])

LEMMA InitsIs ==
  ASSUME NEW init, NEW args, IsList(args), args # <<>>, NEW cores, IsList(cores), NEW on
  PROVE  HasInits(Inits(init, args, cores, on), init, args, cores, on)
  <1> DEFINE L == Inits(init, args, cores, on)
  <1> DEFINE w == Len(args) n == Len(cores)
             B == [k \in DOMAIN cores |-> InitBlocks(init, on[k], args, cores[k])]
  <1>1. w \in Nat /\ DOMAIN args = 1 .. w /\ n \in Nat /\ DOMAIN cores = 1 .. n
    BY ListPlaces
  <1>2. w # 0
    BY DEF IsList
  <1>3. L = InTurn(w, B)
    BY DEF Inits
  <1>4. DOMAIN B = 1 .. n /\ B = [k \in DOMAIN B |-> B[k]]
    BY <1>1
  <1>5. \A k \in 1 .. n : \A x \in 1 .. w : B[k][x] = InitAction(init, on[k], args[x], cores[k])
    BY <1>1 DEF InitBlocks, InitAction
  <1> HIDE DEF w, n, B, L
  <1>6. Len(B) = n
    BY <1>1, <1>4, FunctionIsList
  <1>7. HasBlocks(w, n, B, L)
    <2>1. w \in Nat \ {0} /\ Len(B) \in Nat
      BY <1>1, <1>2, <1>6
    <2>2. HasBlocks(w, Len(B), B, InTurn(w, B))
      BY <2>1, InTurnIs
    <2> QED
      BY <1>3, <1>6, <2>2
  <1>8. ASSUME NEW k \in DOMAIN cores, NEW x \in DOMAIN args
        PROVE  \E i \in DOMAIN L : L[i] = InitAction(init, on[k], args[x], cores[k])
    <2>1. k \in 1 .. n /\ x \in 1 .. w
      BY <1>1
    <2>2. Spot(w, k, x) \in DOMAIN L /\ L[Spot(w, k, x)] = B[k][x]
      BY <1>7, <2>1 DEF HasBlocks
    <2> QED
      BY <1>5, <2>1, <2>2
  <1>9. ASSUME NEW i \in DOMAIN L
        PROVE  \E k \in DOMAIN cores : \E x \in DOMAIN args :
                 L[i] = InitAction(init, on[k], args[x], cores[k])
    <2>1. PICK k \in 1 .. n : \E x \in 1 .. w : i = Spot(w, k, x)
      BY <1>7 DEF HasBlocks
    <2>2. PICK x \in 1 .. w : i = Spot(w, k, x)
      BY <2>1
    <2>3. L[i] = B[k][x]
      BY <1>7, <2>2 DEF HasBlocks
    <2>4. k \in DOMAIN cores /\ x \in DOMAIN args
      BY <1>1
    <2> QED
      BY <1>5, <2>3, <2>4
  <1>10. IsList(L)
    BY <1>7 DEF HasBlocks
  <1> QED
    BY <1>8, <1>9, <1>10 DEF HasInits, L

LEMMA ComputesIs ==
  ASSUME NEW kernel, NEW args, NEW cores, IsList(cores), NEW repeat,
         NEW L, L = Computes(kernel, args, cores, repeat)
  PROVE  /\ IsList(L) /\ DOMAIN L = DOMAIN cores /\ Len(L) = Len(cores)
         /\ \A k \in DOMAIN cores : L[k] = Compute(kernel, args, cores[k], repeat)
  <1> DEFINE n == Len(cores)
  <1>1. n \in Nat /\ DOMAIN cores = 1 .. n
    BY ListPlaces
  <1>2. /\ DOMAIN L = DOMAIN cores /\ L = [k \in DOMAIN L |-> L[k]]
        /\ \A k \in DOMAIN cores : L[k] = Compute(kernel, args, cores[k], repeat)
    BY DEF Computes
  <1> HIDE DEF n
  <1>3. IsList(L) /\ Len(L) = n
    BY <1>1, <1>2, FunctionIsList
  <1> QED
    BY <1>2, <1>3 DEF n

LEMMA DummiesIs ==
  ASSUME NEW cores, IsList(cores), NEW L, L = Dummies(cores)
  PROVE  /\ IsList(L) /\ DOMAIN L = DOMAIN cores /\ Len(L) = Len(cores)
         /\ \A k \in DOMAIN cores : L[k] = DummyAction(cores[k])
  <1> DEFINE n == Len(cores)
  <1>1. n \in Nat /\ DOMAIN cores = 1 .. n
    BY ListPlaces
  <1>2. /\ DOMAIN L = DOMAIN cores /\ L = [k \in DOMAIN L |-> L[k]]
        /\ \A k \in DOMAIN cores : L[k] = DummyAction(cores[k])
    BY DEF Dummies, DummyAction
  <1> HIDE DEF n
  <1>3. IsList(L) /\ Len(L) = n
    BY <1>1, <1>2, FunctionIsList
  <1> QED
    BY <1>2, <1>3 DEF n

\* The kernels of a scenario, and that main knows them.
CanInit(init) == init \in InitKernels /\ init \in KnownKernels
CanCompute(kernel, args) ==
  /\ kernel \in KnownKernels \ {"void"} /\ kernel \notin InitKernels
  /\ kernel \in DOMAIN WrittenArg => WrittenArg[kernel] \in DOMAIN args

\* What the three kinds of action say, and use.
LEMMA InitActionIs ==
  ASSUME NEW init, NEW on, NEW arg, NEW core, NEW a, a = InitAction(init, on, arg, core), CanInit(init)
  PROVE  /\ IsKernel(a) /\ a.core = on /\ ~ a.sync
         /\ Used(a) = {<<arg, core>>} /\ Written(a) = {<<arg, core>>} /\ Renewed(a) = {<<arg, core>>}
  <1> DEFINE r == <<arg, core>>
  <1>1. /\ a.node = "map" /\ a.core = on /\ a.kernel = init /\ a.sync = FALSE
        /\ a.args = <<r>> /\ a.repeat = 1
    BY DEF InitAction, CreateAction, Map
  <1>2. init \in KnownKernels /\ init # "void" /\ init \in InitKernels
        /\ init \in DOMAIN WrittenArg /\ WrittenArg[init] = 1
    BY WrittenArgIs DEF CanInit, InitKernels, FirstWritten
  <1> HIDE DEF r
  <1>3. DOMAIN <<r>> = {1} /\ <<r>>[1] = r
    OBVIOUS
  <1>4. Used(a) = {r} /\ Written(a) = {r} /\ Renewed(a) = {r}
    BY <1>1, <1>2, <1>3 DEF Used, Written, Renewed
  <1>5. a.repeat > 0
    BY <1>1
  <1> QED
    BY <1>1, <1>2, <1>4, <1>5 DEF IsKernel, r

LEMMA ComputeIs ==
  ASSUME NEW kernel, NEW args, NEW core, NEW repeat, NEW a, a = Compute(kernel, args, core, repeat),
         CanCompute(kernel, args)
  PROVE  /\ IsKernel(a) /\ a.core = core /\ a.sync
         /\ Used(a) = {<<args[x], core>> : x \in DOMAIN args}
         /\ Written(a) \subseteq Used(a) /\ Renewed(a) = {}
  <1>1. /\ a.node = "map" /\ a.core = core /\ a.kernel = kernel /\ a.sync = TRUE
        /\ a.args = [x \in DOMAIN args |-> <<args[x], core>>]
    BY DEF Compute, CreateAction, Map
  <1>2. Used(a) = {<<args[x], core>> : x \in DOMAIN args}
    BY <1>1 DEF Used
  <1>3. kernel \in DOMAIN WrittenArg => WrittenArg[kernel] \in DOMAIN a.args
    BY <1>1 DEF CanCompute
  <1>4. Written(a) \subseteq Used(a)
    BY <1>1, <1>3 DEF Written, Used
  <1>5. Renewed(a) = {}
    BY <1>1 DEF Renewed, CanCompute
  <1> QED
    BY <1>1, <1>2, <1>4, <1>5 DEF IsKernel, CanCompute

LEMMA DummyIs ==
  ASSUME NEW core, NEW a, a = DummyAction(core)
  PROVE  IsKernel(a) /\ a.core = core /\ a.sync /\ Used(a) = {} /\ Written(a) = {} /\ Renewed(a) = {}
  <1>1. /\ a.node = "map" /\ a.core = core /\ a.kernel = "dummy" /\ a.sync = TRUE /\ a.args = <<>>
    BY DEF DummyAction, CreateAction, Map
  <1>2. DOMAIN <<>> = {}
    OBVIOUS
  <1>3. Used(a) = {}
    BY <1>1, <1>2 DEF Used
  <1>4. Written(a) = {} /\ Renewed(a) = {}
    BY <1>1, WrittenArgIs DEF Written, Renewed
  <1> QED
    BY <1>1, <1>3, <1>4, KernelsAssumption DEF IsKernel, InitKernels

\* The actions of such a scenario.  A placement <<core, on>> says that the arrays
\* of a core are initialised on another; idle cores run nothing but a dummy.
Fills(a, init, args, placed) ==
  \E e \in placed : \E x \in DOMAIN args : a = InitAction(init, e[2], args[x], e[1])
Runs(a, kernel, args, placed, repeat) ==
  \E e \in placed : a = Compute(kernel, args, e[1], repeat)
Idles(a, idle) == \E c \in idle : a = DummyAction(c)
TogetherAction(a, kernel, init, args, placed, idle, repeat) ==
  Fills(a, init, args, placed) \/ Runs(a, kernel, args, placed, repeat) \/ Idles(a, idle)

\* Each core has one placement, its arrays are all initialised, and each core
\* that initialises has one sync action, later.
Together(s, kernel, init, args, placed, idle, repeat) ==
  /\ \A e, f \in placed : e[1] = f[1] => e = f
  /\ \A i \in DOMAIN s : TogetherAction(s[i], kernel, init, args, placed, idle, repeat)
  /\ \A e \in placed : \A x \in DOMAIN args :
       \E i \in DOMAIN s : s[i] = InitAction(init, e[2], args[x], e[1])
  /\ \A i, j \in DOMAIN s : s[i].sync /\ s[j].sync /\ s[i].core = s[j].core => i = j
  /\ \A i \in DOMAIN s : ~ s[i].sync => \E j \in DOMAIN s : i <= j /\ s[j].core = s[i].core /\ s[j].sync

\* What an action of them uses.
UsesPlaced(a, args, placed) ==
  /\ IsKernel(a) /\ Written(a) \subseteq Used(a)
  /\ a.sync => \A r \in Used(a) : \E e \in placed : \E x \in DOMAIN args :
                 r = <<args[x], e[1]>> /\ a.core = e[1]
  /\ ~ a.sync => /\ Used(a) = Renewed(a)
                 /\ \A r \in Used(a) : \E e \in placed : \E x \in DOMAIN args :
                      r = <<args[x], e[1]>> /\ a.core = e[2]

LEMMA TogetherUses ==
  ASSUME NEW a, NEW kernel, NEW init, NEW args, NEW placed, NEW idle, NEW repeat,
         CanInit(init), CanCompute(kernel, args),
         TogetherAction(a, kernel, init, args, placed, idle, repeat)
  PROVE  UsesPlaced(a, args, placed)
  <1>1. CASE Fills(a, init, args, placed)
    <2>1. PICK e \in placed : \E x \in DOMAIN args : a = InitAction(init, e[2], args[x], e[1])
      BY <1>1 DEF Fills
    <2>2. PICK x \in DOMAIN args : a = InitAction(init, e[2], args[x], e[1])
      BY <2>1
    <2>3. /\ IsKernel(a) /\ a.core = e[2] /\ ~ a.sync
          /\ Used(a) = {<<args[x], e[1]>>} /\ Written(a) = {<<args[x], e[1]>>}
          /\ Renewed(a) = {<<args[x], e[1]>>}
      BY <2>2, InitActionIs
    <2> QED
      BY <2>3 DEF UsesPlaced
  <1>2. CASE Runs(a, kernel, args, placed, repeat)
    <2>1. PICK e \in placed : a = Compute(kernel, args, e[1], repeat)
      BY <1>2 DEF Runs
    <2>2. /\ IsKernel(a) /\ a.core = e[1] /\ a.sync
          /\ Used(a) = {<<args[x], e[1]>> : x \in DOMAIN args}
          /\ Written(a) \subseteq Used(a)
      BY <2>1, ComputeIs
    <2> QED
      BY <2>2 DEF UsesPlaced
  <1>3. CASE Idles(a, idle)
    <2>1. PICK c \in idle : a = DummyAction(c)
      BY <1>3 DEF Idles
    <2>2. IsKernel(a) /\ a.sync /\ Used(a) = {} /\ Written(a) = {}
      BY <2>1, DummyIs
    <2> QED
      BY <2>2 DEF UsesPlaced
  <1> QED
    BY <1>1, <1>2, <1>3 DEF TogetherAction

\* Such a scenario meets once.
LEMMA TogetherMeetsOnce ==
  ASSUME NEW s, NEW kernel, NEW init, NEW args, NEW placed, NEW idle, NEW repeat,
         NEW n \in Nat, DOMAIN s = 1 .. n, CanInit(init), CanCompute(kernel, args),
         Together(s, kernel, init, args, placed, idle, repeat)
  PROVE  OnlyKernels(s) /\ MeetsOnce(s)
  <1>1. \A i \in DOMAIN s :
          /\ IsKernel(s[i]) /\ Written(s[i]) \subseteq Used(s[i])
          /\ s[i].sync => \A r \in Used(s[i]) : \E e \in placed : \E x \in DOMAIN args :
                            r = <<args[x], e[1]>> /\ s[i].core = e[1]
          /\ ~ s[i].sync => /\ Used(s[i]) = Renewed(s[i])
                            /\ \A r \in Used(s[i]) : \E e \in placed : \E x \in DOMAIN args :
                                 r = <<args[x], e[1]>> /\ s[i].core = e[2]
    <2> TAKE i \in DOMAIN s
    <2>1. TogetherAction(s[i], kernel, init, args, placed, idle, repeat)
      BY DEF Together
    <2>2. UsesPlaced(s[i], args, placed)
      BY <2>1, TogetherUses
    <2> QED
      BY <2>2 DEF UsesPlaced
  <1>2. OnlyKernels(s)
    BY <1>1 DEF OnlyKernels
  <1>3. \A i \in DOMAIN s : \E j \in DOMAIN s : i <= j /\ s[j].core = s[i].core /\ s[j].sync
    <2> TAKE i \in DOMAIN s
    <2>1. i <= i
      OBVIOUS
    <2> QED
      BY <2>1 DEF Together
  <1>4. ASSUME NEW i \in DOMAIN s, NEW j \in DOMAIN s, s[i].sync = s[j].sync,
               NEW r \in Used(s[i]) \cap Used(s[j])
        PROVE  s[i].core = s[j].core
    <2>1. CASE s[i].sync
      <3>1. PICK e \in placed : \E x \in DOMAIN args : r = <<args[x], e[1]>> /\ s[i].core = e[1]
        BY <1>1, <2>1
      <3>2. PICK f \in placed : \E x \in DOMAIN args : r = <<args[x], f[1]>> /\ s[j].core = f[1]
        BY <1>1, <1>4, <2>1
      <3> QED
        BY <3>1, <3>2
    <2>2. CASE ~ s[i].sync
      <3>1. PICK e \in placed : \E x \in DOMAIN args : r = <<args[x], e[1]>> /\ s[i].core = e[2]
        BY <1>1, <2>2
      <3>2. PICK f \in placed : \E x \in DOMAIN args : r = <<args[x], f[1]>> /\ s[j].core = f[2]
        BY <1>1, <1>4, <2>2
      <3>3. e[1] = f[1]
        BY <3>1, <3>2
      <3>4. e = f
        BY <3>3 DEF Together
      <3> QED
        BY <3>1, <3>2, <3>4
    <2> QED
      BY <2>1, <2>2
  <1>5. ASSUME NEW j \in DOMAIN s, s[j].sync, NEW r \in Used(s[j])
        PROVE  \E i \in DOMAIN s : ~ s[i].sync /\ r \in Renewed(s[i])
    <2>1. PICK e \in placed : \E x \in DOMAIN args : r = <<args[x], e[1]>>
      BY <1>1, <1>5
    <2>2. PICK x \in DOMAIN args : r = <<args[x], e[1]>>
      BY <2>1
    <2>3. PICK i \in DOMAIN s : s[i] = InitAction(init, e[2], args[x], e[1])
      BY DEF Together
    <2>4. ~ s[i].sync /\ Renewed(s[i]) = {<<args[x], e[1]>>}
      BY <2>3, InitActionIs
    <2> QED
      BY <2>2, <2>4
  <1>6. MeetsOnce(s)
    <2>1. \A i, j \in DOMAIN s : s[i].sync /\ s[j].sync /\ s[i].core = s[j].core => i = j
      BY DEF Together
    <2>2. \A i, j \in DOMAIN s :
            s[i].sync = s[j].sync /\ Used(s[i]) \cap Used(s[j]) # {} => s[i].core = s[j].core
      BY <1>4
    <2> QED
      BY <1>1, <1>3, <1>5, <2>1, <2>2 DEF MeetsOnce
  <1> QED
    BY <1>2, <1>6

\* A list of actions by their sync actions: one for each of the cores syncs, and
\* later than any other action of the core, but for those of the cores left.
SyncsOnce(s, acts, syncs, left) ==
  /\ IsList(s) /\ Elements(s) = acts
  /\ \A i \in DOMAIN s : s[i].sync => s[i].core \in syncs
  /\ \A i, j \in DOMAIN s : s[i].sync /\ s[j].sync /\ s[i].core = s[j].core => i = j
  /\ \A c \in syncs : \E i \in DOMAIN s : s[i].sync /\ s[i].core = c
  /\ \A i \in DOMAIN s : ~ s[i].sync =>
       s[i].core \in left \/ \E j \in DOMAIN s : i <= j /\ s[j].core = s[i].core /\ s[j].sync

LEMMA SyncsOnceJoined ==
  ASSUME NEW x, NEW a, NEW sx, NEW lx, SyncsOnce(x, a, sx, lx),
         NEW y, NEW b, NEW sy, NEW ly, SyncsOnce(y, b, sy, ly), sx \cap sy = {}
  PROVE  SyncsOnce(x \o y, a \cup b, sx \cup sy, (lx \ sy) \cup ly)
  <1> DEFINE s == x \o y
  <1>1. JoinsTo(x, y, s)
    BY JoinedIs DEF SyncsOnce
  <1> HIDE DEF s
  <1>2. /\ IsList(s) /\ Len(x) \in Nat /\ DOMAIN x = 1 .. Len(x) /\ DOMAIN y = 1 .. Len(y)
        /\ Len(y) \in Nat
    BY <1>1, ListPlaces DEF JoinsTo, SyncsOnce
  <1>3. /\ \A k \in DOMAIN x : k \in DOMAIN s /\ s[k] = x[k]
        /\ \A k \in DOMAIN y : Len(x) + k \in DOMAIN s /\ s[Len(x) + k] = y[k]
        /\ \A k \in DOMAIN s : k \in DOMAIN x \/ \E l \in DOMAIN y : k = Len(x) + l
    BY <1>1 DEF JoinsTo
  <1>4. Elements(s) = a \cup b
    <2>1. \A k \in DOMAIN s : s[k] \in Elements(x) \cup Elements(y)
      BY <1>3 DEF Elements
    <2>2. \A k \in DOMAIN x : x[k] \in Elements(s)
      BY <1>3 DEF Elements
    <2>3. \A k \in DOMAIN y : y[k] \in Elements(s)
      BY <1>3 DEF Elements
    <2>4. Elements(s) \subseteq Elements(x) \cup Elements(y)
      BY <2>1 DEF Elements
    <2>5. Elements(x) \cup Elements(y) \subseteq Elements(s)
      BY <2>2, <2>3 DEF Elements
    <2> QED
      BY <2>4, <2>5 DEF SyncsOnce
  <1>5. ASSUME NEW i \in DOMAIN s, s[i].sync PROVE s[i].core \in sx \cup sy
    BY <1>3, <1>5 DEF SyncsOnce
  <1>6. ASSUME NEW i \in DOMAIN s, NEW j \in DOMAIN s, s[i].sync, s[j].sync, s[i].core = s[j].core
        PROVE  i = j
    <2>1. CASE i \in DOMAIN x /\ j \in DOMAIN x
      BY <1>3, <1>6, <2>1 DEF SyncsOnce
    <2>2. ASSUME NEW k \in DOMAIN y, NEW l \in DOMAIN y, i = Len(x) + k, j = Len(x) + l
          PROVE  i = j
      BY <1>3, <1>6, <2>2 DEF SyncsOnce
    <2>3. ASSUME NEW k \in DOMAIN y, i = Len(x) + k, j \in DOMAIN x PROVE FALSE
      BY <1>3, <1>6, <2>3 DEF SyncsOnce
    <2>4. ASSUME NEW k \in DOMAIN y, j = Len(x) + k, i \in DOMAIN x PROVE FALSE
      BY <1>3, <1>6, <2>4 DEF SyncsOnce
    <2> QED
      BY <1>3, <2>1, <2>2, <2>3, <2>4
  <1>7. ASSUME NEW c \in sx \cup sy PROVE \E i \in DOMAIN s : s[i].sync /\ s[i].core = c
    BY <1>3 DEF SyncsOnce
  <1>8. ASSUME NEW i \in DOMAIN s, ~ s[i].sync
        PROVE  \/ s[i].core \in (lx \ sy) \cup ly
               \/ \E j \in DOMAIN s : i <= j /\ s[j].core = s[i].core /\ s[j].sync
    <2>1. CASE i \in DOMAIN x
      <3>1. x[i] = s[i]
        BY <1>3, <2>1
      <3>2. CASE \E j \in DOMAIN x : i <= j /\ x[j].core = x[i].core /\ x[j].sync
        BY <1>3, <3>1, <3>2
      <3>3. CASE s[i].core \in lx /\ s[i].core \in sy
        <4>1. PICK k \in DOMAIN y : y[k].sync /\ y[k].core = s[i].core
          BY <3>3 DEF SyncsOnce
        <4>2. i <= Len(x) + k
          BY <1>2, <2>1
        <4> QED
          BY <1>3, <4>1, <4>2
      <3> QED
        BY <1>8, <2>1, <3>1, <3>2, <3>3 DEF SyncsOnce
    <2>2. ASSUME NEW k \in DOMAIN y, i = Len(x) + k
          PROVE  \/ s[i].core \in ly
                 \/ \E j \in DOMAIN s : i <= j /\ s[j].core = s[i].core /\ s[j].sync
      <3>1. y[k] = s[i]
        BY <1>3, <2>2
      <3>2. ASSUME NEW l \in DOMAIN y, k <= l, y[l].core = y[k].core, y[l].sync
            PROVE  \E j \in DOMAIN s : i <= j /\ s[j].core = s[i].core /\ s[j].sync
        <4>1. i <= Len(x) + l
          BY <1>2, <2>2, <3>2
        <4> QED
          BY <1>3, <3>1, <3>2, <4>1
      <3> QED
        BY <1>8, <3>1, <3>2 DEF SyncsOnce
    <2> QED
      BY <1>3, <2>1, <2>2
  <1>9. SyncsOnce(s, a \cup b, sx \cup sy, (lx \ sy) \cup ly)
    BY <1>2, <1>4, <1>5, <1>6, <1>7, <1>8 DEF SyncsOnce
  <1> QED
    BY <1>9 DEF s

\* The actions of the parts a generator writes.
FillActions(init, args, placed) ==
  {InitAction(init, e[2], args[x], e[1]) : e \in placed, x \in DOMAIN args}
RunActions(kernel, args, cores, repeat) == {Compute(kernel, args, c, repeat) : c \in cores}
IdleActions(cores) == {DummyAction(c) : c \in cores}

\* The i-th core of one list is placed on the i-th of another.
Placement(cores, on) == {<<cores[k], on[k]>> : k \in DOMAIN cores}

LEMMA InitsSyncNone ==
  ASSUME NEW init, NEW args, IsList(args), args # <<>>, NEW cores, IsList(cores),
         NEW on, DOMAIN on = DOMAIN cores
  PROVE  SyncsOnce(Inits(init, args, cores, on), FillActions(init, args, Placement(cores, on)),
                   {}, CoresIn(on))
  <1> DEFINE L == Inits(init, args, cores, on) p == Placement(cores, on)
  <1>1. /\ IsList(L)
        /\ \A k \in DOMAIN cores : \A x \in DOMAIN args :
             \E i \in DOMAIN L : L[i] = InitAction(init, on[k], args[x], cores[k])
        /\ \A i \in DOMAIN L : \E k \in DOMAIN cores : \E x \in DOMAIN args :
             L[i] = InitAction(init, on[k], args[x], cores[k])
    <2>1. HasInits(L, init, args, cores, on)
      BY InitsIs
    <2> QED
      BY <2>1 DEF HasInits
  <1> HIDE DEF L
  <1>2. \A e : e \in p <=> \E k \in DOMAIN cores : e = <<cores[k], on[k]>>
    BY DEF Placement
  <1> HIDE DEF p
  <1>3. Elements(L) \subseteq FillActions(init, args, p)
    <2> SUFFICES ASSUME NEW i \in DOMAIN L PROVE L[i] \in FillActions(init, args, p)
      BY DEF Elements
    <2>1. PICK k \in DOMAIN cores : \E x \in DOMAIN args :
            L[i] = InitAction(init, on[k], args[x], cores[k])
      BY <1>1
    <2>2. <<cores[k], on[k]>> \in p
      BY <1>2
    <2> QED
      BY <2>1, <2>2 DEF FillActions
  <1>4. FillActions(init, args, p) \subseteq Elements(L)
    <2> SUFFICES ASSUME NEW e \in p, NEW x \in DOMAIN args
                 PROVE  InitAction(init, e[2], args[x], e[1]) \in Elements(L)
      BY DEF FillActions
    <2>1. PICK k \in DOMAIN cores : e = <<cores[k], on[k]>>
      BY <1>2
    <2>2. PICK i \in DOMAIN L : L[i] = InitAction(init, on[k], args[x], cores[k])
      BY <1>1
    <2> QED
      BY <2>1, <2>2 DEF Elements
  <1>5. \A i \in DOMAIN L : L[i].sync = FALSE /\ L[i].core \in CoresIn(on)
    BY <1>1 DEF InitAction, CreateAction, Map, CoresIn
  <1> QED
    BY <1>1, <1>3, <1>4, <1>5 DEF SyncsOnce, L, p

LEMMA ComputesSyncAll ==
  ASSUME NEW kernel, NEW args, NEW cores, IsList(cores), NoRepeats(cores), NEW repeat
  PROVE  SyncsOnce(Computes(kernel, args, cores, repeat),
                   RunActions(kernel, args, CoresIn(cores), repeat), CoresIn(cores), {})
  <1> DEFINE L == Computes(kernel, args, cores, repeat)
  <1>1. /\ IsList(L) /\ DOMAIN L = DOMAIN cores
        /\ \A k \in DOMAIN cores : L[k] = Compute(kernel, args, cores[k], repeat)
    BY ComputesIs
  <1> HIDE DEF L
  <1>2. Elements(L) = RunActions(kernel, args, CoresIn(cores), repeat)
    BY <1>1 DEF Elements, RunActions, CoresIn
  <1>3. \A k \in DOMAIN cores : L[k].sync = TRUE /\ L[k].core = cores[k]
    BY <1>1 DEF Compute, CreateAction, Map
  <1> QED
    BY <1>1, <1>2, <1>3 DEF SyncsOnce, NoRepeats, CoresIn, L

LEMMA DummiesSyncAll ==
  ASSUME NEW cores, IsList(cores), NoRepeats(cores)
  PROVE  SyncsOnce(Dummies(cores), IdleActions(CoresIn(cores)), CoresIn(cores), {})
  <1> DEFINE L == Dummies(cores)
  <1>1. /\ IsList(L) /\ DOMAIN L = DOMAIN cores
        /\ \A k \in DOMAIN cores : L[k] = DummyAction(cores[k])
    BY DummiesIs
  <1> HIDE DEF L
  <1>2. Elements(L) = IdleActions(CoresIn(cores))
    BY <1>1 DEF Elements, IdleActions, CoresIn
  <1>3. \A k \in DOMAIN cores : L[k].sync = TRUE /\ L[k].core = cores[k]
    BY <1>1 DEF DummyAction, CreateAction, Map
  <1> QED
    BY <1>1, <1>2, <1>3 DEF SyncsOnce, NoRepeats, CoresIn, L

\* A balanced scenario, whose programs are ordered by the meetings.
IsOrdered(s) == Balanced(s) /\ Separated(Programs(s)) /\ Supplied(Programs(s))

\* Each core has one placement.
OnePlace(placed) == \A e, f \in placed : e[1] = f[1] => e = f
PlacedCores(placed) == {e[1] : e \in placed}

\* A scenario of such parts is ordered.
LEMMA SyncsOnceOrdered ==
  ASSUME NEW s \in Scenarios, NEW kernel, NEW init, NEW args, NEW placed, NEW idle, NEW repeat,
         CanInit(init), CanCompute(kernel, args), OnePlace(placed), NEW acts, NEW syncs,
         SyncsOnce(s, acts, syncs, {}),
         acts = FillActions(init, args, placed)
                \cup RunActions(kernel, args, PlacedCores(placed), repeat) \cup IdleActions(idle)
  PROVE  Runnable(s) /\ IsOrdered(s)
  <1>1. Len(s) \in Nat /\ DOMAIN s = 1 .. Len(s)
    BY ScenarioIsSeq
  <1>2. Together(s, kernel, init, args, placed, idle, repeat)
    <2>1. Elements(s) = acts
      BY DEF SyncsOnce
    <2>2. ASSUME NEW i \in DOMAIN s
          PROVE  TogetherAction(s[i], kernel, init, args, placed, idle, repeat)
      <3>1. s[i] \in acts
        BY <2>1 DEF Elements
      <3>2. CASE s[i] \in FillActions(init, args, placed)
        BY <3>2 DEF FillActions, Fills, TogetherAction
      <3>3. CASE s[i] \in RunActions(kernel, args, PlacedCores(placed), repeat)
        BY <3>3 DEF RunActions, PlacedCores, Runs, TogetherAction
      <3>4. CASE s[i] \in IdleActions(idle)
        BY <3>4 DEF IdleActions, Idles, TogetherAction
      <3> QED
        BY <3>1, <3>2, <3>3, <3>4
    <2>3. ASSUME NEW e \in placed, NEW x \in DOMAIN args
          PROVE  \E i \in DOMAIN s : s[i] = InitAction(init, e[2], args[x], e[1])
      <3>1. InitAction(init, e[2], args[x], e[1]) \in acts
        BY DEF FillActions
      <3> QED
        BY <2>1, <3>1 DEF Elements
    <2>4. /\ \A i, j \in DOMAIN s : s[i].sync /\ s[j].sync /\ s[i].core = s[j].core => i = j
          /\ \A i \in DOMAIN s : ~ s[i].sync =>
               \E j \in DOMAIN s : i <= j /\ s[j].core = s[i].core /\ s[j].sync
      BY DEF SyncsOnce
    <2> QED
      BY <2>2, <2>3, <2>4 DEF Together, OnePlace
  <1> DEFINE n == Len(s) stage == [i \in DOMAIN s |-> IF s[i].sync THEN 1 ELSE 0]
  <1>3. n \in Nat /\ DOMAIN s = 1 .. n
    BY <1>1
  <1> HIDE DEF n
  <1>4. OnlyKernels(s) /\ MeetsOnce(s)
    BY <1>2, <1>3, TogetherMeetsOnce
  <1>5. Runnable(s) /\ InStages(s, stage, 1)
    BY <1>3, <1>4, MeetsOnceInStages
  <1> HIDE DEF stage
  <1>6. 1 \in Nat
    OBVIOUS
  <1> QED
    BY <1>5, <1>6, StagedIsOrdered DEF IsOrdered

\* The placements of two lists.
LEMMA PlacedIs ==
  ASSUME NEW cores, NoRepeats(cores), NEW on
  PROVE  OnePlace(Placement(cores, on)) /\ PlacedCores(Placement(cores, on)) = CoresIn(cores)
  <1>1. OnePlace(Placement(cores, on))
    <2> SUFFICES ASSUME NEW k \in DOMAIN cores, NEW l \in DOMAIN cores, cores[k] = cores[l]
                 PROVE  <<cores[k], on[k]>> = <<cores[l], on[l]>>
      BY DEF OnePlace, Placement
    <2> QED
      BY DEF NoRepeats
  <1>2. PlacedCores(Placement(cores, on)) = CoresIn(cores)
    <2>1. ASSUME NEW e \in Placement(cores, on) PROVE e[1] \in CoresIn(cores)
      BY DEF Placement, CoresIn
    <2>2. ASSUME NEW k \in DOMAIN cores PROVE cores[k] \in PlacedCores(Placement(cores, on))
      <3>1. <<cores[k], on[k]>> \in Placement(cores, on) /\ <<cores[k], on[k]>>[1] = cores[k]
        BY DEF Placement
      <3> QED
        BY <3>1 DEF PlacedCores
    <2>3. PlacedCores(Placement(cores, on)) \subseteq CoresIn(cores)
      BY <2>1 DEF PlacedCores
    <2>4. CoresIn(cores) \subseteq PlacedCores(Placement(cores, on))
      BY <2>2 DEF CoresIn
    <2> QED
      BY <2>3, <2>4
  <1> QED
    BY <1>1, <1>2

\* Kernels that start together are ordered, on whichever cores their arrays are
\* initialised.
LEMMA TogetherOnOrdered ==
  ASSUME NEW s \in Scenarios, NEW kernel, NEW init, NEW args, NEW actual, NEW initCore, NEW repeat,
         s = TogetherOn(kernel, init, args, actual, initCore, repeat),
         CanInit(init), CanCompute(kernel, args), IsList(args), args # <<>>,
         IsList(actual), NoRepeats(actual), IsList(initCore), DOMAIN initCore = DOMAIN actual,
         CoresIn(initCore) \subseteq Int
  PROVE  Runnable(s) /\ IsOrdered(s)
  <1> DEFINE I == Inits(init, args, actual, initCore) C == Computes(kernel, args, actual, repeat)
             d == Minus(initCore, actual) D == Dummies(d)
             p == Placement(actual, initCore) A == CoresIn(actual) N == CoresIn(initCore)
  <1>1. SyncsOnce(I, FillActions(init, args, p), {}, N)
    BY InitsSyncNone
  <1>2. SyncsOnce(C, RunActions(kernel, args, A, repeat), A, {})
    BY ComputesSyncAll
  <1>3. IsList(d) /\ NoRepeats(d) /\ CoresIn(d) = N \ A
    BY MinusIs
  <1>4. SyncsOnce(D, IdleActions(N \ A), N \ A, {})
    <2> HIDE DEF d, N, A
    <2> QED
      BY <1>3, DummiesSyncAll
  <1>5. s = (I \o C) \o D
    BY DEF TogetherOn
  <1>6. OnePlace(p) /\ PlacedCores(p) = A
    BY PlacedIs
  <1> HIDE DEF I, C, d, D, p, A, N
  <1> DEFINE F == FillActions(init, args, p) R == RunActions(kernel, args, A, repeat)
             W == IdleActions(N \ A)
  <1>7. SyncsOnce(I \o C, F \cup R, {} \cup A, (N \ A) \cup {})
    <2>1. {} \cap A = {}
      OBVIOUS
    <2> HIDE DEF F, R
    <2> QED
      BY <1>1, <1>2, <2>1, SyncsOnceJoined DEF F, R
  <1>8. SyncsOnce((I \o C) \o D, (F \cup R) \cup W, ({} \cup A) \cup (N \ A),
                  (((N \ A) \cup {}) \ (N \ A)) \cup {})
    <2>1. ({} \cup A) \cap (N \ A) = {}
      OBVIOUS
    <2>2. SyncsOnce(D, W, N \ A, {})
      BY <1>4
    <2> HIDE DEF F, R, W
    <2> QED
      BY <1>7, <2>1, <2>2, SyncsOnceJoined
  <1>9. (((N \ A) \cup {}) \ (N \ A)) \cup {} = {}
    OBVIOUS
  <1> DEFINE acts == (F \cup R) \cup W syncs == ({} \cup A) \cup (N \ A)
  <1>10. SyncsOnce(s, acts, syncs, {})
    BY <1>5, <1>8, <1>9
  <1>11. acts = FillActions(init, args, p) \cup RunActions(kernel, args, PlacedCores(p), repeat)
                \cup IdleActions(N \ A)
    BY <1>6
  <1> HIDE DEF acts, syncs
  <1> QED
    BY <1>6, <1>10, <1>11, SyncsOnceOrdered

\* Kernels that start together, some with their arrays at hand, are ordered when
\* no core that initialises for others has one of the former.
LEMMA TwoGroupsOrdered ==
  ASSUME NEW s \in Scenarios, NEW kernel, NEW init, NEW args, NEW near, NEW far, NEW farInit,
         NEW repeat, NEW d,
         s = Inits(init, args, near, near) \o Computes(kernel, args, near, repeat)
             \o Inits(init, args, far, farInit) \o Computes(kernel, args, far, repeat) \o Dummies(d),
         CanInit(init), CanCompute(kernel, args), IsList(args), args # <<>>,
         IsList(near), IsList(far), DOMAIN farInit = DOMAIN far, NoRepeats(near), NoRepeats(far),
         CoresIn(near) \cap CoresIn(far) = {}, CoresIn(near) \cap CoresIn(farInit) = {},
         IsList(d), NoRepeats(d),
         CoresIn(d) = (CoresIn(near) \cup CoresIn(farInit)) \ (CoresIn(near) \cup CoresIn(far))
  PROVE  Runnable(s) /\ IsOrdered(s)
  <1> DEFINE I == Inits(init, args, near, near) C == Computes(kernel, args, near, repeat)
             J == Inits(init, args, far, farInit) E == Computes(kernel, args, far, repeat)
             D == Dummies(d) A == CoresIn(near) B == CoresIn(far) N == CoresIn(farInit)
             p == Placement(near, near) q == Placement(far, farInit) W == CoresIn(d)
  <1>1. SyncsOnce(I, FillActions(init, args, p), {}, A)
    BY InitsSyncNone
  <1>2. SyncsOnce(C, RunActions(kernel, args, A, repeat), A, {})
    BY ComputesSyncAll
  <1>3. SyncsOnce(J, FillActions(init, args, q), {}, N)
    BY InitsSyncNone
  <1>4. SyncsOnce(E, RunActions(kernel, args, B, repeat), B, {})
    BY ComputesSyncAll
  <1>5. SyncsOnce(D, IdleActions(W), W, {})
    BY DummiesSyncAll
  <1>6. s = (((I \o C) \o J) \o E) \o D
    OBVIOUS
  <1>7. OnePlace(p) /\ PlacedCores(p) = A /\ OnePlace(q) /\ PlacedCores(q) = B
    BY PlacedIs
  <1>8. A \cap B = {} /\ A \cap N = {} /\ W = (A \cup N) \ (A \cup B)
    OBVIOUS
  <1> HIDE DEF I, C, J, E, D, p, q, A, B, N, W
  <1>9. {} \cap A = {} /\ ({} \cup A) \cap {} = {} /\ (({} \cup A) \cup {}) \cap B = {}
        /\ ((({} \cup A) \cup {}) \cup B) \cap W = {}
    BY <1>8
  <1> DEFINE F == FillActions(init, args, p) R == RunActions(kernel, args, A, repeat)
             G == FillActions(init, args, q) S == RunActions(kernel, args, B, repeat)
             U == IdleActions(W)
  <1>10. SyncsOnce(I, F, {}, A) /\ SyncsOnce(C, R, A, {}) /\ SyncsOnce(J, G, {}, N)
         /\ SyncsOnce(E, S, B, {}) /\ SyncsOnce(D, U, W, {})
    BY <1>1, <1>2, <1>3, <1>4, <1>5
  <1> HIDE DEF F, R, G, S, U
  <1>11. SyncsOnce(I \o C, F \cup R, {} \cup A, (A \ A) \cup {})
    BY <1>9, <1>10, SyncsOnceJoined
  <1>12. SyncsOnce((I \o C) \o J, (F \cup R) \cup G, ({} \cup A) \cup {}, (((A \ A) \cup {}) \ {}) \cup N)
    BY <1>9, <1>10, <1>11, SyncsOnceJoined
  <1>13. SyncsOnce(((I \o C) \o J) \o E, ((F \cup R) \cup G) \cup S, (({} \cup A) \cup {}) \cup B,
                   (((((A \ A) \cup {}) \ {}) \cup N) \ B) \cup {})
    BY <1>9, <1>10, <1>12, SyncsOnceJoined
  <1>14. SyncsOnce((((I \o C) \o J) \o E) \o D, (((F \cup R) \cup G) \cup S) \cup U,
                   ((({} \cup A) \cup {}) \cup B) \cup W,
                   (((((((A \ A) \cup {}) \ {}) \cup N) \ B) \cup {}) \ W) \cup {})
    BY <1>9, <1>10, <1>13, SyncsOnceJoined
  <1>15. (((((((A \ A) \cup {}) \ {}) \cup N) \ B) \cup {}) \ W) \cup {} = {}
    BY <1>8
  <1> DEFINE acts == (((F \cup R) \cup G) \cup S) \cup U
             syncs == ((({} \cup A) \cup {}) \cup B) \cup W
             placed == p \cup q
  <1>16. SyncsOnce(s, acts, syncs, {})
    BY <1>6, <1>14, <1>15
  <1>17. OnePlace(placed)
    <2>1. \A e \in p, f \in q : e[1] # f[1]
      BY <1>7, <1>8 DEF PlacedCores
    <2> QED
      BY <1>7, <2>1 DEF OnePlace
  <1>18. PlacedCores(placed) = A \cup B
    <2>1. PlacedCores(placed) = PlacedCores(p) \cup PlacedCores(q)
      BY DEF PlacedCores
    <2> QED
      BY <1>7, <2>1
  <1>19. FillActions(init, args, placed) = F \cup G
    BY DEF FillActions, F, G
  <1>20. RunActions(kernel, args, A \cup B, repeat) = R \cup S
    BY DEF RunActions, R, S
  <1> HIDE DEF placed
  <1>21. acts = FillActions(init, args, placed) \cup RunActions(kernel, args, PlacedCores(placed), repeat)
                \cup IdleActions(W)
    BY <1>18, <1>19, <1>20 DEF U
  <1> HIDE DEF acts, syncs
  <1> QED
    BY <1>16, <1>17, <1>21, SyncsOnceOrdered

-------------------------------------------------------------------------------
(* The cores of the machines. *)

\* No two of the cores a script numbers are the same core of the machine.
LEMMA PhyCoreIs ==
  ASSUME NEW machine
  PROVE  /\ \A i \in Nat : PhyCore(machine, i) \in Int
         /\ \A i, j \in 0 .. 95 : PhyCore(machine, i) = PhyCore(machine, j) => i = j
         /\ machine # "brunch" => \A i : PhyCore(machine, i) = i
  <1>1. CASE machine # "brunch"
    BY <1>1 DEF PhyCore
  <1>2. CASE machine = "brunch"
    <2>1. \A i \in Nat : PhyCore(machine, i) = ((i * 4) % 96) + (i \div 24)
      BY <1>2 DEF PhyCore
    <2>2. \A i \in 0 .. 95 : ((i * 4) % 96) = 4 * (i - 24 * (i \div 24)) /\ (i \div 24) \in 0 .. 3
      OBVIOUS
    <2>3. ASSUME NEW i \in 0 .. 95, NEW j \in 0 .. 95, PhyCore(machine, i) = PhyCore(machine, j)
          PROVE  i = j
      <3> DEFINE a == i \div 24 b == j \div 24
      <3>1. 4 * (i - 24 * a) + a = 4 * (j - 24 * b) + b /\ a \in 0 .. 3 /\ b \in 0 .. 3
        BY <2>1, <2>2, <2>3
      <3> HIDE DEF a, b
      <3> QED
        BY <3>1
    <2>4. \A i \in Nat : ((i * 4) % 96) + (i \div 24) \in Int
      OBVIOUS
    <2> QED
      BY <1>2, <2>1, <2>3, <2>4
  <1> QED
    BY <1>1, <1>2

\* A core of the next node is a core.
LEMMA NextNodeCoreIs ==
  ASSUME NEW machine PROVE \A i \in Nat : NextNodeCore(machine, i) \in Int
  <1> SUFFICES ASSUME NEW i \in Nat PROVE NextNodeCore(machine, i) \in Int
    OBVIOUS
  <1> DEFINE c == PhyCore(machine, i)
  <1>1. c \in Int
    BY PhyCoreIs
  <1> HIDE DEF c
  <1>2. (c + 1) % 96 \in Int /\ (c + 8) % 192 \in Int /\ (c + 8) % 48 \in Int /\ i \in Int
    BY <1>1
  <1> QED
    BY <1>2 DEF NextNodeCore, c

\* Lists of cores as the scripts number them.
OnMachine(machine, cores) ==
  /\ IsList(cores) /\ NoRepeats(cores)
  /\ CoresIn(cores) \subseteq IF machine = "brunch" THEN 0 .. 95 ELSE Nat

ActualCores(machine, cores) == [i \in DOMAIN cores |-> PhyCore(machine, cores[i])]
NextCores(machine, cores) == [i \in DOMAIN cores |-> NextNodeCore(machine, cores[i])]

\* The same list, on the machine and on the next node.
LEMMA MachineCores ==
  ASSUME NEW machine, NEW cores, OnMachine(machine, cores)
  PROVE  /\ IsList(ActualCores(machine, cores)) /\ NoRepeats(ActualCores(machine, cores))
         /\ IsList(NextCores(machine, cores))
         /\ DOMAIN ActualCores(machine, cores) = DOMAIN cores
         /\ DOMAIN NextCores(machine, cores) = DOMAIN cores
         /\ CoresIn(ActualCores(machine, cores)) \subseteq Int
         /\ CoresIn(NextCores(machine, cores)) \subseteq Int
         /\ \A i \in DOMAIN cores : cores[i] \in Nat
         /\ \A i, j \in DOMAIN cores :
              PhyCore(machine, cores[i]) = PhyCore(machine, cores[j]) => i = j
  <1> DEFINE n == Len(cores) A == ActualCores(machine, cores) N == NextCores(machine, cores)
  <1>1. n \in Nat /\ DOMAIN cores = 1 .. n
    BY ListPlaces DEF OnMachine
  <1>2. /\ DOMAIN A = DOMAIN cores /\ A = [k \in DOMAIN A |-> A[k]]
        /\ \A i \in DOMAIN cores : A[i] = PhyCore(machine, cores[i])
    BY DEF ActualCores
  <1>3. /\ DOMAIN N = DOMAIN cores /\ N = [k \in DOMAIN N |-> N[k]]
        /\ \A i \in DOMAIN cores : N[i] = NextNodeCore(machine, cores[i])
    BY DEF NextCores
  <1> HIDE DEF n, A, N
  <1>4. IsList(A) /\ IsList(N)
    BY <1>1, <1>2, <1>3, FunctionIsList
  <1>5. \A i \in DOMAIN cores : cores[i] \in IF machine = "brunch" THEN 0 .. 95 ELSE Nat
    BY DEF OnMachine, CoresIn
  <1>6. \A i \in DOMAIN cores : cores[i] \in Nat
    BY <1>5
  <1>7. ASSUME NEW i \in DOMAIN cores, NEW j \in DOMAIN cores,
               PhyCore(machine, cores[i]) = PhyCore(machine, cores[j])
        PROVE  i = j
    <2>1. cores[i] = cores[j]
      BY <1>5, <1>7, PhyCoreIs
    <2> QED
      BY <2>1 DEF OnMachine, NoRepeats
  <1>8. NoRepeats(A)
    BY <1>2, <1>7 DEF NoRepeats
  <1>9. CoresIn(A) \subseteq Int
    BY <1>2, <1>6, PhyCoreIs DEF CoresIn
  <1>10. CoresIn(N) \subseteq Int
    BY <1>3, <1>6, NextNodeCoreIs DEF CoresIn
  <1> QED
    BY <1>2, <1>3, <1>4, <1>6, <1>7, <1>8, <1>9, <1>10 DEF A, N

\* What generate_scenario writes is ordered.
LEMMA KernelScenarioOrdered ==
  ASSUME NEW s \in Scenarios, NEW machine, NEW kernel, NEW init, NEW args, NEW cores,
         NEW shiftInit, NEW repeat,
         s = KernelScenario(machine, kernel, init, args, cores, shiftInit, repeat),
         CanInit(init), CanCompute(kernel, args), IsList(args), args # <<>>, OnMachine(machine, cores)
  PROVE  Runnable(s) /\ IsOrdered(s)
  <1> DEFINE A == ActualCores(machine, cores)
             M == IF shiftInit THEN NextCores(machine, cores) ELSE A
  <1>1. s = TogetherOn(kernel, init, args, A, M, repeat)
    BY DEF KernelScenario, ActualCores, NextCores
  <1>2. IsList(A) /\ NoRepeats(A) /\ IsList(M) /\ DOMAIN M = DOMAIN A /\ CoresIn(M) \subseteq Int
    BY MachineCores
  <1> HIDE DEF A, M
  <1> QED
    BY <1>1, <1>2, TogetherOnOrdered

\* The kernels the scripts use are among those main knows.
ScriptKernels == FirstWritten \cup {"dtrsm", "dsyrk", "dgemm", "naive_dgemm"}

LEMMA ScriptArgs ==
  ASSUME ScriptKernels \subseteq KnownKernels, NEW kernel \in DOMAIN ArgsOf
  PROVE  /\ CanCompute(kernel, ArgsOf[kernel]) /\ IsList(ArgsOf[kernel]) /\ ArgsOf[kernel] # <<>>
         /\ CanInit("init_blas_bloc") /\ CanInit("init_symmetric") /\ CanInit("init_array")
  <1>1. CanInit("init_blas_bloc") /\ CanInit("init_symmetric") /\ CanInit("init_array")
    BY DEF CanInit, ScriptKernels, FirstWritten, InitKernels
  <1>2. kernel \in {"naive_dgemm", "dgemm", "dtrsm", "dsyrk", "dpotrf"}
    BY DEF ArgsOf
  <1>3. /\ ArgsOf["naive_dgemm"] = <<"a", "b", "c">> /\ ArgsOf["dgemm"] = <<"a", "b", "c">>
        /\ ArgsOf["dtrsm"] = <<"a", "b">> /\ ArgsOf["dsyrk"] = <<"a", "b">> /\ ArgsOf["dpotrf"] = <<"a">>
    BY DEF ArgsOf
  <1>4. \A x, y, z : /\ IsList(<<x, y, z>>) /\ <<x, y, z>> # <<>> /\ DOMAIN <<x, y, z>> = 1 .. 3
                     /\ IsList(<<x, y>>) /\ <<x, y>> # <<>> /\ DOMAIN <<x, y>> = 1 .. 2
                     /\ IsList(<<x>>) /\ <<x>> # <<>> /\ DOMAIN <<x>> = 1 .. 1
    BY DEF IsList, Elements
  <1>5. IsList(ArgsOf[kernel]) /\ ArgsOf[kernel] # <<>>
    BY <1>2, <1>3, <1>4
  <1>6. WrittenArg[kernel] \in DOMAIN ArgsOf[kernel]
    BY <1>2, <1>3, <1>4, WrittenArgIs DEF FirstWritten
  <1>7. kernel \in KnownKernels \ {"void"} /\ kernel \notin InitKernels
    BY <1>2 DEF ScriptKernels, FirstWritten, InitKernels
  <1> QED
    BY <1>1, <1>5, <1>6, <1>7 DEF CanCompute

\* The cores 0 .. n - 1.
LEMMA FirstCoresOnMachine ==
  ASSUME NEW machine, NEW n \in Nat, machine = "brunch" => n <= 96
  PROVE  OnMachine(machine, FirstCores(n)) /\ DOMAIN FirstCores(n) = 1 .. n
  <1> DEFINE C == FirstCores(n)
  <1>1. DOMAIN C = 1 .. n /\ C = [k \in DOMAIN C |-> C[k]] /\ \A i \in 1 .. n : C[i] = i - 1
    BY DEF FirstCores
  <1> HIDE DEF C
  <1>2. IsList(C)
    BY <1>1, FunctionIsList
  <1>3. NoRepeats(C)
    BY <1>1 DEF NoRepeats
  <1>4. CoresIn(C) \subseteq IF machine = "brunch" THEN 0 .. 95 ELSE Nat
    <2>1. ASSUME NEW i \in 1 .. n PROVE C[i] \in Nat /\ (n <= 96 => C[i] \in 0 .. 95)
      <3>1. i - 1 \in Nat /\ (n <= 96 => i - 1 \in 0 .. 95)
        OBVIOUS
      <3>2. C[i] = i - 1
        BY <1>1
      <3> QED
        BY <3>1, <3>2
    <2>2. CoresIn(C) \subseteq Nat /\ (n <= 96 => CoresIn(C) \subseteq 0 .. 95)
      BY <1>1, <2>1 DEF CoresIn
    <2> QED
      BY <2>2
  <1> QED
    BY <1>1, <1>2, <1>3, <1>4 DEF OnMachine, C

-------------------------------------------------------------------------------
(* The scripts whose kernels start together. *)

LEMMA DriverOrdered ==
  ASSUME NEW s \in Scenarios, ScriptKernels \subseteq KnownKernels,
         NEW machine, NEW kernel \in DOMAIN ArgsOf, NEW n \in Nat, machine = "brunch" => n <= 96,
         NEW remote, s = Driver(machine, kernel, n, remote)
  PROVE  IsOrdered(s)
  <1> DEFINE init == IF kernel = "dpotrf" THEN "init_symmetric" ELSE "init_blas_bloc"
             args == ArgsOf[kernel] cores == FirstCores(n)
  <1>1. s = KernelScenario(machine, kernel, init, args, cores, remote, 200)
    BY DEF Driver
  <1>2. CanInit(init) /\ CanCompute(kernel, args) /\ IsList(args) /\ args # <<>>
    BY ScriptArgs
  <1>3. OnMachine(machine, cores)
    BY FirstCoresOnMachine
  <1> HIDE DEF init, args, cores
  <1> QED
    BY <1>1, <1>2, <1>3, KernelScenarioOrdered

LEMMA DtrsmOrdered ==
  ASSUME NEW s \in Scenarios, ScriptKernels \subseteq KnownKernels,
         NEW n \in 0 .. 96, NEW remote, s = Dtrsm(n, remote)
  PROVE  IsOrdered(s)
  <1> DEFINE args == ArgsOf["dtrsm"] cores == FirstCores(n)
  <1>1. s = KernelScenario("brunch", "dtrsm", "init_blas_bloc", args, cores, remote, 50)
    BY DEF Dtrsm
  <1>2. "dtrsm" \in DOMAIN ArgsOf
    BY DEF ArgsOf
  <1>3. CanInit("init_blas_bloc") /\ CanCompute("dtrsm", args) /\ IsList(args) /\ args # <<>>
    BY <1>2, ScriptArgs
  <1>4. n \in Nat /\ n <= 96
    OBVIOUS
  <1>5. OnMachine("brunch", cores)
    BY <1>4, FirstCoresOnMachine
  <1> HIDE DEF args, cores
  <1> QED
    BY <1>1, <1>3, <1>5, KernelScenarioOrdered

LEMMA SpreadOrdered ==
  ASSUME NEW s \in Scenarios, ScriptKernels \subseteq KnownKernels,
         NEW i \in Nat, NEW remote, s = Spread(i, remote)
  PROVE  IsOrdered(s)
  <1> DEFINE n == (i + 1) * 4 args == ArgsOf["dgemm"] cores == FirstCores(n)
             next == [sid \in DOMAIN cores |-> (cores[sid] + 1) % 96]
             on == IF remote THEN next ELSE cores
  <1>1. s = TogetherOn("dgemm", "init_blas_bloc", args, cores, on, 50)
    BY DEF Spread
  <1>2. "dgemm" \in DOMAIN ArgsOf
    BY DEF ArgsOf
  <1>3. CanInit("init_blas_bloc") /\ CanCompute("dgemm", args) /\ IsList(args) /\ args # <<>>
    BY <1>2, ScriptArgs
  <1>4. n \in Nat /\ "idkat" # "brunch"
    OBVIOUS
  <1> HIDE DEF n
  <1>5. OnMachine("idkat", cores) /\ DOMAIN cores = 1 .. n
    BY <1>4, FirstCoresOnMachine
  <1>6. IsList(cores) /\ NoRepeats(cores) /\ CoresIn(cores) \subseteq Nat
    BY <1>4, <1>5 DEF OnMachine
  <1>7. \A k \in DOMAIN cores : cores[k] \in Nat
    BY <1>6 DEF CoresIn
  <1> HIDE DEF cores
  <1>8. /\ DOMAIN next = 1 .. n /\ next = [k \in DOMAIN next |-> next[k]]
        /\ \A k \in DOMAIN next : next[k] \in Int
    BY <1>5, <1>7
  <1> HIDE DEF next
  <1>9. IsList(next)
    BY <1>4, <1>8, FunctionIsList
  <1>10. CoresIn(next) \subseteq Int /\ CoresIn(cores) \subseteq Int
    BY <1>6, <1>8 DEF CoresIn
  <1>11. IsList(on) /\ DOMAIN on = DOMAIN cores /\ CoresIn(on) \subseteq Int
    BY <1>5, <1>6, <1>8, <1>9, <1>10
  <1> HIDE DEF on, args
  <1> QED
    BY <1>1, <1>3, <1>6, <1>11, TogetherOnOrdered

\* The first cores of a node, and the cores of the next node.
LEMMA NodeAndNext ==
  ASSUME NEW machine \in {"idchire", "brunch", "idkat"}, NEW i \in 0 .. 7, NEW j \in 0 .. 7
  PROVE  PhyCore(machine, i) # NextNodeCore(machine, j)
  <1>1. CASE machine = "brunch"
    <2>1. PhyCore(machine, i) = ((i * 4) % 96) + (i \div 24)
          /\ NextNodeCore(machine, j) = ((((j * 4) % 96) + (j \div 24)) + 1) % 96
      BY <1>1 DEF PhyCore, NextNodeCore
    <2>2. \A x \in 0 .. 7 : ((x * 4) % 96) + (x \div 24) = 4 * x
      OBVIOUS
    <2>3. \A x \in 0 .. 7 : (4 * x + 1) % 96 = 4 * x + 1
      OBVIOUS
    <2> QED
      BY <2>1, <2>2, <2>3
  <1>2. CASE machine # "brunch"
    <2>1. PhyCore(machine, i) = i /\ PhyCore(machine, j) = j
      BY <1>2 DEF PhyCore
    <2>2. NextNodeCore(machine, j) \in {(j + 8) % 192, (j + 8) % 48}
      BY <1>2, <2>1 DEF NextNodeCore
    <2>3. (j + 8) % 192 = j + 8 /\ (j + 8) % 48 = j + 8
      OBVIOUS
    <2> QED
      BY <2>1, <2>2, <2>3
  <1> QED
    BY <1>1, <1>2

\* The elements of lists that are joined.
LEMMA JoinedCores ==
  ASSUME NEW x, NEW y, IsList(x), IsList(y)
  PROVE  IsList(x \o y) /\ CoresIn(x \o y) = CoresIn(x) \cup CoresIn(y)
  <1> DEFINE s == x \o y
  <1>1. JoinsTo(x, y, s)
    BY JoinedIs
  <1> HIDE DEF s
  <1>2. \A k \in DOMAIN s : s[k] \in CoresIn(x) \cup CoresIn(y)
    BY <1>1 DEF JoinsTo, CoresIn
  <1>3. (\A k \in DOMAIN x : x[k] \in CoresIn(s)) /\ (\A k \in DOMAIN y : y[k] \in CoresIn(s))
    BY <1>1 DEF JoinsTo, CoresIn
  <1>4. CoresIn(s) \subseteq CoresIn(x) \cup CoresIn(y)
    BY <1>2 DEF CoresIn
  <1>5. CoresIn(x) \cup CoresIn(y) \subseteq CoresIn(s)
    BY <1>3 DEF CoresIn
  <1> QED
    BY <1>1, <1>4, <1>5 DEF JoinsTo, s

\* The eight cores of a node, some of which have their arrays on the next.
LEMMA OneNodeOrdered ==
  ASSUME NEW s \in Scenarios, ScriptKernels \subseteq KnownKernels,
         NEW machine \in {"idchire", "brunch", "idkat"}, NEW kernel \in DOMAIN ArgsOf, NEW repeat,
         NEW local, NEW remote, IsList(local), IsList(remote), NoRepeats(local), NoRepeats(remote),
         CoresIn(local) \subseteq 0 .. 7, CoresIn(remote) \subseteq 0 .. 7,
         CoresIn(local) \cap CoresIn(remote) = {},
         s = OneNode(machine, kernel, ArgsOf[kernel], local, remote, repeat)
  PROVE  IsOrdered(s)
  <1> DEFINE init == "init_blas_bloc" args == ArgsOf[kernel]
             A == ActualCores(machine, local) B == ActualCores(machine, remote)
             N == NextCores(machine, remote) d == Minus(A \o N, A \o B)
  <1>1. s = Inits(init, args, A, A) \o Computes(kernel, args, A, repeat)
            \o Inits(init, args, B, N) \o Computes(kernel, args, B, repeat) \o Dummies(d)
    BY DEF OneNode, ActualCores, NextCores
  <1>2. CanInit(init) /\ CanCompute(kernel, args) /\ IsList(args) /\ args # <<>>
    BY ScriptArgs
  <1>3. OnMachine(machine, local) /\ OnMachine(machine, remote)
    BY DEF OnMachine
  <1>4. /\ IsList(A) /\ NoRepeats(A) /\ CoresIn(A) \subseteq Int /\ DOMAIN A = DOMAIN local
        /\ \A k \in DOMAIN A : A[k] = PhyCore(machine, local[k])
    BY <1>3, MachineCores DEF ActualCores
  <1>5. /\ IsList(B) /\ NoRepeats(B) /\ CoresIn(B) \subseteq Int /\ DOMAIN B = DOMAIN remote
        /\ \A k \in DOMAIN B : B[k] = PhyCore(machine, remote[k])
    BY <1>3, MachineCores DEF ActualCores
  <1>6. /\ IsList(N) /\ CoresIn(N) \subseteq Int /\ DOMAIN N = DOMAIN remote
        /\ \A k \in DOMAIN N : N[k] = NextNodeCore(machine, remote[k])
    BY <1>3, MachineCores DEF NextCores
  <1> HIDE DEF A, B, N, init, args
  <1>7. \A k \in DOMAIN local : local[k] \in 0 .. 7 /\ local[k] \in CoresIn(local)
    BY DEF CoresIn
  <1>8. \A k \in DOMAIN remote : remote[k] \in 0 .. 7 /\ remote[k] \in CoresIn(remote)
    BY DEF CoresIn
  <1>9. CoresIn(A) \cap CoresIn(B) = {}
    <2> SUFFICES ASSUME NEW k \in DOMAIN local, NEW l \in DOMAIN remote,
                        PhyCore(machine, local[k]) = PhyCore(machine, remote[l])
                 PROVE  FALSE
      BY <1>4, <1>5 DEF CoresIn
    <2>1. local[k] \in 0 .. 95 /\ remote[l] \in 0 .. 95
      BY <1>7, <1>8
    <2>2. local[k] = remote[l]
      BY <2>1, PhyCoreIs
    <2> QED
      BY <1>7, <1>8, <2>2
  <1>10. CoresIn(A) \cap CoresIn(N) = {}
    <2> SUFFICES ASSUME NEW k \in DOMAIN local, NEW l \in DOMAIN remote
                 PROVE  PhyCore(machine, local[k]) # NextNodeCore(machine, remote[l])
      BY <1>4, <1>6 DEF CoresIn
    <2> QED
      BY <1>7, <1>8, NodeAndNext
  <1>11. /\ IsList(A \o N) /\ CoresIn(A \o N) = CoresIn(A) \cup CoresIn(N)
         /\ CoresIn(A \o B) = CoresIn(A) \cup CoresIn(B)
    BY <1>4, <1>5, <1>6, JoinedCores
  <1>12. CoresIn(A \o N) \subseteq Int
    BY <1>4, <1>6, <1>11
  <1>13. /\ IsList(d) /\ NoRepeats(d)
         /\ CoresIn(d) = (CoresIn(A) \cup CoresIn(N)) \ (CoresIn(A) \cup CoresIn(B))
    BY <1>11, <1>12, MinusIs
  <1> HIDE DEF d
  <1> QED
    BY <1>1, <1>2, <1>4, <1>5, <1>6, <1>9, <1>10, <1>13, TwoGroupsOrdered

-------------------------------------------------------------------------------
(* The script that runs two kernels on each core. *)

MixedArrays == <<"a", "b", "c">>

\* What the p-th action of the block of core c does.
MixedAction(a, c, p) ==
  /\ IsKernel(a) /\ a.core = c /\ (a.sync <=> p \in 4 .. 5) /\ Written(a) \subseteq Used(a)
  /\ p \in 1 .. 3 => Used(a) = {<<MixedArrays[p], c>>} /\ Renewed(a) = Used(a)
  /\ p \in 4 .. 5 => \A r \in Used(a) : \E q \in 1 .. 3 : r = <<MixedArrays[q], c>>

MixedBlock(c) ==
  InitBlocks("init_blas_bloc", c, ArgsOf["dgemm"], c)
  \o <<Compute("dtrsm", ArgsOf["dtrsm"], c, 50), Compute("dgemm", ArgsOf["dgemm"], c, 50)>>

LEMMA MixedBlockIs ==
  ASSUME ScriptKernels \subseteq KnownKernels, NEW c
  PROVE  \A p \in 1 .. 5 : MixedAction(MixedBlock(c)[p], c, p)
  <1> DEFINE f == InitBlocks("init_blas_bloc", c, ArgsOf["dgemm"], c)
             x == Compute("dtrsm", ArgsOf["dtrsm"], c, 50) y == Compute("dgemm", ArgsOf["dgemm"], c, 50)
             g == <<x, y>> b == f \o g
  <1>1. ArgsOf["dgemm"] = MixedArrays /\ ArgsOf["dtrsm"] = <<"a", "b">>
        /\ "dgemm" \in DOMAIN ArgsOf /\ "dtrsm" \in DOMAIN ArgsOf
    BY DEF ArgsOf, MixedArrays
  <1>2. DOMAIN MixedArrays = 1 .. 3
        /\ MixedArrays[1] = "a" /\ MixedArrays[2] = "b" /\ MixedArrays[3] = "c"
    BY DEF MixedArrays
  <1>3. /\ DOMAIN f = 1 .. 3 /\ f = [k \in DOMAIN f |-> f[k]]
        /\ \A p \in 1 .. 3 : f[p] = InitAction("init_blas_bloc", c, MixedArrays[p], c)
    BY <1>1, <1>2 DEF InitBlocks, InitAction
  <1> HIDE DEF f, x, y
  <1>4. IsList(g) /\ DOMAIN g = 1 .. 2 /\ g[1] = x /\ g[2] = y
    BY DEF IsList, Elements
  <1> HIDE DEF g
  <1>5. 3 \in Nat
    OBVIOUS
  <1>6. IsList(f) /\ Len(f) = 3
    BY <1>3, <1>5, FunctionIsList
  <1>7. JoinsTo(f, g, b)
    BY <1>4, <1>6, JoinedIs
  <1> HIDE DEF b
  <1>8. /\ \A p \in 1 .. 3 : b[p] = f[p]
        /\ b[3 + 1] = g[1] /\ b[3 + 2] = g[2]
    BY <1>3, <1>4, <1>6, <1>7 DEF JoinsTo
  <1>9. ASSUME NEW p \in 1 .. 3 PROVE MixedAction(b[p], c, p)
    <2> DEFINE a == b[p]
    <2>1. a = InitAction("init_blas_bloc", c, MixedArrays[p], c)
      BY <1>3, <1>8
    <2> HIDE DEF a
    <2>2. CanInit("init_blas_bloc")
      BY <1>1, ScriptArgs
    <2>3. /\ IsKernel(a) /\ a.core = c /\ ~ a.sync /\ Used(a) = {<<MixedArrays[p], c>>}
          /\ Written(a) = {<<MixedArrays[p], c>>} /\ Renewed(a) = {<<MixedArrays[p], c>>}
      BY <2>1, <2>2, InitActionIs
    <2>4. p \notin 4 .. 5
      OBVIOUS
    <2> QED
      BY <2>3, <2>4 DEF MixedAction, a
  <1>10. CanCompute("dtrsm", ArgsOf["dtrsm"]) /\ CanCompute("dgemm", ArgsOf["dgemm"])
    BY <1>1, ScriptArgs
  <1>11. MixedAction(b[4], c, 4)
    <2>1. x = Compute("dtrsm", ArgsOf["dtrsm"], c, 50)
      BY DEF x
    <2>2. /\ IsKernel(x) /\ x.core = c /\ x.sync /\ Written(x) \subseteq Used(x)
          /\ Used(x) = {<<ArgsOf["dtrsm"][k], c>> : k \in DOMAIN ArgsOf["dtrsm"]}
      BY <1>10, <2>1, ComputeIs
    <2>3. \A k \in DOMAIN ArgsOf["dtrsm"] : k \in 1 .. 3 /\ ArgsOf["dtrsm"][k] = MixedArrays[k]
      BY <1>1, <1>2
    <2>4. \A r \in Used(x) : \E q \in 1 .. 3 : r = <<MixedArrays[q], c>>
      BY <2>2, <2>3
    <2>5. b[4] = x
      BY <1>4, <1>8
    <2> QED
      BY <2>2, <2>4, <2>5 DEF MixedAction
  <1>12. MixedAction(b[5], c, 5)
    <2>1. y = Compute("dgemm", ArgsOf["dgemm"], c, 50)
      BY DEF y
    <2>2. /\ IsKernel(y) /\ y.core = c /\ y.sync /\ Written(y) \subseteq Used(y)
          /\ Used(y) = {<<ArgsOf["dgemm"][k], c>> : k \in DOMAIN ArgsOf["dgemm"]}
      BY <1>10, <2>1, ComputeIs
    <2>3. \A k \in DOMAIN ArgsOf["dgemm"] : k \in 1 .. 3 /\ ArgsOf["dgemm"][k] = MixedArrays[k]
      BY <1>1, <1>2
    <2>4. \A r \in Used(y) : \E q \in 1 .. 3 : r = <<MixedArrays[q], c>>
      BY <2>2, <2>3
    <2>5. b[5] = y
      BY <1>4, <1>8
    <2> QED
      BY <2>2, <2>4, <2>5 DEF MixedAction
  <1>13. MixedBlock(c) = b
    BY DEF MixedBlock, b, f, g, x, y
  <1> QED
    BY <1>9, <1>11, <1>12, <1>13

\* The number of a meeting by the place in a block.
MixedStage(p) == IF p <= 3 THEN 0 ELSE p - 3

LEMMA MixedOrdered ==
  ASSUME NEW s \in Scenarios, ScriptKernels \subseteq KnownKernels, NEW n \in 0 .. 96, s = Mixed(n)
  PROVE  IsOrdered(s)
  <1> DEFINE core(i) == PhyCore("brunch", i - 1)
             B == [i \in 1 .. n |-> MixedBlock(core(i))]
             at(k) == InBlock(5, k)
             stage == [k \in DOMAIN s |-> MixedStage(at(k))]
  <1>1. s = InTurn(5, B)
    BY DEF Mixed, MixedBlock
  <1>2. /\ DOMAIN B = 1 .. n /\ B = [k \in DOMAIN B |-> B[k]]
        /\ \A i \in 1 .. n : B[i] = MixedBlock(core(i))
    OBVIOUS
  <1>3. \A i, j \in 1 .. n : core(i) = core(j) => i = j
    <2> TAKE i, j \in 1 .. n
    <2>1. i - 1 \in 0 .. 95 /\ j - 1 \in 0 .. 95 /\ (i - 1 = j - 1 => i = j)
      OBVIOUS
    <2> QED
      BY <2>1, PhyCoreIs
  <1> HIDE DEF B, core
  <1>4. IsList(B) /\ Len(B) = n /\ n \in Nat
    <2>1. n \in Nat
      OBVIOUS
    <2> QED
      BY <1>2, <2>1, FunctionIsList
  <1>5. HasBlocks(5, n, B, s)
    <2>1. 5 \in Nat \ {0} /\ Len(B) \in Nat
      BY <1>4
    <2>2. HasBlocks(5, Len(B), B, InTurn(5, B))
      BY <2>1, InTurnIs
    <2> QED
      BY <1>1, <1>4, <2>2
  <1>6. \A i \in 1 .. n : \A p \in 1 .. 5 : Spot(5, i, p) \in Int /\ at(Spot(5, i, p)) = p
    <2> TAKE i \in 1 .. n
    <2> TAKE p \in 1 .. 5
    <2>1. 5 \in Nat \ {0} /\ i \in Nat
      OBVIOUS
    <2>2. Spot(5, i, p) \in Int
      BY <2>1, SpotOrder
    <2>3. InBlock(5, Spot(5, i, p)) = p
      BY <1>4, <2>1, SpotIs
    <2> QED
      BY <2>2, <2>3
  <1>7. \A i \in 1 .. n : \A p \in 1 .. 5 :
          /\ Spot(5, i, p) \in DOMAIN s /\ stage[Spot(5, i, p)] = MixedStage(p)
          /\ MixedAction(s[Spot(5, i, p)], core(i), p)
    <2> TAKE i \in 1 .. n
    <2> TAKE p \in 1 .. 5
    <2>1. Spot(5, i, p) \in DOMAIN s /\ s[Spot(5, i, p)] = B[i][p]
      BY <1>5 DEF HasBlocks
    <2>2. stage[Spot(5, i, p)] = MixedStage(p)
      BY <1>6, <2>1
    <2>3. MixedAction(MixedBlock(core(i))[p], core(i), p)
      BY MixedBlockIs
    <2> QED
      BY <1>2, <2>1, <2>2, <2>3
  <1>8. \A k \in DOMAIN s : \E i \in 1 .. n : \E p \in 1 .. 5 : k = Spot(5, i, p)
    BY <1>5 DEF HasBlocks
  <1>9. \A i, j \in 1 .. n : \A p, q \in 1 .. 5 :
          Spot(5, i, p) <= Spot(5, j, q) <=> i < j \/ (i = j /\ p <= q)
    <2>1. 5 \in Nat \ {0}
      OBVIOUS
    <2> QED
      BY <2>1, SpotOrder
  <1>10. /\ \A p \in 1 .. 5 : MixedStage(p) \in 0 .. 2 /\ (p \in 4 .. 5 => MixedStage(p) # 0)
         /\ \A p \in 1 .. 5 : \A q \in 4 .. 5 : q <= p <=> MixedStage(q) <= MixedStage(p)
         /\ MixedStage(4) = 1 /\ MixedStage(5) = 2
    BY DEF MixedStage
  <1> HIDE DEF stage, at
  <1>11. OnlyKernels(s)
    BY <1>7, <1>8 DEF OnlyKernels, MixedAction
  <1>12. KernelStages(s, stage, 2)
    <2>1. ASSUME NEW k \in DOMAIN s PROVE stage[k] \in 0 .. 2 /\ (s[k].sync => stage[k] # 0)
      <3>1. PICK i \in 1 .. n : \E p \in 1 .. 5 : k = Spot(5, i, p)
        BY <1>8
      <3>2. PICK p \in 1 .. 5 : k = Spot(5, i, p)
        BY <3>1
      <3>3. stage[k] = MixedStage(p) /\ MixedAction(s[k], core(i), p)
        BY <1>7, <3>2
      <3> QED
        BY <1>10, <3>3 DEF MixedAction
    <2>2. ASSUME NEW k \in DOMAIN s, NEW r \in 1 .. 2
          PROVE  \E l \in DOMAIN s : s[l].core = s[k].core /\ s[l].sync /\ stage[l] = r
      <3>1. PICK i \in 1 .. n : \E p \in 1 .. 5 : k = Spot(5, i, p)
        BY <1>8
      <3>2. s[k].core = core(i)
        BY <1>7, <3>1 DEF MixedAction
      <3>3. r + 3 \in 1 .. 5 /\ r + 3 \in 4 .. 5 /\ MixedStage(r + 3) = r
        BY DEF MixedStage
      <3> DEFINE l == Spot(5, i, r + 3)
      <3>4. l \in DOMAIN s /\ stage[l] = r /\ MixedAction(s[l], core(i), r + 3)
        BY <1>7, <3>3
      <3> QED
        BY <3>2, <3>3, <3>4 DEF MixedAction
    <2>3. ASSUME NEW k \in DOMAIN s, NEW l \in DOMAIN s, s[k].core = s[l].core, s[l].sync
          PROVE  l <= k <=> stage[l] <= stage[k]
      <3>1. PICK i \in 1 .. n : \E p \in 1 .. 5 : k = Spot(5, i, p)
        BY <1>8
      <3>2. PICK p \in 1 .. 5 : k = Spot(5, i, p)
        BY <3>1
      <3>3. PICK j \in 1 .. n : \E q \in 1 .. 5 : l = Spot(5, j, q)
        BY <1>8
      <3>4. PICK q \in 1 .. 5 : l = Spot(5, j, q)
        BY <3>3
      <3>5. MixedAction(s[k], core(i), p) /\ MixedAction(s[l], core(j), q)
            /\ stage[k] = MixedStage(p) /\ stage[l] = MixedStage(q)
        BY <1>7, <3>2, <3>4
      <3>6. core(i) = core(j) /\ q \in 4 .. 5
        BY <2>3, <3>5 DEF MixedAction
      <3>7. i = j
        BY <1>3, <3>6
      <3>8. l <= k <=> q <= p
        BY <1>9, <3>2, <3>4, <3>7
      <3> QED
        BY <1>10, <3>5, <3>6, <3>8
    <2> QED
      BY <2>1, <2>2, <2>3 DEF KernelStages
  <1>13. ASSUME NEW k \in DOMAIN s
         PROVE  \A r \in Used(s[k]) : \E q \in 1 .. 3 : r = <<MixedArrays[q], s[k].core>>
    <2>1. PICK i \in 1 .. n : \E p \in 1 .. 5 : k = Spot(5, i, p)
      BY <1>8
    <2>2. PICK p \in 1 .. 5 : k = Spot(5, i, p)
      BY <2>1
    <2>3. MixedAction(s[k], core(i), p) /\ (p \in 1 .. 3 \/ p \in 4 .. 5)
      BY <1>7, <2>2
    <2> QED
      BY <2>3 DEF MixedAction
  <1>14. \A k \in DOMAIN s : Written(s[k]) \subseteq Used(s[k])
    BY <1>7, <1>8 DEF MixedAction
  <1>15. KernelsApart(s, stage)
    <2> SUFFICES ASSUME NEW k \in DOMAIN s, NEW l \in DOMAIN s, s[k].core # s[l].core
                 PROVE  Used(s[k]) \cap Used(s[l]) = {}
      BY <1>14 DEF KernelsApart
    <2> SUFFICES ASSUME NEW r \in Used(s[k]), r \in Used(s[l]) PROVE FALSE
      OBVIOUS
    <2>1. r[2] = s[k].core /\ r[2] = s[l].core
      BY <1>13
    <2> QED
      BY <2>1
  <1>16. KernelsSupplied(s, stage)
    <2> SUFFICES ASSUME NEW l \in DOMAIN s, NEW r \in Used(s[l]) \ Renewed(s[l])
                 PROVE  \E k \in DOMAIN s : r \in Renewed(s[k]) /\ s[k].core = s[l].core /\ k < l
      BY DEF KernelsSupplied
    <2>1. PICK i \in 1 .. n : \E p \in 1 .. 5 : l = Spot(5, i, p)
      BY <1>8
    <2>2. PICK p \in 1 .. 5 : l = Spot(5, i, p)
      BY <2>1
    <2>3. MixedAction(s[l], core(i), p)
      BY <1>7, <2>2
    <2>4. p \in 4 .. 5
      BY <2>3 DEF MixedAction
    <2>5. PICK q \in 1 .. 3 : r = <<MixedArrays[q], core(i)>>
      BY <2>3, <2>4 DEF MixedAction
    <2> DEFINE k == Spot(5, i, q)
    <2>6. q \in 1 .. 5
      OBVIOUS
    <2>7. k \in DOMAIN s /\ MixedAction(s[k], core(i), q) /\ k \in Int /\ l \in Int
      BY <1>6, <1>7, <2>2, <2>6
    <2>8. ~ (l <= k)
      BY <1>9, <2>2, <2>4, <2>6
    <2> QED
      BY <2>3, <2>5, <2>7, <2>8 DEF MixedAction
  <1>17. 2 \in Nat
    OBVIOUS
  <1>18. Runnable(s) /\ InStages(s, stage, 2)
    BY <1>11, <1>12, <1>15, <1>16, <1>17, KernelsInStages
  <1> QED
    BY <1>17, <1>18, StagedIsOrdered DEF IsOrdered

-------------------------------------------------------------------------------
(* The scripts that load a node: arrays, a meeting, then the copies. *)

\* Each of the cores meets the others once in list x, part of scenario s.
MeetsAll(s, x, cores) ==
  /\ IsList(x)
  /\ \A k \in DOMAIN x : TaskOf(x[k]).sync /\ ~ Fatal(x[k])
  /\ \A t \in cores : \E k \in DOMAIN x : t \in Targets(s, x[k])
  /\ \A k, l \in DOMAIN x : Targets(s, x[k]) \cap Targets(s, x[l]) # {} => k = l

\* The actions of list x of scenario s do not write what others of it use on
\* another core.
PartApart(s, x) ==
  \A k, l \in DOMAIN x : \A t \in Targets(s, x[k]), u \in Targets(s, x[l]) :
    t # u => Writes(TaskOf(x[k])) \cap Uses(TaskOf(x[l])) = {}

\* What the actions of list z use is filled in list x.
PartSupplied(s, x, z) ==
  \A l \in DOMAIN z : \A a \in Uses(TaskOf(z[l])) :
    \E k \in DOMAIN x : a \in Renews(TaskOf(x[k])) /\ Targets(s, x[k]) # {}

\* Actions that are ready without a meeting.
PartFills(x) ==
  /\ IsList(x)
  /\ \A k \in DOMAIN x : /\ ~ TaskOf(x[k]).sync /\ ~ Fatal(x[k])
                         /\ Uses(TaskOf(x[k])) \subseteq Renews(TaskOf(x[k]))

\* The stages of three lists one after another.
ThreeStages(x, y, s) ==
  [i \in DOMAIN s |-> IF i <= Len(x) THEN 0 ELSE IF i <= Len(x) + Len(y) THEN 1 ELSE 2]

\* A scenario that fills arrays, meets, and meets again to use them is ordered.
LEMMA ThreeStagesOrdered ==
  ASSUME NEW s \in Scenarios, NEW x, NEW y, NEW z, NEW u, JoinsTo(x, y, u), JoinsTo(u, z, s),
         PartFills(x), MeetsAll(s, y, CoresOf(s)), MeetsAll(s, z, CoresOf(s)),
         PartApart(s, x), PartApart(s, y), PartApart(s, z), PartSupplied(s, x, y),
         PartSupplied(s, x, z)
  PROVE  IsOrdered(s)
  <1> DEFINE stage == ThreeStages(x, y, s) a == Len(x) b == Len(x) + Len(y)
  <1>1. /\ \A k \in DOMAIN x : k \in DOMAIN s /\ s[k] = x[k]
        /\ \A k \in DOMAIN y : a + k \in DOMAIN s /\ s[a + k] = y[k]
        /\ \A k \in DOMAIN z : b + k \in DOMAIN s /\ s[b + k] = z[k]
        /\ \A i \in DOMAIN s : \/ i \in DOMAIN x
                               \/ \E k \in DOMAIN y : i = a + k
                               \/ \E k \in DOMAIN z : i = b + k
    <2>1. JoinThree(x, y, z, s)
      BY ThreeLists
    <2> QED
      BY <2>1 DEF JoinThree
  <1>2. /\ Len(x) \in Nat /\ DOMAIN x = 1 .. Len(x)
        /\ Len(y) \in Nat /\ DOMAIN y = 1 .. Len(y)
        /\ Len(z) \in Nat /\ DOMAIN z = 1 .. Len(z)
    BY ListPlaces DEF PartFills, MeetsAll
  <1>3. /\ \A k \in DOMAIN x : stage[k] = 0
        /\ \A k \in DOMAIN y : stage[a + k] = 1
        /\ \A k \in DOMAIN z : stage[b + k] = 2
    BY <1>1, <1>2 DEF ThreeStages
  <1>4. a \in Nat /\ b \in Nat /\ a <= b
    BY <1>2
  <1>5. b = a + Len(y)
    OBVIOUS
  <1> HIDE DEF stage, a, b
  <1>6. Runnable(s)
    BY <1>1 DEF Runnable, PartFills, MeetsAll
  <1>7. Staged(s, stage, 2)
    <2>1. ASSUME NEW i \in DOMAIN s PROVE stage[i] \in 0 .. 2 /\ (TaskOf(s[i]).sync => stage[i] # 0)
      BY <1>1, <1>3 DEF PartFills, MeetsAll
    <2>2. ASSUME NEW t \in CoresOf(s), NEW r \in 1 .. 2
          PROVE  \E i \in DOMAIN s : SyncFor(s, t, i) /\ stage[i] = r
      <3>1. CASE r = 1
        <4>1. PICK k \in DOMAIN y : t \in Targets(s, y[k])
          BY DEF MeetsAll
        <4>2. TaskOf(y[k]).sync
          BY DEF MeetsAll
        <4> QED
          BY <1>1, <1>3, <3>1, <4>1, <4>2 DEF SyncFor
      <3>2. CASE r = 2
        <4>1. PICK k \in DOMAIN z : t \in Targets(s, z[k])
          BY DEF MeetsAll
        <4>2. TaskOf(z[k]).sync
          BY DEF MeetsAll
        <4> QED
          BY <1>1, <1>3, <3>2, <4>1, <4>2 DEF SyncFor
      <3> QED
        BY <3>1, <3>2
    <2>3. ASSUME NEW i \in DOMAIN s, NEW j \in DOMAIN s, NEW t \in Targets(s, s[i]), SyncFor(s, t, j)
          PROVE  j <= i <=> stage[j] <= stage[i]
      <3>1. t \in Targets(s, s[j]) /\ TaskOf(s[j]).sync
        BY <2>3 DEF SyncFor
      <3>2. j \notin DOMAIN x
        BY <1>1, <3>1 DEF PartFills
      <3>3. ASSUME NEW l \in DOMAIN y, j = a + l PROVE j <= i <=> stage[j] <= stage[i]
        <4>1. CASE i \in DOMAIN x
          BY <1>2, <1>3, <1>4, <3>3, <4>1 DEF a
        <4>2. ASSUME NEW k \in DOMAIN y, i = a + k PROVE i = j
          <5>1. t \in Targets(s, y[k]) \cap Targets(s, y[l])
            BY <1>1, <2>3, <3>1, <3>3, <4>2
          <5> QED
            BY <3>3, <4>2, <5>1 DEF MeetsAll
        <4>3. ASSUME NEW k \in DOMAIN z, i = b + k PROVE j <= i /\ stage[j] = 1 /\ stage[i] = 2
          BY <1>2, <1>3, <1>4, <1>5, <3>3, <4>3
        <4>4. stage[j] = 1 /\ j <= j
          BY <1>2, <1>3, <1>4, <3>3
        <4> QED
          BY <1>1, <4>1, <4>2, <4>3, <4>4
      <3>4. ASSUME NEW l \in DOMAIN z, j = b + l PROVE j <= i <=> stage[j] <= stage[i]
        <4>1. CASE i \in DOMAIN x
          BY <1>2, <1>3, <1>4, <3>4, <4>1 DEF a
        <4>2. ASSUME NEW k \in DOMAIN y, i = a + k PROVE ~ (j <= i) /\ stage[j] = 2 /\ stage[i] = 1
          BY <1>2, <1>3, <1>4, <1>5, <3>4, <4>2
        <4>3. ASSUME NEW k \in DOMAIN z, i = b + k PROVE i = j
          <5>1. t \in Targets(s, z[k]) \cap Targets(s, z[l])
            BY <1>1, <2>3, <3>1, <3>4, <4>3
          <5> QED
            BY <3>4, <4>3, <5>1 DEF MeetsAll
        <4>4. stage[j] = 2 /\ j <= j
          BY <1>2, <1>3, <1>4, <3>4
        <4> QED
          BY <1>1, <4>1, <4>2, <4>3, <4>4
      <3> QED
        BY <1>1, <3>2, <3>3, <3>4
    <2> QED
      BY <2>1, <2>2, <2>3 DEF Staged
  <1>8. StagedApart(s, stage)
    <2> SUFFICES ASSUME NEW i \in DOMAIN s, NEW j \in DOMAIN s,
                        NEW t \in Targets(s, s[i]), NEW v \in Targets(s, s[j]), t # v,
                        stage[i] = stage[j]
                 PROVE  Writes(TaskOf(s[i])) \cap Uses(TaskOf(s[j])) = {}
      BY DEF StagedApart
    <2>1. CASE i \in DOMAIN x /\ j \in DOMAIN x
      BY <1>1, <2>1 DEF PartApart
    <2>2. ASSUME NEW k \in DOMAIN y, NEW l \in DOMAIN y, i = a + k, j = a + l
          PROVE  Writes(TaskOf(s[i])) \cap Uses(TaskOf(s[j])) = {}
      BY <1>1, <2>2 DEF PartApart
    <2>3. ASSUME NEW k \in DOMAIN z, NEW l \in DOMAIN z, i = b + k, j = b + l
          PROVE  Writes(TaskOf(s[i])) \cap Uses(TaskOf(s[j])) = {}
      BY <1>1, <2>3 DEF PartApart
    <2> QED
      BY <1>1, <1>3, <2>1, <2>2, <2>3
  <1>9. StagedSupplied(s, stage)
    <2> SUFFICES ASSUME NEW j \in DOMAIN s, NEW r \in Uses(TaskOf(s[j])) \ Renews(TaskOf(s[j]))
                 PROVE  \E i \in DOMAIN s : \E t \in Targets(s, s[i]) :
                          r \in Renews(TaskOf(s[i])) /\ stage[i] < stage[j]
      BY DEF StagedSupplied
    <2>1. j \notin DOMAIN x
      BY <1>1 DEF PartFills
    <2>2. stage[j] \in {1, 2}
      BY <1>1, <1>3, <2>1
    <2>3. \E k \in DOMAIN x : r \in Renews(TaskOf(x[k])) /\ Targets(s, x[k]) # {}
      BY <1>1, <2>1 DEF PartSupplied
    <2>4. PICK k \in DOMAIN x : r \in Renews(TaskOf(x[k])) /\ Targets(s, x[k]) # {}
      BY <2>3
    <2>5. k \in DOMAIN s /\ s[k] = x[k] /\ stage[k] = 0
      BY <1>1, <1>3
    <2> QED
      BY <2>2, <2>4, <2>5
  <1>10. 2 \in Nat /\ InStages(s, stage, 2)
    BY <1>7, <1>8, <1>9 DEF InStages
  <1> QED
    BY <1>6, <1>10, StagedIsOrdered DEF IsOrdered

\* Kernels that all wait, one on each core, meet.
LEMMA KernelsMeet ==
  ASSUME NEW s, NEW x, NEW acts, NEW cores, SyncsOnce(x, acts, cores, {}),
         \A k \in DOMAIN x : IsKernel(x[k]) /\ x[k].sync
  PROVE  MeetsAll(s, x, cores)
  <1>1. \A k \in DOMAIN x : ~ Fatal(x[k]) /\ Targets(s, x[k]) = {x[k].core} /\ TaskOf(x[k]).sync
    BY KernelUses
  <1>2. ASSUME NEW k \in DOMAIN x, NEW l \in DOMAIN x, Targets(s, x[k]) \cap Targets(s, x[l]) # {}
        PROVE  k = l
    <2>1. x[k].core = x[l].core
      BY <1>1, <1>2
    <2> QED
      BY <2>1 DEF SyncsOnce
  <1>3. ASSUME NEW t \in cores PROVE \E k \in DOMAIN x : t \in Targets(s, x[k])
    BY <1>1 DEF SyncsOnce
  <1> QED
    BY <1>1, <1>2, <1>3 DEF MeetsAll, SyncsOnce

CopyAction(core) == CopyArray(core, TRUE, <<"a", core>>, <<"b", core>>)

LEMMA CopyActionIs ==
  ASSUME NEW core, ScriptKernels \subseteq KnownKernels, NEW a, a = CopyAction(core)
  PROVE  /\ IsKernel(a) /\ a.core = core /\ a.sync
         /\ Used(a) = {<<"a", core>>, <<"b", core>>} /\ Written(a) \subseteq Used(a) /\ Renewed(a) = {}
  <1> DEFINE p == <<"a", core>> q == <<"b", core>>
  <1>1. /\ a.node = "map" /\ a.core = core /\ a.kernel = "copy" /\ a.sync = TRUE
        /\ a.args = <<p, q>>
    BY DEF CopyAction, CopyArray, CreateAction, Map
  <1>2. "copy" \in KnownKernels /\ "copy" \notin InitKernels
        /\ "copy" \in DOMAIN WrittenArg /\ WrittenArg["copy"] = 1
    BY WrittenArgIs DEF ScriptKernels, InitKernels, FirstWritten
  <1> HIDE DEF p, q
  <1>3. DOMAIN <<p, q>> = {1, 2} /\ <<p, q>>[1] = p /\ <<p, q>>[2] = q
    OBVIOUS
  <1>4. Used(a) = {p, q} /\ Written(a) = {p} /\ Renewed(a) = {}
    BY <1>1, <1>2, <1>3 DEF Used, Written, Renewed
  <1> QED
    BY <1>1, <1>2, <1>4 DEF IsKernel, p, q

\* The two actions that fill the arrays of a core.
FillA(src, core) == InitAction("init_array", src, "a", core)
FillB(core) == InitAction("init_array", core, "b", core)

\* List x fills the arrays of the cores, one kind on src, and nothing else.
FillsFrom(x, src, cores) ==
  /\ IsList(x)
  /\ \A k \in DOMAIN cores : /\ \E i \in DOMAIN x : x[i] = FillA(src, cores[k])
                             /\ \E i \in DOMAIN x : x[i] = FillB(cores[k])
  /\ \A i \in DOMAIN x : \E k \in DOMAIN cores : x[i] = FillA(src, cores[k]) \/ x[i] = FillB(cores[k])

LEMMA LoadInitIs ==
  ASSUME NEW src, NEW cores, IsList(cores) PROVE FillsFrom(LoadInit(src, cores), src, cores)
  <1> DEFINE x == LoadInit(src, cores) n == Len(cores)
             B == [k \in DOMAIN cores |-> <<FillA(src, cores[k]), FillB(cores[k])>>]
  <1>1. n \in Nat /\ DOMAIN cores = 1 .. n
    BY ListPlaces
  <1>2. x = InTurn(2, B)
    BY DEF LoadInit, InitArray, FillA, FillB, InitAction
  <1>3. DOMAIN B = 1 .. n /\ B = [k \in DOMAIN B |-> B[k]]
    BY <1>1
  <1>4. \A k \in 1 .. n : B[k][1] = FillA(src, cores[k]) /\ B[k][2] = FillB(cores[k])
    BY <1>1
  <1> HIDE DEF x, n, B
  <1>5. Len(B) = n
    BY <1>1, <1>3, FunctionIsList
  <1>6. HasBlocks(2, n, B, x)
    <2>1. 2 \in Nat \ {0} /\ Len(B) \in Nat
      BY <1>1, <1>5
    <2>2. HasBlocks(2, Len(B), B, InTurn(2, B))
      BY <2>1, InTurnIs
    <2> QED
      BY <1>2, <1>5, <2>2
  <1>7. ASSUME NEW k \in 1 .. n
        PROVE  /\ \E i \in DOMAIN x : x[i] = FillA(src, cores[k])
               /\ \E i \in DOMAIN x : x[i] = FillB(cores[k])
    <2>1. 1 \in 1 .. 2 /\ 2 \in 1 .. 2
      OBVIOUS
    <2>2. /\ Spot(2, k, 1) \in DOMAIN x /\ x[Spot(2, k, 1)] = B[k][1]
          /\ Spot(2, k, 2) \in DOMAIN x /\ x[Spot(2, k, 2)] = B[k][2]
      BY <1>6, <2>1 DEF HasBlocks
    <2> QED
      BY <1>4, <2>2
  <1>8. ASSUME NEW i \in DOMAIN x
        PROVE  \E k \in 1 .. n : x[i] = FillA(src, cores[k]) \/ x[i] = FillB(cores[k])
    <2>1. PICK k \in 1 .. n : \E p \in 1 .. 2 : i = Spot(2, k, p)
      BY <1>6 DEF HasBlocks
    <2>2. PICK p \in 1 .. 2 : i = Spot(2, k, p)
      BY <2>1
    <2>3. x[i] = B[k][p]
      BY <1>6, <2>2 DEF HasBlocks
    <2>4. p = 1 \/ p = 2
      OBVIOUS
    <2> QED
      BY <1>4, <2>3, <2>4
  <1> QED
    BY <1>1, <1>6, <1>7, <1>8 DEF FillsFrom, HasBlocks, x

\* What they fill, on which cores.
LEMMA FillsFromIs ==
  ASSUME NEW s, ScriptKernels \subseteq KnownKernels, NEW x, NEW src, NEW cores, FillsFrom(x, src, cores),
         NoRepeats(cores)
  PROVE  /\ PartFills(x) /\ PartApart(s, x)
         /\ \A k \in DOMAIN x : x[k].core \in {src} \cup CoresIn(cores)
         /\ \A c \in CoresIn(cores) : \A l \in {"a", "b"} :
              \E k \in DOMAIN x : <<l, c>> \in Renews(TaskOf(x[k])) /\ Targets(s, x[k]) # {}
  <1>1. CanInit("init_array")
    BY DEF CanInit, ScriptKernels, FirstWritten, InitKernels
  <1>2. ASSUME NEW c
        PROVE  /\ IsKernel(FillA(src, c)) /\ FillA(src, c).core = src /\ ~ FillA(src, c).sync
               /\ Used(FillA(src, c)) = {<<"a", c>>} /\ Written(FillA(src, c)) = {<<"a", c>>}
               /\ Renewed(FillA(src, c)) = {<<"a", c>>}
    BY <1>1, InitActionIs DEF FillA
  <1>3. ASSUME NEW c
        PROVE  /\ IsKernel(FillB(c)) /\ FillB(c).core = c /\ ~ FillB(c).sync
               /\ Used(FillB(c)) = {<<"b", c>>} /\ Written(FillB(c)) = {<<"b", c>>}
               /\ Renewed(FillB(c)) = {<<"b", c>>}
    BY <1>1, InitActionIs DEF FillB
  <1>4. ASSUME NEW i \in DOMAIN x
        PROVE  /\ IsKernel(x[i]) /\ ~ x[i].sync /\ x[i].core \in {src} \cup CoresIn(cores)
               /\ \E k \in DOMAIN cores : \/ Used(x[i]) = {<<"a", cores[k]>>} /\ x[i].core = src
                                          \/ Used(x[i]) = {<<"b", cores[k]>>} /\ x[i].core = cores[k]
               /\ Written(x[i]) = Used(x[i]) /\ Renewed(x[i]) = Used(x[i])
    <2>1. PICK k \in DOMAIN cores : x[i] = FillA(src, cores[k]) \/ x[i] = FillB(cores[k])
      BY DEF FillsFrom
    <2>2. cores[k] \in CoresIn(cores)
      BY DEF CoresIn
    <2>3. CASE x[i] = FillA(src, cores[k])
      BY <1>2, <2>2, <2>3
    <2>4. CASE x[i] = FillB(cores[k])
      BY <1>3, <2>2, <2>4
    <2> QED
      BY <2>1, <2>3, <2>4
  <1>5. \A i \in DOMAIN x :
          /\ ~ Fatal(x[i]) /\ Targets(s, x[i]) = {x[i].core} /\ TaskOf(x[i]).sync = x[i].sync
          /\ Uses(TaskOf(x[i])) \subseteq Used(x[i]) /\ Writes(TaskOf(x[i])) \subseteq Used(x[i])
          /\ Renews(TaskOf(x[i])) = Used(x[i])
    <2> TAKE i \in DOMAIN x
    <2>1. IsKernel(x[i]) /\ Written(x[i]) = Used(x[i]) /\ Renewed(x[i]) = Used(x[i])
      BY <1>4
    <2> QED
      BY <2>1, KernelUses
  <1>6. PartFills(x)
    BY <1>4, <1>5 DEF PartFills, FillsFrom
  <1>7. PartApart(s, x)
    <2> SUFFICES ASSUME NEW i \in DOMAIN x, NEW j \in DOMAIN x, x[i].core # x[j].core,
                        NEW r \in Used(x[i]), r \in Used(x[j])
                 PROVE  FALSE
      BY <1>5 DEF PartApart
    <2>1. PICK k \in DOMAIN cores : \/ r = <<"a", cores[k]>> /\ x[i].core = src
                                    \/ r = <<"b", cores[k]>> /\ x[i].core = cores[k]
      BY <1>4
    <2>2. PICK l \in DOMAIN cores : \/ r = <<"a", cores[l]>> /\ x[j].core = src
                                    \/ r = <<"b", cores[l]>> /\ x[j].core = cores[l]
      BY <1>4
    <2>3. "a" # "b"
      OBVIOUS
    <2> QED
      BY <2>1, <2>2, <2>3
  <1>8. ASSUME NEW c \in CoresIn(cores), NEW l \in {"a", "b"}
        PROVE  \E k \in DOMAIN x : <<l, c>> \in Renews(TaskOf(x[k])) /\ Targets(s, x[k]) # {}
    <2>1. PICK k \in DOMAIN cores : cores[k] = c
      BY DEF CoresIn
    <2>2. PICK i \in DOMAIN x : x[i] = IF l = "a" THEN FillA(src, c) ELSE FillB(c)
      BY <2>1 DEF FillsFrom
    <2>3. Used(x[i]) = {<<l, c>>}
      BY <1>2, <1>3, <2>2
    <2> QED
      BY <1>5, <2>3
  <1> QED
    BY <1>4, <1>6, <1>7, <1>8

CopyActions(cores) == {CopyAction(c) : c \in cores}

\* The actions of list z of scenario s meet, on src and the cores, and use the
\* arrays of the cores.
CopiesMeet(s, z, src, cores) ==
  /\ MeetsAll(s, z, {src} \cup CoresIn(cores)) /\ PartApart(s, z)
  /\ \A k \in DOMAIN z : z[k].node = "map" /\ z[k].core \in {src} \cup CoresIn(cores)
  /\ \A k \in DOMAIN z : \A a \in Uses(TaskOf(z[k])) :
       \E c \in CoresIn(cores) : \E l \in {"a", "b"} : a = <<l, c>>

\* The copies, and a dummy for the source when it copies nothing.
LEMMA LoadCopiesIs ==
  ASSUME NEW s, ScriptKernels \subseteq KnownKernels, NEW src \in Int, NEW cores, IsList(cores),
         NoRepeats(cores), NEW z, z = LoadCopies(src, cores)
  PROVE  CopiesMeet(s, z, src, cores)
  <1> DEFINE C == [i \in DOMAIN cores |-> CopyAction(cores[i])] d == Minus(<<src>>, cores)
             D == Dummies(d) A == CoresIn(cores)
  <1>1. z = C \o D
    BY DEF LoadCopies, CopyAction
  <1>2. SyncsOnce(C, CopyActions(A), A, {})
    <2> DEFINE n == Len(cores)
    <2>1. n \in Nat /\ DOMAIN cores = 1 .. n
      BY ListPlaces
    <2>2. /\ DOMAIN C = DOMAIN cores /\ C = [k \in DOMAIN C |-> C[k]]
          /\ \A k \in DOMAIN cores : C[k] = CopyAction(cores[k])
      OBVIOUS
    <2> HIDE DEF n, C
    <2>3. IsList(C)
      BY <2>1, <2>2, FunctionIsList
    <2>4. Elements(C) = CopyActions(A)
      BY <2>2 DEF Elements, CopyActions, CoresIn
    <2>5. \A k \in DOMAIN cores : C[k].sync = TRUE /\ C[k].core = cores[k]
      BY <2>2 DEF CopyAction, CopyArray, CreateAction, Map
    <2> QED
      BY <2>2, <2>3, <2>4, <2>5 DEF SyncsOnce, NoRepeats, CoresIn
  <1>3. IsList(<<src>>) /\ CoresIn(<<src>>) = {src}
    <2>1. DOMAIN <<src>> = {1} /\ <<src>>[1] = src
      OBVIOUS
    <2>2. CoresIn(<<src>>) = {src}
      BY <2>1 DEF CoresIn
    <2>3. IsList(<<src>>)
      BY DEF IsList, Elements
    <2> QED
      BY <2>2, <2>3
  <1>4. IsList(d) /\ NoRepeats(d) /\ CoresIn(d) = {src} \ A
    <2>1. CoresIn(<<src>>) \subseteq Int
      BY <1>3
    <2> QED
      BY <1>3, <2>1, MinusIs
  <1>5. SyncsOnce(D, IdleActions({src} \ A), {src} \ A, {})
    <2> HIDE DEF d, A
    <2> QED
      BY <1>4, DummiesSyncAll
  <1> HIDE DEF C, D, d, A
  <1> DEFINE acts == CopyActions(A) \cup IdleActions({src} \ A) X == {src} \cup A
  <1>6. SyncsOnce(C \o D, CopyActions(A) \cup IdleActions({src} \ A), A \cup ({src} \ A),
                  ({} \ ({src} \ A)) \cup {})
    <2>1. A \cap ({src} \ A) = {}
      OBVIOUS
    <2> QED
      BY <1>2, <1>5, <2>1, SyncsOnceJoined
  <1>7. A \cup ({src} \ A) = X /\ ({} \ ({src} \ A)) \cup {} = {}
    OBVIOUS
  <1>8. SyncsOnce(z, acts, X, {})
    BY <1>1, <1>6, <1>7
  <1>9. ASSUME NEW k \in DOMAIN z
        PROVE  /\ IsKernel(z[k]) /\ z[k].sync /\ z[k].core \in X /\ Written(z[k]) \subseteq Used(z[k])
               /\ \A r \in Used(z[k]) : z[k].core \in A /\ \E l \in {"a", "b"} : r = <<l, z[k].core>>
    <2>1. z[k] \in acts
      BY <1>8 DEF SyncsOnce, Elements
    <2>2. ASSUME NEW c \in A, z[k] = CopyAction(c)
          PROVE  /\ IsKernel(z[k]) /\ z[k].sync /\ z[k].core \in X /\ Written(z[k]) \subseteq Used(z[k])
                 /\ \A r \in Used(z[k]) : z[k].core \in A /\ \E l \in {"a", "b"} : r = <<l, z[k].core>>
      <3> DEFINE a == z[k]
      <3>1. a = CopyAction(c)
        BY <2>2
      <3> HIDE DEF a
      <3>2. /\ IsKernel(a) /\ a.core = c /\ a.sync
            /\ Used(a) = {<<"a", c>>, <<"b", c>>} /\ Written(a) \subseteq Used(a)
        BY <3>1, CopyActionIs
      <3> QED
        BY <3>2 DEF a
    <2>3. ASSUME NEW c \in {src} \ A, z[k] = DummyAction(c)
          PROVE  /\ IsKernel(z[k]) /\ z[k].sync /\ z[k].core \in X /\ Written(z[k]) \subseteq Used(z[k])
                 /\ \A r \in Used(z[k]) : z[k].core \in A /\ \E l \in {"a", "b"} : r = <<l, z[k].core>>
      <3> DEFINE a == z[k]
      <3>1. a = DummyAction(c)
        BY <2>3
      <3> HIDE DEF a
      <3>2. IsKernel(a) /\ a.core = c /\ a.sync /\ Used(a) = {} /\ Written(a) = {}
        BY <3>1, DummyIs
      <3> QED
        BY <3>2 DEF a
    <2> QED
      BY <2>1, <2>2, <2>3 DEF CopyActions, IdleActions
  <1>10. MeetsAll(s, z, X)
    BY <1>8, <1>9, KernelsMeet
  <1>11. \A k \in DOMAIN z :
           /\ Targets(s, z[k]) = {z[k].core}
           /\ Uses(TaskOf(z[k])) \subseteq Used(z[k]) /\ Writes(TaskOf(z[k])) \subseteq Written(z[k])
    BY <1>9, KernelUses
  <1>12. PartApart(s, z)
    <2> SUFFICES ASSUME NEW i \in DOMAIN z, NEW j \in DOMAIN z, z[i].core # z[j].core,
                        NEW r \in Used(z[i]), r \in Used(z[j])
                 PROVE  FALSE
      BY <1>9, <1>11 DEF PartApart
    <2>1. r[2] = z[i].core /\ r[2] = z[j].core
      BY <1>9
    <2> QED
      BY <2>1
  <1>13. \A k \in DOMAIN z : z[k].node = "map"
    BY <1>9 DEF IsKernel
  <1>14. \A k \in DOMAIN z : \A a \in Uses(TaskOf(z[k])) :
           \E c \in A : \E l \in {"a", "b"} : a = <<l, c>>
    BY <1>9, <1>11
  <1> QED
    BY <1>9, <1>10, <1>12, <1>13, <1>14 DEF A, CopiesMeet

\* The meeting between: a dummy for each of the cores, or a barrier.
LEMMA DummiesMeet ==
  ASSUME NEW s, NEW y, NEW d, IsList(d), NoRepeats(d), y = Dummies(d)
  PROVE  /\ MeetsAll(s, y, CoresIn(d))
         /\ \A k \in DOMAIN y : /\ y[k].node = "map" /\ y[k].core \in CoresIn(d)
                                /\ Uses(TaskOf(y[k])) = {} /\ Writes(TaskOf(y[k])) = {}
  <1> DEFINE X == CoresIn(d) acts == IdleActions(CoresIn(d))
  <1>1. SyncsOnce(y, acts, X, {})
    BY DummiesSyncAll
  <1>2. \A k \in DOMAIN y : \E c \in X : y[k] = DummyAction(c)
    BY <1>1 DEF SyncsOnce, Elements, IdleActions
  <1> HIDE DEF X, acts
  <1>3. \A k \in DOMAIN y : /\ IsKernel(y[k]) /\ y[k].core \in X /\ y[k].sync
                            /\ Used(y[k]) = {} /\ Written(y[k]) = {}
    BY <1>2, DummyIs
  <1>4. MeetsAll(s, y, X)
    BY <1>1, <1>3, KernelsMeet
  <1>5. \A k \in DOMAIN y : Uses(TaskOf(y[k])) = {} /\ Writes(TaskOf(y[k])) = {}
    BY <1>3, KernelUses
  <1> QED
    BY <1>3, <1>4, <1>5 DEF X, IsKernel

LEMMA BarrierMeets ==
  ASSUME NEW s, NEW y, y = <<Scalar("barrier")>>
  PROVE  /\ MeetsAll(s, y, CoresOf(s))
         /\ \A k \in DOMAIN y : /\ y[k].node # "map"
                                /\ Uses(TaskOf(y[k])) = {} /\ Writes(TaskOf(y[k])) = {}
  <1> DEFINE a == Scalar("barrier")
  <1>1. a.node = "scalar" /\ a.text = "barrier"
    BY DEF Scalar
  <1> HIDE DEF a
  <1>2. IsBarrier(a) /\ ~ Fatal(a)
    BY <1>1 DEF IsBarrier, Fatal, IsUnknown
  <1>3. Targets(s, a) = CoresOf(s) /\ TaskOf(a) = BarrierTask
    BY <1>2 DEF Targets, TaskOf
  <1>4. BarrierTask.sync = TRUE /\ BarrierTask.kernel = "dummy" /\ BarrierTask.args = <<>>
    BY DEF BarrierTask, Task
  <1>5. Uses(BarrierTask) = {} /\ Writes(BarrierTask) = {}
    <2>1. DOMAIN <<>> = {}
      OBVIOUS
    <2> QED
      BY <1>4, <2>1, WrittenArgIs DEF Uses, Writes
  <1>6. y = <<a>>
    BY DEF a
  <1>7. DOMAIN y = {1} /\ y[1] = a
    BY <1>6
  <1>8. IsList(y)
    <2>1. IsList(<<a>>)
      BY DEF IsList, Elements
    <2> QED
      BY <1>6, <2>1
  <1> QED
    BY <1>1, <1>2, <1>3, <1>4, <1>5, <1>7, <1>8 DEF MeetsAll

\* A scenario that loads a node is ordered, whichever way it meets between.
LEMMA LoadOrdered ==
  ASSUME NEW s \in Scenarios, ScriptKernels \subseteq KnownKernels, NEW src \in Int, NEW cores,
         IsList(cores), NoRepeats(cores), CoresIn(cores) \subseteq Int, NEW y,
         s = LoadInit(src, cores) \o y \o LoadCopies(src, cores),
         y = Dummies(Uniq(<<src>> \o cores)) \/ y = <<Scalar("barrier")>>
  PROVE  IsOrdered(s)
  <1> DEFINE x == LoadInit(src, cores) z == LoadCopies(src, cores) u == x \o y
             X == {src} \cup CoresIn(cores) e == Uniq(<<src>> \o cores)
  <1>1. FillsFrom(x, src, cores)
    BY LoadInitIs
  <1>2. /\ PartFills(x) /\ PartApart(s, x)
        /\ \A k \in DOMAIN x : x[k].core \in X
        /\ \A c \in CoresIn(cores) : \A l \in {"a", "b"} :
             \E k \in DOMAIN x : <<l, c>> \in Renews(TaskOf(x[k])) /\ Targets(s, x[k]) # {}
    BY <1>1, FillsFromIs
  <1>3. /\ MeetsAll(s, z, X) /\ PartApart(s, z)
        /\ \A k \in DOMAIN z : z[k].node = "map" /\ z[k].core \in X
        /\ \A k \in DOMAIN z : \A a \in Uses(TaskOf(z[k])) :
             \E c \in CoresIn(cores) : \E l \in {"a", "b"} : a = <<l, c>>
    <2>1. CopiesMeet(s, z, src, cores)
      BY LoadCopiesIs
    <2> QED
      BY <2>1 DEF CopiesMeet
  <1>4. IsList(e) /\ NoRepeats(e) /\ CoresIn(e) = X
    <2>1. DOMAIN <<src>> = {1} /\ <<src>>[1] = src
      OBVIOUS
    <2>2. CoresIn(<<src>>) = {src}
      BY <2>1 DEF CoresIn
    <2>3. IsList(<<src>>)
      BY DEF IsList, Elements
    <2>4. IsList(<<src>> \o cores) /\ CoresIn(<<src>> \o cores) = X
      BY <2>2, <2>3, JoinedCores
    <2>5. CoresIn(<<src>> \o cores) \subseteq Int
      BY <2>4
    <2> QED
      BY <2>4, <2>5, MinusIs
  <1> HIDE DEF x, z, X, e
  <1>5. /\ IsList(y)
        /\ \A k \in DOMAIN y : Uses(TaskOf(y[k])) = {} /\ Writes(TaskOf(y[k])) = {}
        /\ \A k \in DOMAIN y : y[k].node = "map" => y[k].core \in X
    <2>1. CASE y = Dummies(e)
      BY <1>4, <2>1, DummiesMeet DEF MeetsAll
    <2>2. CASE y = <<Scalar("barrier")>>
      BY <2>2, BarrierMeets DEF MeetsAll
    <2> QED
      BY <2>1, <2>2 DEF e
  <1>6. JoinsTo(x, y, u)
    BY <1>2, <1>5, JoinedIs DEF PartFills
  <1>7. JoinsTo(u, z, s)
    <2>1. s = u \o z
      BY DEF x, z
    <2>2. IsList(u) /\ IsList(z)
      BY <1>3, <1>6 DEF JoinsTo, MeetsAll
    <2> HIDE DEF u
    <2> QED
      BY <2>1, <2>2, JoinedIs
  <1> HIDE DEF u
  <1>8. CoresOf(s) = X
    <2>1. /\ \A k \in DOMAIN z : Len(x) + Len(y) + k \in DOMAIN s /\ s[Len(x) + Len(y) + k] = z[k]
          /\ \A k \in DOMAIN x : k \in DOMAIN s /\ s[k] = x[k]
          /\ \A k \in DOMAIN y : Len(x) + k \in DOMAIN s /\ s[Len(x) + k] = y[k]
          /\ \A i \in DOMAIN s : \/ i \in DOMAIN x
                                 \/ \E k \in DOMAIN y : i = Len(x) + k
                                 \/ \E k \in DOMAIN z : i = Len(x) + Len(y) + k
      <3>1. JoinThree(x, y, z, s)
        BY <1>6, <1>7, ThreeLists
      <3> QED
        BY <3>1 DEF JoinThree
    <2>2. \A i \in DOMAIN s : s[i].node = "map" => s[i].core \in X
      BY <1>2, <1>3, <1>5, <2>1
    <2>3. CoresOf(s) \subseteq X
      BY <2>2 DEF CoresOf
    <2>4. ASSUME NEW t \in X PROVE t \in CoresOf(s)
      <3>1. PICK k \in DOMAIN z : t \in Targets(s, z[k])
        BY <1>3 DEF MeetsAll
      <3> DEFINE i == Len(x) + Len(y) + k
      <3>2. i \in DOMAIN s /\ s[i] = z[k]
        BY <2>1
      <3> HIDE DEF i
      <3>3. Targets(s, s[i]) \subseteq CoresOf(s)
        BY <3>2, TargetsAreCores
      <3> QED
        BY <3>1, <3>2, <3>3
    <2> QED
      BY <2>3, <2>4
  <1>9. MeetsAll(s, y, CoresOf(s))
    <2>1. CASE y = Dummies(e)
      BY <1>4, <1>8, <2>1, DummiesMeet
    <2>2. CASE y = <<Scalar("barrier")>>
      BY <2>2, BarrierMeets
    <2> QED
      BY <2>1, <2>2 DEF e
  <1>10. PartApart(s, y) /\ PartSupplied(s, x, y)
    BY <1>5 DEF PartApart, PartSupplied
  <1>11. PartSupplied(s, x, z)
    <2> SUFFICES ASSUME NEW k \in DOMAIN z, NEW a \in Uses(TaskOf(z[k]))
                 PROVE  \E i \in DOMAIN x : a \in Renews(TaskOf(x[i])) /\ Targets(s, x[i]) # {}
      BY DEF PartSupplied
    <2>1. PICK c \in CoresIn(cores) : \E l \in {"a", "b"} : a = <<l, c>>
      BY <1>3
    <2> QED
      BY <1>2, <2>1
  <1> QED
    BY <1>2, <1>3, <1>6, <1>7, <1>8, <1>9, <1>10, <1>11, ThreeStagesOrdered

-------------------------------------------------------------------------------
(* The script that measures the bandwidth: one core at work in each round. *)

\* The cores that meet, and the core that works for a node.
MeetingCores(machine, nodes, src) ==
  [i \in DOMAIN nodes |-> FirstCore(machine, nodes[i])] \o <<FirstCore(machine, src) + 1>>
WorkingCore(machine, src, dest) ==
  IF src = dest THEN FirstCore(machine, dest) + 1 ELSE FirstCore(machine, dest)

RoundBlock(c, cores) ==
  <<InitArray(c, <<"b">>), CopyArray(c, FALSE, <<"a">>, <<"b">>)>> \o Dummies(cores)

\* What the p-th action of a round does, with core c at work and these that meet.
RoundAction(a, c, cores, p) ==
  /\ IsKernel(a) /\ (a.sync <=> p > 2) /\ Written(a) \subseteq Used(a)
  /\ p = 1 => Renewed(a) = {<<"b">>} /\ Used(a) = {<<"b">>}
  /\ p = 2 => Used(a) = {<<"a">>, <<"b">>}
  /\ p <= 2 => a.core = c
  /\ p > 2 => a.core = cores[p - 2] /\ Used(a) = {}

LEMMA RoundBlockIs ==
  ASSUME ScriptKernels \subseteq KnownKernels, NEW c, NEW cores, IsList(cores)
  PROVE  \A p \in 1 .. 2 + Len(cores) : RoundAction(RoundBlock(c, cores)[p], c, cores, p)
  <1> DEFINE x == InitArray(c, <<"b">>) y == CopyArray(c, FALSE, <<"a">>, <<"b">>)
             g == <<x, y>> D == Dummies(cores) b == g \o D n == Len(cores)
  <1>1. n \in Nat /\ DOMAIN cores = 1 .. n
    BY ListPlaces
  <1>2. IsList(D) /\ DOMAIN D = 1 .. n /\ \A k \in 1 .. n : D[k] = DummyAction(cores[k])
    BY <1>1, DummiesIs
  <1>3. <<"a">>[1] = "a" /\ <<"b">>[1] = "b"
    OBVIOUS
  <1> DEFINE ra == <<"a">> rb == <<"b">>
  <1>4. IsKernel(x) /\ x.core = c /\ ~ x.sync /\ Used(x) = {rb} /\ Written(x) = {rb} /\ Renewed(x) = {rb}
    <2>1. /\ x.node = "map" /\ x.core = c /\ x.kernel = "init_array" /\ x.sync = FALSE
          /\ x.args = <<rb>> /\ x.repeat = 1
      BY DEF InitArray, CreateAction, Map
    <2>2. /\ "init_array" \in KnownKernels /\ "init_array" \in InitKernels
          /\ "init_array" \in DOMAIN WrittenArg /\ WrittenArg["init_array"] = 1
      BY WrittenArgIs DEF ScriptKernels, InitKernels, FirstWritten
    <2> HIDE DEF x, rb
    <2>3. DOMAIN <<rb>> = {1} /\ <<rb>>[1] = rb
      OBVIOUS
    <2>4. Used(x) = {rb} /\ Written(x) = {rb} /\ Renewed(x) = {rb}
      BY <2>1, <2>2, <2>3 DEF Used, Written, Renewed
    <2>5. x.repeat > 0
      BY <2>1
    <2> QED
      BY <2>1, <2>2, <2>4, <2>5 DEF IsKernel
  <1>5. IsKernel(y) /\ y.core = c /\ ~ y.sync /\ Used(y) = {ra, rb} /\ Written(y) \subseteq Used(y)
    <2>1. /\ y.node = "map" /\ y.core = c /\ y.kernel = "copy" /\ y.sync = FALSE
          /\ y.args = <<ra, rb>>
      BY DEF CopyArray, CreateAction, Map
    <2>2. /\ "copy" \in KnownKernels /\ "copy" \notin InitKernels
          /\ "copy" \in DOMAIN WrittenArg /\ WrittenArg["copy"] = 1
      BY WrittenArgIs DEF ScriptKernels, InitKernels, FirstWritten
    <2> HIDE DEF y, ra, rb
    <2>3. DOMAIN <<ra, rb>> = {1, 2} /\ <<ra, rb>>[1] = ra /\ <<ra, rb>>[2] = rb
      OBVIOUS
    <2>4. Used(y) = {ra, rb} /\ Written(y) = {ra}
      BY <2>1, <2>2, <2>3 DEF Used, Written
    <2> QED
      BY <2>1, <2>2, <2>4 DEF IsKernel
  <1> HIDE DEF x, y, D, n
  <1>6. IsList(g) /\ Len(g) = 2 /\ DOMAIN g = 1 .. 2 /\ g[1] = x /\ g[2] = y
    BY DEF IsList, Elements
  <1> HIDE DEF g
  <1>7. JoinsTo(g, D, b)
    BY <1>2, <1>6, JoinedIs
  <1> HIDE DEF b
  <1>8. /\ b[1] = x /\ b[2] = y
        /\ \A k \in 1 .. n : b[2 + k] = DummyAction(cores[k])
    BY <1>2, <1>6, <1>7 DEF JoinsTo
  <1>9. RoundAction(b[1], c, cores, 1)
    BY <1>4, <1>8 DEF RoundAction
  <1>10. RoundAction(b[2], c, cores, 2)
    BY <1>5, <1>8 DEF RoundAction
  <1>11. ASSUME NEW k \in 1 .. n PROVE RoundAction(b[2 + k], c, cores, 2 + k)
    <2> DEFINE a == b[2 + k]
    <2>1. a = DummyAction(cores[k])
      BY <1>8
    <2> HIDE DEF a
    <2>2. IsKernel(a) /\ a.core = cores[k] /\ a.sync /\ Used(a) = {} /\ Written(a) = {}
      BY <2>1, DummyIs
    <2>3. 2 + k > 2 /\ (2 + k) - 2 = k /\ ~ (2 + k <= 2) /\ 2 + k # 1 /\ 2 + k # 2
      BY <1>1
    <2> QED
      BY <2>2, <2>3 DEF RoundAction, a
  <1>12. RoundBlock(c, cores) = b
    BY DEF RoundBlock, b, g, x, y, D
  <1>13. ASSUME NEW p \in 1 .. 2 + n PROVE p = 1 \/ p = 2 \/ \E k \in 1 .. n : p = 2 + k
    <2>1. p = 1 \/ p = 2 \/ (p - 2 \in 1 .. n /\ p = 2 + (p - 2))
      BY <1>1
    <2> QED
      BY <2>1
  <1>14. ASSUME NEW p \in 1 .. 2 + n PROVE RoundAction(b[p], c, cores, p)
    BY <1>9, <1>10, <1>11, <1>13
  <1> QED
    BY <1>12, <1>14 DEF n

\* The number of a meeting by the round and the place in it.
RoundStage(r, p) == IF p <= 2 THEN r ELSE r + 1

\* Where the p-th action of round r is, when m cores meet.
InRound(m, r, p) == 1 + m + Spot(2 + m, r, p)

\* A scenario of n rounds in these stages: core src fills an array, the cores
\* meet, and core works[r] is at work in the r-th round.
InRounds(s, stage, n, src, works, cores) ==
  LET m == Len(cores) IN
  /\ 1 \in DOMAIN s /\ s[1] = InitArray(src, <<"a">>) /\ stage[1] = 0
  /\ \A k \in 1 .. m : 1 + k \in DOMAIN s /\ s[1 + k] = DummyAction(cores[k]) /\ stage[1 + k] = 1
  /\ \A r \in 1 .. n : \A p \in 1 .. 2 + m :
       /\ InRound(m, r, p) \in DOMAIN s /\ stage[InRound(m, r, p)] = RoundStage(r, p)
       /\ RoundAction(s[InRound(m, r, p)], works[r], cores, p)
  /\ \A i \in DOMAIN s : \/ i = 1
                         \/ \E k \in 1 .. m : i = 1 + k
                         \/ \E r \in 1 .. n : \E p \in 1 .. 2 + m : i = InRound(m, r, p)

BandwidthStage(m, s) ==
  [i \in DOMAIN s |->
     IF i = 1 THEN 0
     ELSE IF i <= 1 + m THEN 1
     ELSE RoundStage(BlockOf(2 + m, i - (1 + m)), InBlock(2 + m, i - (1 + m)))]

WorkingCores(machine, nodes, src) == [i \in DOMAIN nodes |-> WorkingCore(machine, src, nodes[i])]

\* The list of the cores that meet.
LEMMA MeetingCoresIs ==
  ASSUME NEW machine, NEW nodes, IsList(nodes), NEW src
  PROVE  /\ IsList(MeetingCores(machine, nodes, src))
         /\ Len(MeetingCores(machine, nodes, src)) = Len(nodes) + 1
         /\ \A k \in DOMAIN nodes : FirstCore(machine, nodes[k]) \in CoresIn(MeetingCores(machine, nodes, src))
         /\ FirstCore(machine, src) + 1 \in CoresIn(MeetingCores(machine, nodes, src))
         /\ \A k \in DOMAIN MeetingCores(machine, nodes, src) :
              \/ k \in DOMAIN nodes
                 /\ MeetingCores(machine, nodes, src)[k] = FirstCore(machine, nodes[k])
              \/ k = Len(nodes) + 1
                 /\ MeetingCores(machine, nodes, src)[k] = FirstCore(machine, src) + 1
  <1> DEFINE f == [i \in DOMAIN nodes |-> FirstCore(machine, nodes[i])] e == FirstCore(machine, src) + 1
             g == <<e>> U == f \o g n == Len(nodes)
  <1>1. n \in Nat /\ DOMAIN nodes = 1 .. n
    BY ListPlaces
  <1>2. /\ DOMAIN f = 1 .. n /\ f = [k \in DOMAIN f |-> f[k]]
        /\ \A k \in 1 .. n : f[k] = FirstCore(machine, nodes[k])
    BY <1>1
  <1> HIDE DEF f, e, n
  <1>3. IsList(f) /\ Len(f) = n
    BY <1>1, <1>2, FunctionIsList
  <1>4. IsList(g) /\ DOMAIN g = 1 .. 1 /\ g[1] = e /\ Len(g) = 1
    BY DEF IsList, Elements
  <1> HIDE DEF g
  <1>5. JoinsTo(f, g, U)
    BY <1>3, <1>4, JoinedIs
  <1> HIDE DEF U
  <1>6. IsList(U) /\ Len(U) = n + 1
    BY <1>3, <1>4, <1>5 DEF JoinsTo
  <1>7. \A k \in 1 .. n : k \in DOMAIN U /\ U[k] = FirstCore(machine, nodes[k])
    BY <1>2, <1>5 DEF JoinsTo
  <1>8. n + 1 \in DOMAIN U /\ U[n + 1] = e
    BY <1>3, <1>4, <1>5 DEF JoinsTo
  <1>9. \A k \in DOMAIN U : k \in 1 .. n \/ k = n + 1
    BY <1>1, <1>2, <1>3, <1>4, <1>5 DEF JoinsTo
  <1>10. MeetingCores(machine, nodes, src) = U
    BY DEF MeetingCores, U, f, g, e
  <1>11. /\ \A k \in 1 .. n : FirstCore(machine, nodes[k]) \in CoresIn(U)
         /\ e \in CoresIn(U)
    BY <1>7, <1>8 DEF CoresIn
  <1>12. \A k \in DOMAIN U : (k \in 1 .. n /\ U[k] = FirstCore(machine, nodes[k])) \/ (k = n + 1 /\ U[k] = e)
    BY <1>7, <1>8, <1>9
  <1> QED
    BY <1>1, <1>6, <1>10, <1>11, <1>12 DEF n, e

\* What the script writes is such a scenario.
LEMMA BandwidthInRounds ==
  ASSUME ScriptKernels \subseteq KnownKernels, NEW machine, NEW nodes, IsList(nodes), NEW src,
         NEW s, s = Bandwidth(machine, nodes, src), NEW U, U = MeetingCores(machine, nodes, src)
  PROVE  InRounds(s, BandwidthStage(Len(U), s), Len(nodes), FirstCore(machine, src),
                  WorkingCores(machine, nodes, src), U)
  <1> DEFINE n == Len(nodes) m == Len(U) w == 2 + m c == FirstCore(machine, src)
             works == WorkingCores(machine, nodes, src)
             a == InitArray(c, <<"a">>) x == <<a>> y == Dummies(U)
             B == [i \in DOMAIN nodes |-> RoundBlock(works[i], U)] z == InTurn(w, B)
             u == x \o y stage == BandwidthStage(m, s)
  <1>1. n \in Nat /\ DOMAIN nodes = 1 .. n
    BY ListPlaces
  <1>2. IsList(U)
    BY MeetingCoresIs
  <1>3. m \in Nat /\ DOMAIN U = 1 .. m
    BY <1>2, ListPlaces
  <1>4. s = u \o z
    BY DEF Bandwidth, MeetingCores, WorkingCores, WorkingCore, RoundBlock
  <1>5. /\ DOMAIN B = 1 .. n /\ B = [k \in DOMAIN B |-> B[k]]
        /\ \A r \in 1 .. n : B[r] = RoundBlock(works[r], U)
    BY <1>1
  <1>6. IsList(x) /\ Len(x) = 1 /\ DOMAIN x = 1 .. 1 /\ x[1] = a
    <2> HIDE DEF a
    <2> QED
      BY DEF IsList, Elements
  <1>7. IsList(y) /\ Len(y) = m /\ DOMAIN y = 1 .. m /\ \A k \in 1 .. m : y[k] = DummyAction(U[k])
    BY <1>2, <1>3, DummiesIs
  <1>8. w \in Nat \ {0}
    BY <1>3
  <1> HIDE DEF n, m, c, works, a, x, y, B
  <1>9. IsList(B) /\ Len(B) = n
    BY <1>1, <1>5, FunctionIsList
  <1>10. HasBlocks(w, n, B, z)
    <2> HIDE DEF w
    <2>1. HasBlocks(w, Len(B), B, InTurn(w, B))
      BY <1>1, <1>8, <1>9, InTurnIs
    <2> QED
      BY <1>9, <2>1
  <1> HIDE DEF z
  <1>11. JoinsTo(x, y, u)
    BY <1>6, <1>7, JoinedIs
  <1>12. JoinsTo(u, z, s)
    <2>1. IsList(u) /\ IsList(z)
      BY <1>10, <1>11 DEF JoinsTo, HasBlocks
    <2> HIDE DEF u
    <2> QED
      BY <1>4, <2>1, JoinedIs
  <1> HIDE DEF u
  <1>13. /\ 1 \in DOMAIN s /\ s[1] = a
         /\ \A k \in 1 .. m : 1 + k \in DOMAIN s /\ s[1 + k] = DummyAction(U[k])
         /\ \A k \in DOMAIN z : 1 + m + k \in DOMAIN s /\ s[1 + m + k] = z[k]
         /\ \A i \in DOMAIN s : \/ i = 1
                                \/ \E k \in 1 .. m : i = 1 + k
                                \/ \E k \in DOMAIN z : i = 1 + m + k
    <2>1. JoinThree(x, y, z, s)
      BY <1>11, <1>12, ThreeLists
    <2> QED
      BY <1>6, <1>7, <2>1 DEF JoinThree
  <1>14. stage[1] = 0 /\ \A k \in 1 .. m : stage[1 + k] = 1
    <2>1. stage[1] = 0
      BY <1>13 DEF BandwidthStage
    <2>2. ASSUME NEW k \in 1 .. m PROVE stage[1 + k] = 1
      <3>1. 1 + k # 1 /\ 1 + k <= 1 + m
        BY <1>3
      <3>2. 1 + k \in DOMAIN s
        BY <1>13
      <3> QED
        BY <3>1, <3>2 DEF BandwidthStage
    <2> QED
      BY <2>1, <2>2
  <1>15. ASSUME NEW r \in 1 .. n, NEW p \in 1 .. w
         PROVE  /\ InRound(m, r, p) \in DOMAIN s /\ stage[InRound(m, r, p)] = RoundStage(r, p)
                /\ RoundAction(s[InRound(m, r, p)], works[r], U, p)
    <2> DEFINE k == Spot(w, r, p) i == InRound(m, r, p)
    <2>1. k \in DOMAIN z /\ z[k] = B[r][p]
      BY <1>10 DEF HasBlocks
    <2>2. i = 1 + m + k
      BY DEF InRound
    <2>3. k \in 1 .. w * n /\ BlockOf(w, k) = r /\ InBlock(w, k) = p
      <3> HIDE DEF w
      <3> QED
        BY <1>1, <1>8, SpotIs
    <2>4. k \in Nat /\ k >= 1
      <3>1. w * n \in Nat
        BY <1>1, <1>8
      <3> HIDE DEF w, k
      <3> QED
        BY <2>3, <3>1
    <2> HIDE DEF k, i
    <2>5. i \in DOMAIN s /\ s[i] = z[k]
      BY <1>13, <2>1, <2>2
    <2>6. i # 1 /\ ~ (i <= 1 + m) /\ i - (1 + m) = k
      BY <1>3, <2>2, <2>4
    <2>7. stage[i] = RoundStage(r, p)
      BY <2>3, <2>5, <2>6 DEF BandwidthStage
    <2>8. RoundAction(RoundBlock(works[r], U)[p], works[r], U, p)
      BY <1>2, RoundBlockIs DEF m
    <2>9. s[i] = RoundBlock(works[r], U)[p]
      BY <1>5, <2>1, <2>5
    <2> QED
      BY <2>5, <2>7, <2>8, <2>9 DEF i
  <1>16. ASSUME NEW i \in DOMAIN s
         PROVE  \/ i = 1
                \/ \E k \in 1 .. m : i = 1 + k
                \/ \E r \in 1 .. n : \E p \in 1 .. w : i = InRound(m, r, p)
    <2>1. ASSUME NEW k \in DOMAIN z, i = 1 + m + k
          PROVE  \E r \in 1 .. n : \E p \in 1 .. w : i = InRound(m, r, p)
      BY <1>10, <2>1 DEF HasBlocks, InRound
    <2> QED
      BY <1>13, <2>1
  <1> HIDE DEF stage
  <1> QED
    BY <1>13, <1>14, <1>15, <1>16 DEF InRounds, m, n, c, works, a, stage

\* The first action fills the array that all copy.
LEMMA FirstFillIs ==
  ASSUME ScriptKernels \subseteq KnownKernels, NEW src, NEW a, a = InitArray(src, <<"a">>)
  PROVE  /\ IsKernel(a) /\ a.core = src /\ ~ a.sync
         /\ Used(a) = {<<"a">>} /\ Written(a) = {<<"a">>} /\ Renewed(a) = {<<"a">>}
  <1> DEFINE r == <<"a">>
  <1>1. /\ a.node = "map" /\ a.core = src /\ a.kernel = "init_array" /\ a.sync = FALSE
        /\ a.args = <<r>> /\ a.repeat = 1
    BY DEF InitArray, CreateAction, Map
  <1>2. /\ "init_array" \in KnownKernels /\ "init_array" \in InitKernels
        /\ "init_array" \in DOMAIN WrittenArg /\ WrittenArg["init_array"] = 1
    BY WrittenArgIs DEF ScriptKernels, InitKernels, FirstWritten
  <1> HIDE DEF r
  <1>3. DOMAIN <<r>> = {1} /\ <<r>>[1] = r
    OBVIOUS
  <1>4. Used(a) = {r} /\ Written(a) = {r} /\ Renewed(a) = {r}
    BY <1>1, <1>2, <1>3 DEF Used, Written, Renewed
  <1>5. a.repeat > 0
    BY <1>1
  <1> QED
    BY <1>1, <1>2, <1>4, <1>5 DEF IsKernel, r

\* What the actions of such a scenario do, wherever they are.
LEMMA InRoundsActions ==
  ASSUME NEW s, NEW stage, NEW n \in Nat, NEW src, NEW works, NEW cores, IsList(cores),
         ScriptKernels \subseteq KnownKernels, InRounds(s, stage, n, src, works, cores),
         src \in CoresIn(cores), \A r \in 1 .. n : works[r] \in CoresIn(cores)
  PROVE  \A i \in DOMAIN s :
           /\ IsKernel(s[i]) /\ Written(s[i]) \subseteq Used(s[i]) /\ s[i].core \in CoresIn(cores)
           /\ stage[i] \in 0 .. n + 1 /\ (s[i].sync => stage[i] # 0 /\ Used(s[i]) = {})
           /\ Used(s[i]) \subseteq {<<"a">>, <<"b">>}
  <1> DEFINE m == Len(cores)
  <1>1. m \in Nat /\ DOMAIN cores = 1 .. m
    BY ListPlaces
  <1>2. /\ 1 \in DOMAIN s /\ s[1] = InitArray(src, <<"a">>) /\ stage[1] = 0
        /\ \A k \in 1 .. m : s[1 + k] = DummyAction(cores[k]) /\ stage[1 + k] = 1
        /\ \A r \in 1 .. n : \A p \in 1 .. 2 + m :
             /\ stage[InRound(m, r, p)] = RoundStage(r, p)
             /\ RoundAction(s[InRound(m, r, p)], works[r], cores, p)
        /\ \A i \in DOMAIN s : \/ i = 1
                               \/ \E k \in 1 .. m : i = 1 + k
                               \/ \E r \in 1 .. n : \E p \in 1 .. 2 + m : i = InRound(m, r, p)
    BY DEF InRounds
  <1> HIDE DEF m
  <1>3. \A k \in 1 .. m : cores[k] \in CoresIn(cores)
    BY <1>1 DEF CoresIn
  <1> SUFFICES ASSUME NEW i \in DOMAIN s
               PROVE  /\ IsKernel(s[i]) /\ Written(s[i]) \subseteq Used(s[i])
                      /\ s[i].core \in CoresIn(cores) /\ stage[i] \in 0 .. n + 1
                      /\ s[i].sync => stage[i] # 0 /\ Used(s[i]) = {}
                      /\ Used(s[i]) \subseteq {<<"a">>, <<"b">>}
    OBVIOUS
  <1>4. CASE i = 1
    <2>1. /\ IsKernel(s[1]) /\ s[1].core = src /\ ~ s[1].sync
          /\ Used(s[1]) = {<<"a">>} /\ Written(s[1]) = {<<"a">>}
      BY <1>2, FirstFillIs
    <2> QED
      BY <1>2, <1>4, <2>1
  <1>5. ASSUME NEW k \in 1 .. m, i = 1 + k
        PROVE  /\ IsKernel(s[i]) /\ Written(s[i]) \subseteq Used(s[i]) /\ s[i].core = cores[k]
               /\ Used(s[i]) = {} /\ stage[i] = 1
    <2>1. s[i] = DummyAction(cores[k]) /\ stage[i] = 1
      BY <1>2, <1>5
    <2> QED
      BY <2>1, DummyIs
  <1>6. ASSUME NEW r \in 1 .. n, NEW p \in 1 .. 2 + m, i = InRound(m, r, p)
        PROVE  /\ IsKernel(s[i]) /\ Written(s[i]) \subseteq Used(s[i])
               /\ s[i].core \in CoresIn(cores) /\ stage[i] \in 1 .. n + 1
               /\ s[i].sync => Used(s[i]) = {}
               /\ Used(s[i]) \subseteq {<<"a">>, <<"b">>}
    <2>1. RoundAction(s[i], works[r], cores, p) /\ stage[i] = RoundStage(r, p)
      BY <1>2, <1>6
    <2>2. RoundStage(r, p) \in 1 .. n + 1
      BY DEF RoundStage
    <2>3. CASE p <= 2
      <3>1. p = 1 \/ p = 2
        BY <1>1, <2>3
      <3> QED
        BY <2>1, <2>2, <2>3, <3>1 DEF RoundAction
    <2>4. CASE p > 2
      <3>1. p - 2 \in 1 .. m
        BY <1>1, <2>4
      <3> QED
        BY <1>3, <2>1, <2>2, <2>4, <3>1 DEF RoundAction
    <2>5. p <= 2 \/ p > 2
      BY <1>1
    <2> QED
      BY <2>3, <2>4, <2>5
  <1> QED
    BY <1>2, <1>3, <1>4, <1>5, <1>6

\* An action is at place p of round r, where round 0 is what precedes the first.
AtRound(s, stage, n, cores, i, r, p) ==
  LET m == Len(cores) IN
  /\ r \in 0 .. n /\ p \in 1 .. 2 + m /\ i = InRound(m, r, p) /\ i \in DOMAIN s
  /\ stage[i] = RoundStage(r, p) /\ (s[i].sync <=> p > 2)
  /\ p > 2 => s[i].core = cores[p - 2]

InRoundsPlaces(s, stage, n, cores) ==
  /\ \A i \in DOMAIN s : \E r \in 0 .. n : \E p \in 1 .. 2 + Len(cores) :
       AtRound(s, stage, n, cores, i, r, p)
  /\ \A r \in 0 .. n : \A p \in 3 .. 2 + Len(cores) :
       AtRound(s, stage, n, cores, InRound(Len(cores), r, p), r, p)

LEMMA InRoundsPlacesIs ==
  ASSUME NEW s, NEW stage, NEW n \in Nat, NEW src, NEW works, NEW cores, IsList(cores),
         ScriptKernels \subseteq KnownKernels, InRounds(s, stage, n, src, works, cores)
  PROVE  InRoundsPlaces(s, stage, n, cores)
  <1> DEFINE m == Len(cores)
  <1>1. m \in Nat /\ DOMAIN cores = 1 .. m
    BY ListPlaces
  <1>2. /\ 1 \in DOMAIN s /\ s[1] = InitArray(src, <<"a">>) /\ stage[1] = 0
        /\ \A k \in 1 .. m : 1 + k \in DOMAIN s /\ s[1 + k] = DummyAction(cores[k]) /\ stage[1 + k] = 1
        /\ \A r \in 1 .. n : \A p \in 1 .. 2 + m :
             /\ InRound(m, r, p) \in DOMAIN s /\ stage[InRound(m, r, p)] = RoundStage(r, p)
             /\ RoundAction(s[InRound(m, r, p)], works[r], cores, p)
        /\ \A i \in DOMAIN s : \/ i = 1
                               \/ \E k \in 1 .. m : i = 1 + k
                               \/ \E r \in 1 .. n : \E p \in 1 .. 2 + m : i = InRound(m, r, p)
    BY DEF InRounds
  <1> HIDE DEF m
  <1> DEFINE At(i, r, p) == AtRound(s, stage, n, cores, i, r, p)
  <1>3. At(1, 0, 2)
    <2>1. 1 = InRound(m, 0, 2)
      <3>1. (2 + m) * (0 - 1) = - (2 + m)
        BY <1>1
      <3> QED
        BY <1>1, <3>1 DEF InRound, Spot
    <2>2. ~ s[1].sync
      BY <1>2, FirstFillIs
    <2>3. stage[1] = RoundStage(0, 2) /\ 0 \in 0 .. n /\ 2 \in 1 .. 2 + m /\ ~ (2 > 2)
      BY <1>1, <1>2 DEF RoundStage
    <2> QED
      BY <1>2, <2>1, <2>2, <2>3 DEF AtRound, m
  <1>4. ASSUME NEW k \in 1 .. m PROVE At(1 + k, 0, 2 + k) /\ 1 + k = InRound(m, 0, 2 + k)
    <2>1. 1 + k = InRound(m, 0, 2 + k)
      <3>1. (2 + m) * (0 - 1) = - (2 + m)
        BY <1>1
      <3> QED
        BY <1>1, <3>1 DEF InRound, Spot
    <2>2. s[1 + k] = DummyAction(cores[k]) /\ 1 + k \in DOMAIN s
      BY <1>2
    <2>3. s[1 + k].sync /\ s[1 + k].core = cores[k]
      BY <2>2, DummyIs
    <2>4. /\ stage[1 + k] = RoundStage(0, 2 + k) /\ 0 \in 0 .. n /\ 2 + k \in 1 .. 2 + m
          /\ 2 + k > 2 /\ (2 + k) - 2 = k
      <3>1. k \in Int /\ 0 \in 0 .. n /\ 2 + k \in 1 .. 2 + m /\ 2 + k > 2 /\ (2 + k) - 2 = k
        BY <1>1
      <3>2. stage[1 + k] = 1
        BY <1>2
      <3>3. RoundStage(0, 2 + k) = 1
        BY <3>1 DEF RoundStage
      <3> QED
        BY <3>1, <3>2, <3>3
    <2> QED
      BY <2>1, <2>2, <2>3, <2>4 DEF AtRound, m
  <1>5. ASSUME NEW r \in 1 .. n, NEW p \in 1 .. 2 + m PROVE At(InRound(m, r, p), r, p)
    <2>1. RoundAction(s[InRound(m, r, p)], works[r], cores, p)
      BY <1>2
    <2>2. r \in 0 .. n
      OBVIOUS
    <2> QED
      BY <1>2, <2>1, <2>2 DEF AtRound, RoundAction, m
  <1>6. ASSUME NEW i \in DOMAIN s PROVE \E r \in 0 .. n : \E p \in 1 .. 2 + m : At(i, r, p)
    <2>1. CASE i = 1
      <3>1. 0 \in 0 .. n /\ 2 \in 1 .. 2 + m
        BY <1>1
      <3> QED
        BY <1>3, <2>1, <3>1
    <2>2. CASE \E k \in 1 .. m : i = 1 + k
      <3>1. PICK k \in 1 .. m : i = 1 + k
        BY <2>2
      <3>2. 0 \in 0 .. n /\ 2 + k \in 1 .. 2 + m
        BY <1>1
      <3> QED
        BY <1>4, <3>1, <3>2
    <2>3. ASSUME NEW r \in 1 .. n, NEW p \in 1 .. 2 + m, i = InRound(m, r, p)
          PROVE  r \in 0 .. n /\ At(i, r, p)
      BY <1>5, <2>3
    <2> HIDE DEF At
    <2> QED
      BY <1>2, <2>1, <2>2, <2>3
  <1>7. ASSUME NEW r \in 0 .. n, NEW p \in 3 .. 2 + m PROVE At(InRound(m, r, p), r, p)
    <2>1. CASE r = 0
      <3>1. p - 2 \in 1 .. m /\ 2 + (p - 2) = p
        BY <1>1
      <3> QED
        BY <1>4, <2>1, <3>1
    <2>2. CASE r # 0
      <3>1. r \in 1 .. n /\ p \in 1 .. 2 + m
        BY <1>1, <2>2
      <3> QED
        BY <1>5, <3>1
    <2> QED
      BY <2>1, <2>2
  <1> QED
    BY <1>6, <1>7 DEF InRoundsPlaces, m

\* The rounds are stages.
LEMMA InRoundsStages ==
  ASSUME NEW s, NEW stage, NEW n \in Nat, NEW cores, IsList(cores), NoRepeats(cores),
         InRoundsPlaces(s, stage, n, cores),
         \A i \in DOMAIN s : stage[i] \in 0 .. n + 1 /\ s[i].core \in CoresIn(cores)
  PROVE  KernelStages(s, stage, n + 1)
  <1> DEFINE m == Len(cores) w == 2 + m
             At(i, r, p) == AtRound(s, stage, n, cores, i, r, p)
  <1>1. m \in Nat /\ DOMAIN cores = 1 .. m /\ w \in Nat \ {0}
    BY ListPlaces
  <1>2. /\ \A i \in DOMAIN s : \E r \in 0 .. n : \E p \in 1 .. w : At(i, r, p)
        /\ \A r \in 0 .. n : \A p \in 3 .. w : At(InRound(m, r, p), r, p)
    BY DEF InRoundsPlaces
  <1>3. ASSUME NEW i, NEW r, NEW p, At(i, r, p)
        PROVE  /\ r \in 0 .. n /\ p \in 1 .. w /\ i = 1 + m + Spot(w, r, p) /\ i \in DOMAIN s
               /\ stage[i] = RoundStage(r, p) /\ (s[i].sync <=> p > 2)
               /\ p > 2 => s[i].core = cores[p - 2]
    BY <1>3 DEF AtRound, InRound
  <1> HIDE DEF At
  <1>4. ASSUME NEW i \in DOMAIN s, s[i].sync PROVE stage[i] # 0
    <2>1. PICK r \in 0 .. n : \E p \in 1 .. w : At(i, r, p)
      BY <1>2
    <2>2. PICK p \in 1 .. w : At(i, r, p)
      BY <2>1
    <2>3. stage[i] = RoundStage(r, p) /\ p > 2
      BY <1>3, <1>4, <2>2
    <2> QED
      BY <2>3 DEF RoundStage
  <1>5. ASSUME NEW i \in DOMAIN s, NEW t \in 1 .. n + 1
        PROVE  \E j \in DOMAIN s : s[j].core = s[i].core /\ s[j].sync /\ stage[j] = t
    <2>1. PICK k \in 1 .. m : cores[k] = s[i].core
      BY <1>1 DEF CoresIn
    <2> DEFINE r == t - 1 p == 2 + k j == InRound(m, r, p)
    <2>2. /\ r \in 0 .. n /\ p \in 3 .. w /\ p > 2 /\ p - 2 = k /\ RoundStage(r, p) = t
      BY <1>1 DEF RoundStage
    <2> HIDE DEF r, p
    <2>3. At(j, r, p)
      BY <1>2, <2>2
    <2> HIDE DEF j
    <2> QED
      BY <1>3, <2>1, <2>2, <2>3
  <1>6. ASSUME NEW i \in DOMAIN s, NEW j \in DOMAIN s, s[i].core = s[j].core, s[j].sync
        PROVE  j <= i <=> stage[j] <= stage[i]
    <2>1. PICK r \in 0 .. n : \E p \in 1 .. w : At(i, r, p)
      BY <1>2
    <2>2. PICK p \in 1 .. w : At(i, r, p)
      BY <2>1
    <2>3. PICK t \in 0 .. n : \E q \in 1 .. w : At(j, t, q)
      BY <1>2
    <2>4. PICK q \in 1 .. w : At(j, t, q)
      BY <2>3
    <2>5. /\ i = 1 + m + Spot(w, r, p) /\ j = 1 + m + Spot(w, t, q)
          /\ stage[i] = RoundStage(r, p) /\ stage[j] = RoundStage(t, q)
          /\ q > 2 /\ s[j].core = cores[q - 2] /\ (p > 2 => s[i].core = cores[p - 2])
      BY <1>3, <1>6, <2>2, <2>4
    <2>6. p > 2 => p = q
      <3> HAVE p > 2
      <3>1. p - 2 \in DOMAIN cores /\ q - 2 \in DOMAIN cores
        BY <1>1, <2>5
      <3>2. cores[p - 2] = cores[q - 2]
        BY <1>6, <2>5
      <3>3. p - 2 = q - 2
        BY <3>1, <3>2 DEF NoRepeats
      <3> QED
        BY <1>1, <3>3
    <2>7. /\ Spot(w, t, q) \in Int /\ Spot(w, r, p) \in Int
          /\ Spot(w, t, q) <= Spot(w, r, p) <=> t < r \/ (t = r /\ q <= p)
      <3>1. t \in Nat /\ r \in Nat
        OBVIOUS
      <3> HIDE DEF w
      <3> QED
        BY <1>1, <3>1, SpotOrder
    <2>8. j <= i <=> t < r \/ (t = r /\ q <= p)
      BY <1>1, <2>5, <2>7
    <2>9. stage[j] = t + 1 /\ stage[i] = (IF p <= 2 THEN r ELSE r + 1)
      BY <2>5 DEF RoundStage
    <2>10. CASE p <= 2
      BY <1>1, <2>5, <2>8, <2>9, <2>10
    <2>11. CASE ~ (p <= 2)
      BY <1>1, <2>5, <2>6, <2>8, <2>9, <2>11
    <2> QED
      BY <2>10, <2>11
  <1> QED
    BY <1>4, <1>5, <1>6 DEF KernelStages

\* Only the first action and those at work use arrays, one core in a stage.
AtWork(s, stage, works, cores, i, r, p) ==
  /\ i = InRound(Len(cores), r, p) /\ stage[i] = r /\ s[i].core = works[r]
  /\ RoundAction(s[i], works[r], cores, p)

UsesInRounds(s, stage, n, works, cores, i) ==
  \/ /\ i = 1 /\ stage[i] = 0
     /\ Used(s[i]) = {<<"a">>} /\ Renewed(s[i]) = {<<"a">>} /\ Written(s[i]) = {<<"a">>}
  \/ \E r \in 1 .. n : \E p \in 1 .. 2 : AtWork(s, stage, works, cores, i, r, p)

LEMMA InRoundsUses ==
  ASSUME NEW s, NEW stage, NEW n \in Nat, NEW src, NEW works, NEW cores, IsList(cores),
         ScriptKernels \subseteq KnownKernels, InRounds(s, stage, n, src, works, cores),
         NEW i \in DOMAIN s, Used(s[i]) # {}
  PROVE  UsesInRounds(s, stage, n, works, cores, i)
  <1> DEFINE m == Len(cores)
  <1>1. m \in Nat
    BY ListPlaces
  <1>2. /\ s[1] = InitArray(src, <<"a">>) /\ stage[1] = 0
        /\ \A k \in 1 .. m : s[1 + k] = DummyAction(cores[k])
        /\ \A r \in 1 .. n : \A p \in 1 .. 2 + m :
             /\ stage[InRound(m, r, p)] = RoundStage(r, p)
             /\ RoundAction(s[InRound(m, r, p)], works[r], cores, p)
        /\ \/ i = 1
           \/ \E k \in 1 .. m : i = 1 + k
           \/ \E r \in 1 .. n : \E p \in 1 .. 2 + m : i = InRound(m, r, p)
    BY DEF InRounds
  <1>3. CASE i = 1
    BY <1>2, <1>3, FirstFillIs DEF UsesInRounds
  <1>4. ASSUME NEW k \in 1 .. m, i = 1 + k PROVE FALSE
    <2>1. s[i] = DummyAction(cores[k])
      BY <1>2, <1>4
    <2> QED
      BY <2>1, DummyIs
  <1>5. ASSUME NEW r \in 1 .. n, NEW p \in 1 .. 2 + m, i = InRound(m, r, p)
        PROVE  p \in 1 .. 2 /\ AtWork(s, stage, works, cores, i, r, p)
    <2>1. RoundAction(s[i], works[r], cores, p) /\ stage[i] = RoundStage(r, p)
      BY <1>2, <1>5
    <2>2. ~ (p > 2)
      BY <2>1 DEF RoundAction
    <2>3. p <= 2 /\ p \in 1 .. 2
      BY <1>1, <2>2
    <2>4. s[i].core = works[r]
      BY <2>1, <2>3 DEF RoundAction
    <2> QED
      BY <1>5, <2>1, <2>3, <2>4 DEF RoundStage, AtWork
  <1> QED
    BY <1>2, <1>3, <1>4, <1>5 DEF UsesInRounds

\* A scenario in rounds is ordered when each core meets once in a round.
LEMMA InRoundsOrdered ==
  ASSUME NEW s \in Scenarios, NEW stage, NEW n \in Nat, NEW src, NEW works, NEW cores,
         IsList(cores), NoRepeats(cores), ScriptKernels \subseteq KnownKernels,
         InRounds(s, stage, n, src, works, cores),
         src \in CoresIn(cores), \A r \in 1 .. n : works[r] \in CoresIn(cores)
  PROVE  IsOrdered(s)
  <1> DEFINE m == Len(cores) w == 2 + m ra == <<"a">> rb == <<"b">>
  <1>1. m \in Nat /\ w \in Nat \ {0} /\ 1 \in 1 .. w /\ 2 \in 1 .. w /\ n + 1 \in Nat
    BY ListPlaces
  <1>2. \A i \in DOMAIN s :
          /\ IsKernel(s[i]) /\ Written(s[i]) \subseteq Used(s[i]) /\ s[i].core \in CoresIn(cores)
          /\ stage[i] \in 0 .. n + 1
    BY InRoundsActions
  <1>3. KernelStages(s, stage, n + 1)
    <2>1. InRoundsPlaces(s, stage, n, cores)
      BY InRoundsPlacesIs
    <2> QED
      BY <1>2, <2>1, InRoundsStages
  <1>4. KernelsApart(s, stage)
    <2> SUFFICES ASSUME NEW i \in DOMAIN s, NEW j \in DOMAIN s, s[i].core # s[j].core,
                        stage[i] = stage[j], Used(s[i]) # {}, Used(s[j]) # {}
                 PROVE  FALSE
      BY <1>2 DEF KernelsApart
    <2>1. (i = 1 /\ stage[i] = 0) \/ \E r \in 1 .. n : stage[i] = r /\ s[i].core = works[r]
      <3>1. UsesInRounds(s, stage, n, works, cores, i)
        BY InRoundsUses
      <3> QED
        BY <3>1 DEF UsesInRounds, AtWork
    <2>2. (j = 1 /\ stage[j] = 0) \/ \E r \in 1 .. n : stage[j] = r /\ s[j].core = works[r]
      <3>1. UsesInRounds(s, stage, n, works, cores, j)
        BY InRoundsUses
      <3> QED
        BY <3>1 DEF UsesInRounds, AtWork
    <2> QED
      BY <2>1, <2>2
  <1>5. KernelsSupplied(s, stage)
    <2> SUFFICES ASSUME NEW j \in DOMAIN s, NEW a \in Used(s[j]) \ Renewed(s[j])
                 PROVE  \E i \in DOMAIN s : /\ a \in Renewed(s[i])
                                            /\ stage[i] < stage[j] \/ (s[i].core = s[j].core /\ i < j)
      BY DEF KernelsSupplied
    <2>1. Used(s[j]) # {} /\ a \in Used(s[j])
      OBVIOUS
    <2>2. UsesInRounds(s, stage, n, works, cores, j)
      BY <2>1, InRoundsUses
    <2>3. PICK r \in 1 .. n : \E p \in 1 .. 2 : AtWork(s, stage, works, cores, j, r, p)
      BY <2>1, <2>2 DEF UsesInRounds
    <2>4. PICK p \in 1 .. 2 : AtWork(s, stage, works, cores, j, r, p)
      BY <2>3
    <2>5. /\ j = InRound(m, r, p) /\ stage[j] = r /\ s[j].core = works[r]
          /\ RoundAction(s[j], works[r], cores, p)
      BY <2>4 DEF AtWork
    <2>6. p = 2
      <3>1. p # 1
        BY <2>5 DEF RoundAction
      <3> QED
        BY <3>1
    <2>7. a = ra \/ a = rb
      BY <2>5, <2>6 DEF RoundAction
    <2>8. CASE a = ra
      <3>1. 1 \in DOMAIN s /\ stage[1] = 0 /\ Renewed(s[1]) = {ra}
        BY FirstFillIs DEF InRounds
      <3>2. stage[1] < stage[j]
        BY <2>5, <3>1
      <3> QED
        BY <2>8, <3>1, <3>2
    <2>9. CASE a = rb
      <3> DEFINE i == InRound(m, r, 1)
      <3>1. i \in DOMAIN s /\ RoundAction(s[i], works[r], cores, 1)
        BY <1>1 DEF InRounds
      <3>2. Renewed(s[i]) = {rb} /\ s[i].core = works[r]
        BY <3>1 DEF RoundAction
      <3>3. i < j
        <4>1. (2 + m) * (r - 1) \in Int
          BY <1>1
        <4> QED
          BY <1>1, <2>5, <2>6, <4>1 DEF InRound, Spot
      <3> HIDE DEF i
      <3> QED
        BY <2>5, <2>9, <3>1, <3>2, <3>3
    <2> QED
      BY <2>7, <2>8, <2>9
  <1>6. Runnable(s) /\ InStages(s, stage, n + 1)
    <2>1. OnlyKernels(s)
      BY <1>2 DEF OnlyKernels
    <2> QED
      BY <1>1, <1>3, <1>4, <1>5, <2>1, KernelsInStages
  <1> QED
    BY <1>1, <1>6, StagedIsOrdered DEF IsOrdered

\* The bandwidth scenarios are ordered when the cores that meet are different.
LEMMA BandwidthOrdered ==
  ASSUME NEW s \in Scenarios, ScriptKernels \subseteq KnownKernels, NEW machine, NEW nodes,
         IsList(nodes), NEW src \in CoresIn(nodes), s = Bandwidth(machine, nodes, src),
         NoRepeats(MeetingCores(machine, nodes, src))
  PROVE  IsOrdered(s)
  <1> DEFINE U == MeetingCores(machine, nodes, src) n == Len(nodes)
             works == WorkingCores(machine, nodes, src) c == FirstCore(machine, src)
  <1>1. n \in Nat /\ DOMAIN nodes = 1 .. n
    BY ListPlaces
  <1>2. /\ IsList(U) /\ c + 1 \in CoresIn(U)
        /\ \A k \in 1 .. n : FirstCore(machine, nodes[k]) \in CoresIn(U)
    BY <1>1, MeetingCoresIs
  <1>3. InRounds(s, BandwidthStage(Len(U), s), n, c, works, U)
    BY BandwidthInRounds
  <1>4. c \in CoresIn(U)
    <2>1. PICK k \in 1 .. n : nodes[k] = src
      BY <1>1 DEF CoresIn
    <2> QED
      BY <1>2, <2>1
  <1>5. \A r \in 1 .. n : works[r] \in CoresIn(U)
    BY <1>1, <1>2 DEF WorkingCores, WorkingCore
  <1> HIDE DEF U, n, works, c
  <1>6. NoRepeats(U)
    BY DEF U
  <1> QED
    BY <1>1, <1>2, <1>3, <1>4, <1>5, <1>6, InRoundsOrdered

\* They are on idchire, whose nodes have eight cores.
LEMMA BandwidthIdchireOrdered ==
  ASSUME NEW s \in Scenarios, ScriptKernels \subseteq KnownKernels, NEW nodes,
         IsList(nodes), NoRepeats(nodes), CoresIn(nodes) \subseteq Int,
         NEW src \in CoresIn(nodes), s = Bandwidth("idchire", nodes, src)
  PROVE  IsOrdered(s)
  <1> DEFINE U == MeetingCores("idchire", nodes, src) n == Len(nodes)
  <1>1. n \in Nat /\ DOMAIN nodes = 1 .. n
    BY ListPlaces
  <1>2. \A x : FirstCore("idchire", x) = x * 8
    BY DEF FirstCore
  <1>3. \A k \in DOMAIN U : \/ k \in 1 .. n /\ U[k] = nodes[k] * 8
                            \/ k = n + 1 /\ U[k] = src * 8 + 1
    <2>1. \A k \in DOMAIN U : \/ k \in DOMAIN nodes /\ U[k] = FirstCore("idchire", nodes[k])
                              \/ k = n + 1 /\ U[k] = FirstCore("idchire", src) + 1
      BY MeetingCoresIs
    <2> HIDE DEF U, n
    <2> QED
      BY <1>1, <1>2, <2>1
  <1>4. src \in Int /\ \A k \in 1 .. n : nodes[k] \in Int
    BY <1>1 DEF CoresIn
  <1>5. \A x, y \in Int : (x * 8 = y * 8 => x = y) /\ x * 8 # y * 8 + 1
    OBVIOUS
  <1> HIDE DEF U
  <1>6. NoRepeats(U)
    <2> SUFFICES ASSUME NEW i \in DOMAIN U, NEW j \in DOMAIN U, U[i] = U[j] PROVE i = j
      BY DEF NoRepeats
    <2>1. CASE i \in 1 .. n /\ j \in 1 .. n /\ U[i] = nodes[i] * 8 /\ U[j] = nodes[j] * 8
      <3>1. nodes[i] = nodes[j]
        BY <1>4, <1>5, <2>1
      <3> QED
        BY <1>1, <2>1, <3>1 DEF NoRepeats
    <2> QED
      BY <1>3, <1>4, <1>5, <2>1
  <1> QED
    BY <1>6, BandwidthOrdered DEF U

-------------------------------------------------------------------------------
(* The scripts that load a node: what they differ in is where the source   *)
(* is and how the cores meet before they copy.                             *)

LEMMA LoadNodeOrdered ==
  ASSUME NEW s \in Scenarios, ScriptKernels \subseteq KnownKernels, NEW src \in Int, NEW cores,
         IsList(cores), NoRepeats(cores), CoresIn(cores) \subseteq Int,
         \/ s = LoadNodeBrunch(src, cores)
         \/ s = LoadNodeIdchire(src, cores)
         \/ s = LoadOutputLink(cores)
  PROVE  IsOrdered(s)
  <1>1. CASE s = LoadNodeBrunch(src, cores)
    BY <1>1, LoadOrdered DEF LoadNodeBrunch
  <1>2. CASE s = LoadNodeIdchire(src, cores)
    <2> DEFINE b == src * 8
    <2>1. b \in Int
      OBVIOUS
    <2>2. s = LoadInit(b, cores) \o <<Scalar("barrier")>> \o LoadCopies(b, cores)
      BY <1>2 DEF LoadNodeIdchire
    <2> HIDE DEF b
    <2> QED
      BY <2>1, <2>2, LoadOrdered
  <1>3. CASE s = LoadOutputLink(cores)
    <2>1. 0 \in Int
      OBVIOUS
    <2> QED
      BY <1>3, <2>1, LoadOrdered DEF LoadOutputLink
  <1> QED
    BY <1>1, <1>2, <1>3

-------------------------------------------------------------------------------
(* What the scripts write, with what they or their arguments fix left      *)
(* open: the machine, the kernel and which cores or nodes take part.       *)

\* No core of brunch is listed twice in the order of its nodes.
DriverScript(s) ==
  \E machine \in {"idchire", "brunch", "idkat"}, kernel \in DOMAIN ArgsOf, n \in Nat,
     remote \in BOOLEAN :
    (machine = "brunch" => n <= 96) /\ s = Driver(machine, kernel, n, remote)

BrunchScript(s) ==
  \E n \in 0 .. 96, remote \in BOOLEAN : s = Dtrsm(n, remote) \/ s = Mixed(n)

SpreadScript(s) == \E i \in Nat, remote \in BOOLEAN : s = Spread(i, remote)

\* Different cores, or nodes.
Different(list) == IsList(list) /\ NoRepeats(list) /\ CoresIn(list) \subseteq Int

OneNodeScript(s) ==
  \E machine \in {"idchire", "brunch", "idkat"}, kernel \in DOMAIN ArgsOf, repeat \in Nat :
    \E local, remote \in Seq(0 .. 7) :
      /\ Different(local) /\ Different(remote) /\ CoresIn(local) \cap CoresIn(remote) = {}
      /\ s = OneNode(machine, kernel, ArgsOf[kernel], local, remote, repeat)

LoadScript(s) ==
  \E src \in Int : \E cores \in Seq(Int) :
    /\ Different(cores)
    /\ \/ s = LoadNodeBrunch(src, cores)
       \/ s = LoadNodeIdchire(src, cores)
       \/ s = LoadOutputLink(cores)

\* Where nodes are one core apart, as on brunch, a core can be in the list of those
\* that meet twice; then the scenario is not balanced.
BandwidthScript(s) ==
  \E machine \in {"idchire", "brunch", "brunch-cod", "idkat"}, nodes \in Seq(Int) :
    \E src \in CoresIn(nodes) :
      /\ Different(nodes) /\ s = Bandwidth(machine, nodes, src)
      /\ machine = "idchire" \/ NoRepeats(MeetingCores(machine, nodes, src))

OfScript(s) ==
  \/ DriverScript(s) \/ BrunchScript(s) \/ SpreadScript(s) \/ OneNodeScript(s)
  \/ LoadScript(s) \/ BandwidthScript(s)

\* Whatever a script writes, on as many cores, nodes or threads as it is asked for,
\* all its cores have as many sync tasks as another, no core writes what another
\* uses between two meetings, and all arrays are filled before they are used.
THEOREM ScriptsAreOrdered ==
  ASSUME NEW s \in Scenarios, ScriptKernels \subseteq KnownKernels, OfScript(s)
  PROVE  Balanced(s) /\ Separated(Programs(s)) /\ Supplied(Programs(s))
  <1> SUFFICES IsOrdered(s)
    BY DEF IsOrdered
  <1>1. CASE DriverScript(s)
    BY <1>1, DriverOrdered DEF DriverScript
  <1>2. CASE BrunchScript(s)
    BY <1>2, DtrsmOrdered, MixedOrdered DEF BrunchScript
  <1>3. CASE SpreadScript(s)
    BY <1>3, SpreadOrdered DEF SpreadScript
  <1>4. CASE OneNodeScript(s)
    <2>1. PICK machine \in {"idchire", "brunch", "idkat"}, kernel \in DOMAIN ArgsOf, repeat \in Nat :
            \E local, remote \in Seq(0 .. 7) :
              /\ Different(local) /\ Different(remote) /\ CoresIn(local) \cap CoresIn(remote) = {}
              /\ s = OneNode(machine, kernel, ArgsOf[kernel], local, remote, repeat)
      BY <1>4 DEF OneNodeScript
    <2>2. PICK local \in Seq(0 .. 7), remote \in Seq(0 .. 7) :
            /\ Different(local) /\ Different(remote) /\ CoresIn(local) \cap CoresIn(remote) = {}
            /\ s = OneNode(machine, kernel, ArgsOf[kernel], local, remote, repeat)
      BY <2>1
    <2>3. CoresIn(local) \subseteq 0 .. 7 /\ CoresIn(remote) \subseteq 0 .. 7
      BY DEF CoresIn
    <2> QED
      BY <2>2, <2>3, OneNodeOrdered DEF Different
  <1>5. CASE LoadScript(s)
    BY <1>5, LoadNodeOrdered DEF LoadScript, Different
  <1>6. CASE BandwidthScript(s)
    BY <1>6, BandwidthOrdered, BandwidthIdchireOrdered DEF BandwidthScript, Different
  <1> QED
    BY <1>1, <1>2, <1>3, <1>4, <1>5, <1>6 DEF OfScript

\* The replay that is given only such scenarios.
FromScripts == ScriptKernels \subseteq KnownKernels /\ \A s \in Scenarios : OfScript(s)

\* In a replay of what the scripts write, the programs the cores are given keep them
\* off each other's arrays by the order of the tasks and the meetings alone.
THEOREM ScriptsOrderedByMeetings == FromScripts /\ ArraysSpec => []OrderedByMeetings
  <1> DEFINE Of == FromScripts
  <1>1. Of /\ ArraysInit => OrderedByMeetings
    <2> SUFFICES ASSUME Of, ArraysInit PROVE OrderedByMeetings
      OBVIOUS
    <2>1. scenario \in Scenarios /\ tasks = Programs(scenario)
      BY DEF ArraysInit, Init, Programs
    <2>2. IsOrdered(scenario)
      <3>1. \A s \in Scenarios : IsOrdered(s)
        BY ScriptsAreOrdered DEF FromScripts, IsOrdered
      <3> QED
        BY <2>1, <3>1
    <2> QED
      BY <2>1, <2>2 DEF IsOrdered, OrderedByMeetings
  <1>2. OrderedByMeetings /\ [ArraysNext]_vars => OrderedByMeetings'
    BY DEF OrderedByMeetings, ArraysNext, vars, replay
  <1> HIDE DEF Of
  <1>3. Of /\ ArraysSpec => []OrderedByMeetings
    BY <1>1, <1>2, PTL DEF ArraysSpec
  <1> QED
    BY <1>3 DEF Of

\* So no kernel of theirs writes or frees an array another core uses at the time,
\* and none runs on an array that is not filled.
THEOREM ScriptsKeepApart == FromScripts /\ ArraysSpec => []NoConflict /\ []UsedReady
  <1>1. OrderedByMeetings => Separated(tasks)
    BY DEF OrderedByMeetings
  <1> QED
    BY <1>1, ScriptsOrderedByMeetings, SeparatedHasNoConflict, SuppliedIsReady, PTL

\* And no core ever waits for a meeting that not all cores come to.
THEOREM ScriptsGoOn == FromScripts /\ ArraysSpec => []GoesOn
  <1> DEFINE Even == Balanced(scenario)
  <1>1. FromScripts /\ ArraysInit => Even
    <2> SUFFICES ASSUME FromScripts, ArraysInit PROVE Even
      OBVIOUS
    <2>1. scenario \in Scenarios
      BY DEF ArraysInit, Init
    <2> QED
      BY <2>1, ScriptsAreOrdered DEF FromScripts
  <1>2. Even /\ [ArraysNext]_vars => Even'
    BY DEF ArraysNext, vars, replay
  <1>3. ArraysSpec => [](Even => GoesOn)
    BY BalancedGoesOn
  <1> HIDE DEF Even
  <1> QED
    BY <1>1, <1>2, <1>3, PTL DEF ArraysSpec

===============================================================================
