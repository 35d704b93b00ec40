---------------------------- MODULE ScenarioProofs ----------------------------
(***************************************************************************)
(* What the operators of Scenario return, for scenarios and lists of tasks *)
(* of any length: how the list of a finite set grows with the set, that a  *)
(* core is only ever given more tasks at the end of its list, and how the  *)
(* sync tasks and the rounds of a list add up.                             *)
(***************************************************************************)
EXTENDS Scenario, FiniteSetTheorems, SequenceTheorems, WellFoundedInduction, TLAPS

-------------------------------------------------------------------------------
(* Finite sets as lists. *)

\* A finite set is listed from end to end.
LEMMA ListingLen ==
  ASSUME NEW S, NEW R, IsFiniteSet(S)
  PROVE  Len(Listed(S, R)) = Cardinality(S) /\ DOMAIN Listed(S, R) = 1 .. Cardinality(S)
  BY FS_CardinalityType DEF Listed

\* What a sequence holds.
Elements(s) == {s[k] : k \in DOMAIN s}

\* The list is a sequence, of what it holds.
LEMMA ListingSeq ==
  ASSUME NEW S, NEW R, IsFiniteSet(S)
  PROVE  Listed(S, R) \in Seq(Elements(Listed(S, R)))
  <1> DEFINE L == Listed(S, R) n == Cardinality(S) T == Elements(L)
  <1>1. n \in Nat
    BY FS_CardinalityType
  <1>2. L \in [1 .. n -> T]
    BY DEF Listed, Elements
  <1> HIDE DEF L, n, T
  <1>3. L \in Seq(T)
     BY <1>1, <1>2
  <1> QED
    BY <1>3 DEF L, T

\* An element that comes after all the others comes last in the list.
LEMMA ListingExtended ==
  ASSUME NEW S, NEW R, NEW x, IsFiniteSet(S), x \notin S,
         \A y \in S : <<y, x>> \in R /\ <<x, y>> \notin R, <<x, x>> \in R
  PROVE  Listed(S \cup {x}, R) = Append(Listed(S, R), x)
  <1> DEFINE X == S \cup {x}  n == Cardinality(S) L == Listed(S, R)
  <1>1. IsFiniteSet(X) /\ n \in Nat /\ Cardinality(X) = n + 1
    BY FS_AddElement, FS_CardinalityType
  <1>2. ASSUME NEW y \in S
        PROVE  /\ Rank(X, R, y) = Rank(S, R, y)
               /\ Rank(S, R, y) \in Nat
               /\ Rank(S, R, y) <= n
    <2>1. {z \in X : <<z, y>> \in R} = {z \in S : <<z, y>> \in R}
      OBVIOUS
    <2>2. {z \in S : <<z, y>> \in R} \in SUBSET S
      OBVIOUS
    <2> QED
      BY <2>1, <2>2, FS_Subset, FS_CardinalityType DEF Rank
  <1>3. Rank(X, R, x) = n + 1
    <2>1. {z \in X : <<z, x>> \in R} = X
      OBVIOUS
    <2> QED
      BY <2>1, <1>1 DEF Rank
  <1> HIDE DEF n
  <1>4. ASSUME NEW k \in 1 .. n PROVE Place(X, R, k) = Place(S, R, k)
    <2>1. {y \in X : Rank(X, R, y) = k} = {y \in S : Rank(S, R, y) = k}
      BY <1>1, <1>2, <1>3
    <2> QED
      BY <2>1 DEF Place
  <1>5. Place(X, R, n + 1) = x
    <2>1. {y \in X : Rank(X, R, y) = n + 1} = {x}
      BY <1>1, <1>2, <1>3
    <2> QED
      BY <2>1 DEF Place
  <1>6. L \in Seq(Elements(L)) /\ Len(L) = n /\ L = [k \in 1 .. n |-> Place(S, R, k)]
    BY ListingSeq, ListingLen DEF n, Listed
  <1>7. Listed(X, R) = [k \in 1 .. n + 1 |-> Place(X, R, k)]
    BY <1>1 DEF Listed
  <1> HIDE DEF L, X
  <1>8. Append(L, x) = [k \in 1 .. n + 1 |-> IF k = n + 1 THEN x ELSE L[k]]
    BY <1>1, <1>6
  <1>9. \A k \in 1 .. n + 1 : Place(X, R, k) = IF k = n + 1 THEN x ELSE L[k]
    BY <1>1, <1>4, <1>5, <1>6
  <1> QED
    BY <1>7, <1>8, <1>9 DEF L, X

\* The list of a finite set in a linear order has all its elements, each once.
LEMMA ListingWhole ==
  ASSUME NEW S, NEW R, IsFiniteSet(S),
         \A x, y \in S : <<x, y>> \in R \/ <<y, x>> \in R,
         \A x, y \in S : <<x, y>> \in R /\ <<y, x>> \in R => x = y,
         \A x, y, z \in S : <<x, y>> \in R /\ <<y, z>> \in R => <<x, z>> \in R
  PROVE  /\ \A k \in 1 .. Cardinality(S) : Listed(S, R)[k] \in S
         /\ \A x \in S : \E k \in 1 .. Cardinality(S) : Listed(S, R)[k] = x
         /\ \A k, l \in 1 .. Cardinality(S) : Listed(S, R)[k] = Listed(S, R)[l] => k = l
  <1> DEFINE n       == Cardinality(S)
             Upto(x) == {y \in S : <<y, x>> \in R}
             f       == [x \in S |-> Rank(S, R, x)]
  <1>1. n \in Nat /\ IsFiniteSet(1 .. n) /\ Cardinality(1 .. n) = n
    BY FS_CardinalityType, FS_Interval
  <1>2. ASSUME NEW x \in S
        PROVE  IsFiniteSet(Upto(x)) /\ Cardinality(Upto(x)) \in 1 .. n
    <2>1. IsFiniteSet(Upto(x)) /\ Cardinality(Upto(x)) <= n
      BY FS_Subset
    <2>2. x \in Upto(x)
      OBVIOUS
    <2>3. Cardinality(Upto(x)) \in Nat /\ Cardinality(Upto(x)) # 0
      BY <2>1, <2>2, FS_CardinalityType, FS_EmptySet
    <2> HIDE DEF Upto
    <2> QED
      BY <1>1, <2>1, <2>3
  <1>3. \A x \in S : Rank(S, R, x) = Cardinality(Upto(x))
    BY DEF Rank
  <1> HIDE DEF Upto
  <1>4. ASSUME NEW x \in S, NEW y \in S, <<x, y>> \in R, x # y
        PROVE  Cardinality(Upto(x)) # Cardinality(Upto(y))
    <2>1. Upto(x) \subseteq Upto(y) /\ y \in Upto(y) /\ y \notin Upto(x)
      BY <1>4 DEF Upto
    <2> QED
      BY <1>2, <2>1, FS_Subset
  <1>5. ASSUME NEW x \in S, NEW y \in S, Rank(S, R, x) = Rank(S, R, y) PROVE x = y
    <2>1. Cardinality(Upto(x)) = Cardinality(Upto(y))
      BY <1>3, <1>5
    <2>2. <<x, y>> \in R \/ <<y, x>> \in R
      OBVIOUS
    <2> QED
      BY <1>4, <2>1, <2>2
  <1>6. f \in [S -> 1 .. n] /\ \A x \in S : f[x] = Rank(S, R, x)
    <2>1. \A x \in S : Rank(S, R, x) \in 1 .. n
      BY <1>2, <1>3
    <2> HIDE DEF n
    <2> QED
      BY <2>1
  <1> HIDE DEF f, n
  <1>7. f \in Injection(S, 1 .. n)
    BY <1>5, <1>6 DEF Injection, IsInjective
  <1>8. f \in Surjection(S, 1 .. n)
    BY <1>1, <1>7, FS_Injection DEF n
  <1>9. ASSUME NEW k \in 1 .. n
        PROVE  Place(S, R, k) \in S /\ Rank(S, R, Place(S, R, k)) = k
    <2>1. \E x \in S : Rank(S, R, x) = k
      BY <1>6, <1>8 DEF Surjection
    <2> QED
      BY <2>1 DEF Place
  <1>10. \A k \in 1 .. n : Listed(S, R)[k] = Place(S, R, k)
    BY DEF Listed, n
  <1>11. ASSUME NEW x \in S PROVE \E k \in 1 .. n : Listed(S, R)[k] = x
    <2>1. Rank(S, R, x) \in 1 .. n
      BY <1>6
    <2> QED
      BY <1>5, <1>9, <1>10, <2>1
  <1> QED
    BY <1>9, <1>10, <1>11 DEF n

-------------------------------------------------------------------------------
(* Lists one after another. *)

\* A list.
IsList(P) == P \in Seq(Elements(P))

\* Its places are those from one to its length.
LEMMA ListPlaces ==
  ASSUME NEW x, IsList(x) PROVE Len(x) \in Nat /\ DOMAIN x = 1 .. Len(x)
  BY DEF IsList

\* A function on 1 to n is a list.
LEMMA FunctionIsList ==
  ASSUME NEW f, NEW n \in Nat, DOMAIN f = 1 .. n, f = [k \in DOMAIN f |-> f[k]]
  PROVE  IsList(f) /\ Len(f) = n
  <1> DEFINE E == Elements(f)
  <1>1. f \in [1 .. n -> E]
    BY DEF Elements
  <1> HIDE DEF E
  <1>2. f \in Seq(E) /\ Len(f) = n
    BY <1>1
  <1> QED
    BY <1>2 DEF IsList, E

\* Lists that are joined keep what they hold in its order.
LEMMA JoinedLists ==
  ASSUME NEW x, NEW y, IsList(x), IsList(y)
  PROVE  /\ IsList(x \o y) /\ Len(x \o y) = Len(x) + Len(y)
         /\ \A k \in DOMAIN x : k \in DOMAIN (x \o y) /\ (x \o y)[k] = x[k]
         /\ \A k \in DOMAIN y :
              Len(x) + k \in DOMAIN (x \o y) /\ (x \o y)[Len(x) + k] = y[k]
         /\ \A k \in DOMAIN (x \o y) : k \in DOMAIN x \/ \E l \in DOMAIN y : k = Len(x) + l
  <1> DEFINE E == Elements(x) \cup Elements(y)
  <1>1. \A T, U, q : q \in Seq(T) => q \in Seq(T \cup U) /\ q \in Seq(U \cup T)
    OBVIOUS
  <1>2. x \in Seq(E) /\ y \in Seq(E)
    BY <1>1 DEF IsList
  <1> DEFINE z == x \o y
  <1> HIDE DEF E
  <1>3. z \in Seq(E) /\ Len(z) = Len(x) + Len(y)
    BY <1>2
  <1>4. Len(x) \in Nat /\ DOMAIN x = 1 .. Len(x) /\ Len(y) \in Nat /\ DOMAIN y = 1 .. Len(y)
    BY ListPlaces
  <1>5. \A k \in 1 .. Len(x) : z[k] = x[k]
    BY <1>2
  <1>6. \A k \in 1 .. Len(y) : z[Len(x) + k] = y[k]
    BY <1>2
  <1> HIDE DEF z
  <1>7. Len(z) \in Nat /\ DOMAIN z = 1 .. Len(z) /\ z = [k \in DOMAIN z |-> z[k]]
    BY <1>3
  <1>8. IsList(z)
    BY <1>7, FunctionIsList
  <1>9. /\ \A k \in DOMAIN x : k \in DOMAIN z /\ z[k] = x[k]
        /\ \A k \in DOMAIN y : Len(x) + k \in DOMAIN z /\ z[Len(x) + k] = y[k]
    BY <1>3, <1>4, <1>5, <1>6, <1>7
  <1>10. \A k \in DOMAIN z : k \in DOMAIN x \/ \E l \in DOMAIN y : k = Len(x) + l
    <2> TAKE k \in DOMAIN z
    <2>1. k \in 1 .. Len(x) + Len(y)
      BY <1>3, <1>7
    <2>2. k \in 1 .. Len(x) \/ (k - Len(x) \in 1 .. Len(y) /\ k = Len(x) + (k - Len(x)))
      BY <1>4, <2>1
    <2> QED
      BY <1>4, <2>2
  <1> QED
    BY <1>3, <1>8, <1>9, <1>10 DEF z

-------------------------------------------------------------------------------
(* Induction on the natural numbers, for sets. *)

\* What holds of 0, and of n + 1 when it does of n, holds of every number.
LEMMA SetInduction ==
  ASSUME NEW A, 0 \in A, \A n \in Nat : n \in A => n + 1 \in A
  PROVE  Nat \subseteq A
  <1> SUFFICES ASSUME Nat \ A # {} PROVE FALSE
    OBVIOUS
  <1>1. PICK n \in Nat \ A : \A k \in Nat \ A : ~ (<<k, n>> \in OpToRel(<, Nat))
    <2> Nat \ A \subseteq Nat
      OBVIOUS
    <2> QED
      BY NatLessThanWellFounded, WFMin, Zenon
  <1>2. \A k \in Nat \ A : ~ (k < n)
    BY <1>1 DEF OpToRel
  <1>3. n # 0 /\ n - 1 \in Nat /\ n - 1 < n
    OBVIOUS
  <1> QED
    BY <1>2, <1>3

-------------------------------------------------------------------------------
(* The tasks of a core. *)

\* A scenario is a finite list of actions.
LEMMA ScenarioIsSeq ==
  ASSUME NEW s \in Scenarios
  PROVE  /\ Len(s) \in Nat /\ DOMAIN s = 1 .. Len(s)
         /\ \A i \in 1 .. Len(s) : IsAction(s[i])
  <1> DEFINE A == {s[i] : i \in DOMAIN s}
  <1>1. s \in Seq(A) /\ \A i \in DOMAIN s : IsAction(s[i])
    BY ScenariosAssumption
  <1> HIDE DEF A
  <1> QED
    BY <1>1

\* The actions that reach a core can be counted.
LEMMA ActionsForFinite ==
  ASSUME NEW s, NEW t, NEW n \in Nat
  PROVE  IsFiniteSet(ActionsFor(s, t, n))
  <1>1. ActionsFor(s, t, n) \in SUBSET (1 .. n) /\ IsFiniteSet(1 .. n)
    BY FS_Interval DEF ActionsFor
  <1> QED
    BY <1>1, FS_Subset

\* A core's tasks are a sequence that begins with the `start_sync` of the
\* constructor.
LEMMA TasksSeq ==
  ASSUME NEW s, NEW t, NEW n \in Nat
  PROVE  /\ TasksUpTo(s, t, n) \in Seq(Elements(TasksUpTo(s, t, n)))
         /\ Len(TasksUpTo(s, t, n)) \in Nat \ {0}
         /\ TasksUpTo(s, t, n)[1] = StartSync
         /\ DOMAIN TasksUpTo(s, t, n) = 1 .. Len(TasksUpTo(s, t, n))
  <1> DEFINE L == Listed(ActionsFor(s, t, n), IndexOrder(s))
             F == [k \in DOMAIN L |-> TaskOf(s[L[k]])]
             c == Cardinality(ActionsFor(s, t, n))
             E == Elements(F) \cup {StartSync}
  <1>1. DOMAIN L = 1 .. c /\ c \in Nat
    BY ListingLen, ActionsForFinite, FS_CardinalityType
  <1>2. F \in [1 .. c -> E]
    BY <1>1 DEF Elements
  <1> DEFINE T == TasksUpTo(s, t, n)
  <1>3. T = <<StartSync>> \o F
    BY DEF TasksUpTo
  <1> HIDE DEF L, F, c, T
  <1>4. F \in Seq(E) /\ <<StartSync>> \in Seq(E)
    <2> StartSync \in E
      OBVIOUS
    <2> HIDE DEF E
    <2> QED
      BY <1>1, <1>2
  <1> HIDE DEF E
  <1>5. T \in Seq(E) /\ T[1] = StartSync /\ Len(T) \in Nat \ {0} /\ DOMAIN T = 1 .. Len(T)
    BY <1>3, <1>4
  <1>6. T \in Seq(Elements(T))
    <2>1. T \in [1 .. Len(T) -> Elements(T)]
       BY <1>5 DEF Elements
    <2> QED
      BY <1>5, <2>1
  <1> QED
    BY <1>5, <1>6 DEF T

\* Before any action, that is all a core has.
LEMMA TasksOfNone ==
  ASSUME NEW s, NEW t PROVE TasksUpTo(s, t, 0) = <<StartSync>>
  <1>1. ActionsFor(s, t, 0) = {}
    BY DEF ActionsFor
  <1>2. Listed({}, IndexOrder(s)) = <<>>
    BY FS_EmptySet DEF Listed
  <1>3. <<StartSync>> \o <<>> = <<StartSync>>
    OBVIOUS
  <1>4. [k \in DOMAIN <<>> |-> TaskOf(s[<<>>[k]])] = <<>>
    OBVIOUS
  <1> QED
    BY <1>1, <1>2, <1>3, <1>4 DEF TasksUpTo

\* An action adds its task at the end of the lists of its targets, and nothing
\* to the others.
LEMMA TasksNext ==
  ASSUME NEW s \in Scenarios, NEW t, NEW n \in 1 .. Len(s)
  PROVE  TasksUpTo(s, t, n) = IF t \in Targets(s, s[n])
                              THEN Append(TasksUpTo(s, t, n - 1), TaskOf(s[n]))
                              ELSE TasksUpTo(s, t, n - 1)
  <1> DEFINE A(k) == ActionsFor(s, t, k)  R == IndexOrder(s)
             L == Listed(A(n - 1), R)
             F(l) == [k \in DOMAIN l |-> TaskOf(s[l[k]])]
  <1>1. Len(s) \in Nat /\ DOMAIN s = 1 .. Len(s) /\ n - 1 \in Nat
    BY ScenarioIsSeq
  <1>2. CASE t \notin Targets(s, s[n])
    <2>1. A(n) = A(n - 1)
      BY <1>1, <1>2 DEF ActionsFor
    <2> QED
      BY <2>1, <1>2 DEF TasksUpTo
  <1>3. CASE t \in Targets(s, s[n])
    <2>1. A(n) = A(n - 1) \cup {n} /\ n \notin A(n - 1)
      BY <1>1, <1>3 DEF ActionsFor
    <2>2. /\ \A y \in A(n - 1) : <<y, n>> \in R /\ <<n, y>> \notin R
          /\ <<n, n>> \in R
      BY <1>1 DEF ActionsFor, IndexOrder
    <2>3. Listed(A(n), R) = Append(L, n)
      BY <1>1, <2>1, <2>2, ListingExtended, ActionsForFinite
    <2>4. L \in Seq(Elements(L))
      BY <1>1, ListingSeq, ActionsForFinite
    <2> DEFINE c == Len(L) E == Elements(F(L)) \cup {StartSync, TaskOf(s[n])}
    <2> HIDE DEF L
    <2>5. c \in Nat /\ DOMAIN L = 1 .. c /\ DOMAIN Append(L, n) = 1 .. c + 1
          /\ \A k \in 1 .. c + 1 : Append(L, n)[k] = IF k = c + 1 THEN n ELSE L[k]
      BY <2>4
    <2>6. F(L) \in [1 .. c -> E] /\ TaskOf(s[n]) \in E /\ StartSync \in E
      BY <2>5 DEF Elements
    <2>7. F(Append(L, n)) = [k \in 1 .. c + 1 |-> IF k = c + 1 THEN TaskOf(s[n]) ELSE F(L)[k]]
      BY <2>5
    <2>8. TasksUpTo(s, t, n) = <<StartSync>> \o F(Append(L, n))
          /\ TasksUpTo(s, t, n - 1) = <<StartSync>> \o F(L)
      BY <2>3 DEF TasksUpTo, L
    <2> DEFINE f == F(L) g == F(Append(L, n)) e == TaskOf(s[n])
    <2> HIDE DEF f, g, e, c, E
    <2>9. f \in Seq(E) /\ Len(f) = c
      BY <2>5, <2>6 DEF f, e
    <2>10. g = Append(f, e)
      BY <2>7, <2>9, <2>5 DEF f, g, e
    <2>11. <<StartSync>> \o Append(f, e) = Append(<<StartSync>> \o f, e)
      BY <2>9, <2>6 DEF e
    <2> QED
      BY <2>8, <2>10, <2>11, <1>3 DEF f, g, e
  <1> QED
    BY <1>2, <1>3

\* A task that a worker can run.
IsTask(tk) == tk.kernel \in KnownKernels /\ tk.sync \in BOOLEAN /\ tk.repeat \in Int

\* What main builds of an action it knows is a task that a worker can run.
LEMMA TaskOfIsTask ==
  ASSUME NEW s, NEW t, NEW a, IsAction(a), t \in Targets(s, a)
  PROVE  IsTask(TaskOf(a))
  <1>1. CASE IsBarrier(a)
    BY <1>1, KernelsAssumption DEF TaskOf, BarrierTask, Task, IsTask
  <1>2. CASE ~ IsBarrier(a)
    <2>1. IsKnown(a)
      BY <1>2 DEF Targets
    <2>2. KernelName(a) \in KnownKernels /\ a.sync \in BOOLEAN /\ a.repeat \in Int
      BY <2>1 DEF IsKnown, IsAction
    <2>3. TaskOf(a) = KernelTask(a)
      BY <1>2 DEF TaskOf
    <2> QED
      BY <2>2, <2>3 DEF KernelTask, Task, IsTask
  <1> QED
    BY <1>1, <1>2

\* So is everything a core is ever given.
LEMMA TasksAreTasks ==
  ASSUME NEW s \in Scenarios, NEW t, NEW n \in 0 .. Len(s)
  PROVE  \A k \in 1 .. Len(TasksUpTo(s, t, n)) : IsTask(TasksUpTo(s, t, n)[k])
  <1> DEFINE All(i) == \A k \in 1 .. Len(TasksUpTo(s, t, i)) : IsTask(TasksUpTo(s, t, i)[k])
             A == {i \in Nat : i <= Len(s) => All(i)}
  <1>1. All(0)
    <2>1. IsTask(StartSync)
      BY KernelsAssumption DEF IsTask, StartSync, Task
    <2>2. \A k \in 1 .. Len(<<StartSync>>) : <<StartSync>>[k] = StartSync
      OBVIOUS
    <2> QED
      BY <2>1, <2>2, TasksOfNone
  <1>2. ASSUME NEW i \in Nat, i + 1 <= Len(s), All(i) PROVE All(i + 1)
    <2> DEFINE T == TasksUpTo(s, t, i) U == TasksUpTo(s, t, i + 1) e == TaskOf(s[i + 1])
    <2>1. Len(s) \in Nat /\ i + 1 \in 1 .. Len(s) /\ IsAction(s[i + 1]) /\ (i + 1) - 1 = i
      BY <1>2, ScenarioIsSeq
    <2>2. U = IF t \in Targets(s, s[i + 1]) THEN Append(T, e) ELSE T
      BY <2>1, TasksNext, Zenon
    <2>3. T \in Seq(Elements(T)) /\ \A j \in 1 .. Len(T) : IsTask(T[j])
      BY <1>2, <2>1, TasksSeq
    <2>4. t \in Targets(s, s[i + 1]) => IsTask(e)
      BY <2>1, TaskOfIsTask
    <2> HIDE DEF T, U, e
    <2>5. \A k \in 1 .. Len(U) : IsTask(U[k])
      BY <2>2, <2>3, <2>4
    <2> QED
      BY <2>5 DEF U
  <1> HIDE DEF All
  <1>3. 0 \in A /\ \A i \in Nat : i \in A => i + 1 \in A
    BY <1>1, <1>2, ScenarioIsSeq
  <1>4. n \in Nat /\ n <= Len(s) /\ n \in A
    <2> HIDE DEF A
    <2> QED
      BY <1>3, SetInduction, ScenarioIsSeq
  <1> QED
    BY <1>4 DEF All

\* List S is the beginning of list T.
IsPrefix(S, T) == Len(S) <= Len(T) /\ \A k \in 1 .. Len(S) : S[k] = T[k]

\* What a core has been given stays: later lists begin with earlier ones.
LEMMA TasksGrow ==
  ASSUME NEW s \in Scenarios, NEW t, NEW m \in 0 .. Len(s), NEW n \in 0 .. m
  PROVE  IsPrefix(TasksUpTo(s, t, n), TasksUpTo(s, t, m))
  <1> DEFINE T == TasksUpTo(s, t, n)
             G(i) == IsPrefix(T, TasksUpTo(s, t, i))
             A == {i \in Nat : n <= i /\ i <= Len(s) => G(i)}
  <1>1. Len(s) \in Nat /\ n \in Nat /\ m \in Nat /\ n <= m /\ m <= Len(s)
    BY ScenarioIsSeq
  <1>2. T \in Seq(Elements(T)) /\ Len(T) \in Nat
    BY <1>1, TasksSeq
  <1> HIDE DEF T
  <1>3. G(n)
    BY <1>2 DEF IsPrefix, T
  <1>4. ASSUME NEW i \in Nat, i + 1 <= Len(s), G(i) PROVE G(i + 1)
    <2> DEFINE V == TasksUpTo(s, t, i) U == TasksUpTo(s, t, i + 1) e == TaskOf(s[i + 1])
    <2>1. i + 1 \in 1 .. Len(s) /\ (i + 1) - 1 = i
      BY <1>1, <1>4
    <2>2. U = IF t \in Targets(s, s[i + 1]) THEN Append(V, e) ELSE V
      BY <2>1, TasksNext, Zenon
    <2>3. V \in Seq(Elements(V))
      BY TasksSeq
    <2>4. IsPrefix(T, V)
      BY <1>4
    <2> HIDE DEF V, U, e
    <2>5. IsPrefix(T, U)
      BY <1>2, <2>2, <2>3, <2>4 DEF IsPrefix
    <2> QED
      BY <2>5 DEF U
  <1> HIDE DEF G
  <1>5. 0 \in A /\ \A i \in Nat : i \in A => i + 1 \in A
    <2>1. 0 \in A
      BY <1>1, <1>3
    <2>2. ASSUME NEW i \in Nat, i \in A, n <= i + 1, i + 1 <= Len(s) PROVE G(i + 1)
      BY <1>1, <1>3, <1>4, <2>2
    <2> QED
      BY <2>1, <2>2
  <1>6. m \in A
    <2> HIDE DEF A
    <2> QED
      BY <1>1, <1>5, SetInduction
  <1> QED
    BY <1>1, <1>6 DEF G, T

\* Main gets through at least the actions before which no action ended the
\* process.
LEMMA ReachedBounds ==
  ASSUME NEW s \in Scenarios, NEW n \in 0 .. Len(s), \A j \in 1 .. n : ~ Fatal(s[j])
  PROVE  Reached(s) \in 0 .. Len(s) /\ n <= Reached(s)
  <1> DEFINE A == {i \in DOMAIN s : \A j \in 1 .. i : ~ Fatal(s[j])}
  <1>1. Len(s) \in Nat /\ DOMAIN s = 1 .. Len(s)
    BY ScenarioIsSeq
  <1>2. 1 .. n \in SUBSET A /\ A \in SUBSET (1 .. Len(s))
    BY <1>1
  <1>3. /\ IsFiniteSet(1 .. Len(s)) /\ Cardinality(1 .. Len(s)) = Len(s)
        /\ Cardinality(1 .. n) = n
    <2>1. \A k \in Nat : IsFiniteSet(1 .. k) /\ Cardinality(1 .. k) = k
      BY FS_Interval
    <2> QED
      BY <1>1, <2>1
  <1> HIDE DEF A
  <1>4. IsFiniteSet(A) /\ Cardinality(A) <= Len(s) /\ n <= Cardinality(A)
        /\ Cardinality(A) \in Nat
    BY <1>2, <1>3, FS_Subset, FS_CardinalityType
  <1> QED
    BY <1>1, <1>4 DEF Reached, A

-------------------------------------------------------------------------------
(* Sync tasks. *)

SyncTasks(tasks, n) == {i \in 1 .. n : tasks[i].sync}

\* There are no more sync tasks than tasks.
LEMMA SyncsType ==
  ASSUME NEW tasks, NEW n \in Nat
  PROVE  IsFiniteSet(SyncTasks(tasks, n)) /\ SyncsWithin(tasks, n) \in 0 .. n
  <1>1. SyncTasks(tasks, n) \in SUBSET (1 .. n) /\ IsFiniteSet(1 .. n)
        /\ Cardinality(1 .. n) = n
    BY FS_Interval DEF SyncTasks
  <1>2. IsFiniteSet(SyncTasks(tasks, n)) /\ Cardinality(SyncTasks(tasks, n)) \in 0 .. n
    BY <1>1, FS_Subset, FS_CardinalityType
  <1> QED
    BY <1>2 DEF SyncsWithin, SyncTasks

\* A sync task adds one to the count, and no other task does.
LEMMA SyncsNext ==
  ASSUME NEW tasks, NEW n \in Nat
  PROVE  SyncsWithin(tasks, n + 1) =
           SyncsWithin(tasks, n) + (IF tasks[n + 1].sync THEN 1 ELSE 0)
  <1> DEFINE S == SyncTasks(tasks, n) X == SyncTasks(tasks, n + 1)
  <1>1. SyncsWithin(tasks, n) = Cardinality(S) /\ SyncsWithin(tasks, n + 1) = Cardinality(X)
        /\ IsFiniteSet(S) /\ Cardinality(S) \in Nat
    BY SyncsType, FS_CardinalityType DEF SyncsWithin, SyncTasks
  <1>2. X = IF tasks[n + 1].sync THEN S \cup {n + 1} ELSE S
    BY DEF SyncTasks
  <1>3. n + 1 \notin S
    BY DEF SyncTasks
  <1> HIDE DEF S, X
  <1> QED
    BY <1>1, <1>2, <1>3, FS_AddElement

\* More tasks have no fewer sync tasks among them.
LEMMA SyncsMonotone ==
  ASSUME NEW tasks, NEW n \in Nat, NEW k \in 0 .. n
  PROVE  SyncsWithin(tasks, k) <= SyncsWithin(tasks, n)
  <1>1. SyncTasks(tasks, k) \in SUBSET SyncTasks(tasks, n)
    BY DEF SyncTasks
  <1>2. Cardinality(SyncTasks(tasks, k)) <= Cardinality(SyncTasks(tasks, n))
    BY <1>1, SyncsType, FS_Subset
  <1> QED
    BY <1>2 DEF SyncsWithin, SyncTasks

\* A core that has done r tasks, when every later one has k sync tasks up to
\* it, is done with all that comes before its k-th sync task.
LEMMA BeforeSyncBound ==
  ASSUME NEW tasks, NEW r \in Nat, NEW k \in Nat,
         DOMAIN tasks = 1 .. Len(tasks),
         \A i \in DOMAIN tasks : i > r => SyncsWithin(tasks, i) >= k
  PROVE  BeforeSync(tasks, k) <= r
  <1> DEFINE B == {i \in DOMAIN tasks : SyncsWithin(tasks, i) < k}
  <1>1. \A i \in B : i \in 1 .. r
    <2> SUFFICES ASSUME NEW i \in DOMAIN tasks, SyncsWithin(tasks, i) < k PROVE i \in 1 .. r
      OBVIOUS
    <2>1. i \in Nat /\ i >= 1
      OBVIOUS
    <2>2. SyncsWithin(tasks, i) \in Nat
      BY <2>1, SyncsType
    <2> QED
      BY <2>1, <2>2
  <1>2. B \in SUBSET (1 .. r) /\ IsFiniteSet(1 .. r) /\ Cardinality(1 .. r) = r
    BY <1>1, FS_Interval
  <1> HIDE DEF B
  <1>3. Cardinality(B) <= r
    BY <1>2, FS_Subset
  <1> QED
    BY <1>3 DEF B, BeforeSync

-------------------------------------------------------------------------------
(* From the actions of a scenario to the places of their tasks. *)

\* The sync tasks that the first n actions give core t.
Meets(s, t, n) == Cardinality({j \in 1 .. n : t \in Targets(s, s[j]) /\ TaskOf(s[j]).sync})

\* The place of an action's task in the program of a core it is for.
PlaceOf(s, t, i) == Len(TasksUpTo(s, t, i))

\* A sync task for the core adds one, and no other action does.
LEMMA MeetsNext ==
  ASSUME NEW s, NEW t, NEW n \in Nat
  PROVE  /\ Meets(s, t, n) \in Nat
         /\ Meets(s, t, n + 1) = Meets(s, t, n)
              + (IF t \in Targets(s, s[n + 1]) /\ TaskOf(s[n + 1]).sync THEN 1 ELSE 0)
  <1> DEFINE Meet(j) == t \in Targets(s, s[j]) /\ TaskOf(s[j]).sync
             S == {j \in 1 .. n : Meet(j)}
             X == {j \in 1 .. n + 1 : Meet(j)}
  <1> HIDE DEF Meet
  <1>1. S \in SUBSET (1 .. n) /\ IsFiniteSet(1 .. n)
    BY FS_Interval
  <1>2. X = (IF Meet(n + 1) THEN S \cup {n + 1} ELSE S) /\ n + 1 \notin S
    OBVIOUS
  <1>3. Meets(s, t, n) = Cardinality(S) /\ Meets(s, t, n + 1) = Cardinality(X)
    BY DEF Meets, Meet
  <1> HIDE DEF S, X
  <1>4. IsFiniteSet(S) /\ Cardinality(S) \in Nat
    BY <1>1, FS_Subset, FS_CardinalityType
  <1>5. Cardinality(X) = Cardinality(S) + (IF Meet(n + 1) THEN 1 ELSE 0)
    BY <1>2, <1>4, FS_AddElement
  <1> QED
    BY <1>3, <1>4, <1>5 DEF Meet

\* The beginning of a list has the sync tasks it has in the list.
LEMMA SyncsOfPrefix ==
  ASSUME NEW S, NEW T, IsPrefix(S, T), Len(S) \in Nat
  PROVE  SyncsWithin(T, Len(S)) = SyncsOf(S)
  <1>1. {i \in 1 .. Len(S) : T[i].sync} = {i \in 1 .. Len(S) : S[i].sync}
    BY DEF IsPrefix
  <1> QED
    BY <1>1 DEF SyncsWithin, SyncsOf

\* A program has `start_sync` and the sync tasks of the actions for the core.
LEMMA SyncsUpTo ==
  ASSUME NEW s \in Scenarios, NEW t, NEW n \in 0 .. Len(s)
  PROVE  SyncsOf(TasksUpTo(s, t, n)) = 1 + Meets(s, t, n)
  <1> DEFINE Sum(i) == SyncsOf(TasksUpTo(s, t, i)) = 1 + Meets(s, t, i)
             A == {i \in Nat : i <= Len(s) => Sum(i)}
  <1>1. Sum(0)
    <2>1. {j \in 1 .. 0 : t \in Targets(s, s[j]) /\ TaskOf(s[j]).sync} = {}
      OBVIOUS
    <2>2. Meets(s, t, 0) = 0
      BY <2>1, FS_EmptySet DEF Meets
    <2>3. {j \in 1 .. 0 : <<StartSync>>[j].sync} = {}
      OBVIOUS
    <2>4. SyncsWithin(<<StartSync>>, 0) = 0
      BY <2>3, FS_EmptySet DEF SyncsWithin
    <2>5. <<StartSync>>[0 + 1].sync /\ Len(<<StartSync>>) = 0 + 1
      BY DEF StartSync, Task
    <2>6. SyncsWithin(<<StartSync>>, 0 + 1) = 0 + 1
      BY <2>4, <2>5, SyncsNext
    <2>7. TasksUpTo(s, t, 0) = <<StartSync>>
      BY TasksOfNone
    <2>8. SyncsOf(<<StartSync>>) = 1
      BY <2>5, <2>6 DEF SyncsOf
    <2>9. SyncsOf(TasksUpTo(s, t, 0)) = 1 + Meets(s, t, 0)
      BY <2>2, <2>7, <2>8
    <2> QED
      BY <2>9
  <1>2. ASSUME NEW i \in Nat, i + 1 <= Len(s), Sum(i) PROVE Sum(i + 1)
    <2> DEFINE T == TasksUpTo(s, t, i) U == TasksUpTo(s, t, i + 1) e == TaskOf(s[i + 1])
    <2>1. Len(s) \in Nat /\ i + 1 \in 1 .. Len(s) /\ (i + 1) - 1 = i
      BY <1>2, ScenarioIsSeq
    <2>2. U = IF t \in Targets(s, s[i + 1]) THEN Append(T, e) ELSE T
      BY <2>1, TasksNext, Zenon
    <2>3. T \in Seq(Elements(T)) /\ Len(T) \in Nat
      BY TasksSeq
    <2>4. Meets(s, t, i) \in Nat
          /\ Meets(s, t, i + 1) = Meets(s, t, i)
               + (IF t \in Targets(s, s[i + 1]) /\ e.sync THEN 1 ELSE 0)
      BY MeetsNext
    <2>5. SyncsOf(T) = 1 + Meets(s, t, i)
      BY <1>2
    <2>6. CASE t \notin Targets(s, s[i + 1])
      BY <2>2, <2>4, <2>5, <2>6
    <2>7. CASE t \in Targets(s, s[i + 1])
      <3> HIDE DEF T, U, e
      <3>1. U = Append(T, e)
        BY <2>2, <2>7
      <3>2. Len(U) = Len(T) + 1 /\ U[Len(T) + 1] = e /\ IsPrefix(T, U)
        BY <2>3, <3>1 DEF IsPrefix
      <3>3. SyncsWithin(U, Len(T)) = SyncsOf(T)
        BY <2>3, <3>2, SyncsOfPrefix
      <3>4. SyncsWithin(U, Len(T) + 1) = SyncsWithin(U, Len(T)) + (IF e.sync THEN 1 ELSE 0)
        BY <2>3, <3>2, SyncsNext
      <3>5. SyncsOf(U) = SyncsOf(T) + (IF e.sync THEN 1 ELSE 0)
        BY <3>2, <3>3, <3>4 DEF SyncsOf
      <3>6. SyncsOf(U) = 1 + Meets(s, t, i + 1)
        BY <2>4, <2>5, <2>7, <3>5
      <3> QED
        BY <3>6 DEF U
    <2> QED
      BY <2>6, <2>7
  <1> HIDE DEF Sum
  <1>3. 0 \in A /\ \A i \in Nat : i \in A => i + 1 \in A
    BY <1>1, <1>2, ScenarioIsSeq
  <1>4. n \in Nat /\ n <= Len(s) /\ n \in A
    <2> HIDE DEF A
    <2> QED
      BY <1>3, SetInduction, ScenarioIsSeq
  <1> QED
    BY <1>4 DEF Sum

\* The task of an action for a core is in its program, with one sync task more up
\* to it than the actions up to this one give.
LEMMA TaskAt ==
  ASSUME NEW s \in Scenarios, NEW t, NEW n \in 0 .. Len(s), NEW i \in 1 .. n,
         t \in Targets(s, s[i])
  PROVE  /\ PlaceOf(s, t, i) \in 2 .. Len(TasksUpTo(s, t, n))
         /\ PlaceOf(s, t, i) = PlaceOf(s, t, i - 1) + 1
         /\ TasksUpTo(s, t, n)[PlaceOf(s, t, i)] = TaskOf(s[i])
         /\ SyncsWithin(TasksUpTo(s, t, n), PlaceOf(s, t, i)) = 1 + Meets(s, t, i)
  <1> DEFINE T == TasksUpTo(s, t, i - 1) U == TasksUpTo(s, t, i) V == TasksUpTo(s, t, n)
             e == TaskOf(s[i])
  <1>1. /\ Len(s) \in Nat /\ n \in Nat /\ i \in 1 .. Len(s) /\ i \in 0 .. n /\ i \in 0 .. Len(s)
        /\ i - 1 \in Nat
    BY ScenarioIsSeq
  <1>2. U = Append(T, e)
    BY <1>1, TasksNext, Zenon
  <1>3. T \in Seq(Elements(T)) /\ Len(T) \in Nat \ {0} /\ Len(V) \in Nat
    BY <1>1, TasksSeq
  <1>4. IsPrefix(U, V)
    BY <1>1, TasksGrow
  <1>5. SyncsOf(U) = 1 + Meets(s, t, i)
    BY <1>1, SyncsUpTo
  <1> HIDE DEF T, U, V, e
  <1>6. Len(U) = Len(T) + 1 /\ U[Len(U)] = e
    BY <1>2, <1>3
  <1>7. Len(U) \in 2 .. Len(V) /\ V[Len(U)] = e
    BY <1>3, <1>4, <1>6 DEF IsPrefix
  <1>8. SyncsWithin(V, Len(U)) = 1 + Meets(s, t, i)
    BY <1>4, <1>5, <1>7, SyncsOfPrefix
  <1> QED
    BY <1>6, <1>7, <1>8 DEF PlaceOf, T, U, V, e

\* Every task of a program but `start_sync` is that of an action.
LEMMA TaskFrom ==
  ASSUME NEW s \in Scenarios, NEW t, NEW n \in 0 .. Len(s),
         NEW k \in 2 .. Len(TasksUpTo(s, t, n))
  PROVE  \E i \in 1 .. n : t \in Targets(s, s[i]) /\ PlaceOf(s, t, i) = k
  <1> DEFINE From(m) == \A j \in 2 .. Len(TasksUpTo(s, t, m)) :
                          \E i \in 1 .. m : t \in Targets(s, s[i]) /\ PlaceOf(s, t, i) = j
             A == {m \in Nat : m <= Len(s) => From(m)}
  <1>1. From(0)
    <2>1. TasksUpTo(s, t, 0) = <<StartSync>>
      BY TasksOfNone
    <2>2. Len(<<StartSync>>) = 1
      OBVIOUS
    <2>3. Len(TasksUpTo(s, t, 0)) = 1
      BY <2>1, <2>2
    <2>4. \A m : m = 1 => 2 .. m = {}
      OBVIOUS
    <2>5. 2 .. Len(TasksUpTo(s, t, 0)) = {}
      BY <2>3, <2>4
    <2> QED
      BY <2>5
  <1>2. ASSUME NEW m \in Nat, m + 1 <= Len(s), From(m) PROVE From(m + 1)
    <2> SUFFICES ASSUME NEW j \in 2 .. Len(TasksUpTo(s, t, m + 1))
                 PROVE  \E i \in 1 .. m + 1 : t \in Targets(s, s[i]) /\ PlaceOf(s, t, i) = j
      OBVIOUS
    <2> DEFINE T == TasksUpTo(s, t, m) U == TasksUpTo(s, t, m + 1) e == TaskOf(s[m + 1])
    <2>1. Len(s) \in Nat /\ m + 1 \in 1 .. Len(s) /\ (m + 1) - 1 = m
      BY <1>2, ScenarioIsSeq
    <2>2. U = IF t \in Targets(s, s[m + 1]) THEN Append(T, e) ELSE T
      BY <2>1, TasksNext, Zenon
    <2>3. T \in Seq(Elements(T)) /\ Len(T) \in Nat
      BY TasksSeq
    <2>4. CASE j \in 2 .. Len(T)
      <3>1. \E i \in 1 .. m : t \in Targets(s, s[i]) /\ PlaceOf(s, t, i) = j
        BY <1>2, <2>4
      <3> QED
        BY <3>1
    <2>5. CASE j \notin 2 .. Len(T)
      <3> HIDE DEF T, e
      <3>1. U = Append(T, e) /\ t \in Targets(s, s[m + 1])
        BY <2>2, <2>5
      <3>2. Len(U) = Len(T) + 1
        BY <2>3, <3>1
      <3>3. j = Len(U)
        BY <2>3, <2>5, <3>2
      <3> QED
        BY <3>1, <3>3 DEF PlaceOf
    <2> QED
      BY <2>4, <2>5
  <1> HIDE DEF From
  <1>3. 0 \in A /\ \A m \in Nat : m \in A => m + 1 \in A
    BY <1>1, <1>2, ScenarioIsSeq
  <1>4. n \in Nat /\ n <= Len(s) /\ n \in A
    <2> HIDE DEF A
    <2> QED
      BY <1>3, SetInduction, ScenarioIsSeq
  <1>5. From(n)
    BY <1>4
  <1> QED
    BY <1>5 DEF From

\* Of two actions for a core the earlier one has its task before that of the other.
LEMMA PlacesInOrder ==
  ASSUME NEW s \in Scenarios, NEW t, NEW i \in 1 .. Len(s), NEW j \in 1 .. Len(s),
         i < j, t \in Targets(s, s[j])
  PROVE  PlaceOf(s, t, i) < PlaceOf(s, t, j)
  <1>1. Len(s) \in Nat /\ i \in 0 .. j - 1 /\ j - 1 \in 0 .. Len(s) /\ j \in 1 .. Len(s)
        /\ i \in Nat /\ Len(s) \in 0 .. Len(s)
    BY ScenarioIsSeq
  <1>2. PlaceOf(s, t, i) <= PlaceOf(s, t, j - 1)
    BY <1>1, TasksGrow DEF IsPrefix, PlaceOf
  <1>3. PlaceOf(s, t, j) = PlaceOf(s, t, j - 1) + 1
    BY <1>1, TaskAt
  <1>4. PlaceOf(s, t, i) \in Nat /\ PlaceOf(s, t, j - 1) \in Nat
    BY <1>1, TasksSeq DEF PlaceOf
  <1> QED
    BY <1>2, <1>3, <1>4

\* When no action ends the process, main gets through all of them.
LEMMA RunnableReached ==
  ASSUME NEW s \in Scenarios, Runnable(s) PROVE Reached(s) = Len(s) /\ Len(s) \in 0 .. Len(s)
  <1>1. Len(s) \in 0 .. Len(s) /\ DOMAIN s = 1 .. Len(s)
    BY ScenarioIsSeq
  <1>2. Reached(s) \in 0 .. Len(s) /\ Len(s) <= Reached(s)
    BY <1>1, ReachedBounds DEF Runnable
  <1> QED
    BY <1>1, <1>2

-------------------------------------------------------------------------------
(* The rounds of the repeat loop. *)

\* A list of tasks whose rounds can be counted.
IsTaskList(P) ==
  Len(P) \in Nat /\ DOMAIN P = 1 .. Len(P) /\ \A k \in 1 .. Len(P) : IsTask(P[k])

\* The rounds of a list of tasks are finitely many pairs of a task's place and
\* a number from 1 to its repeat count.
LEMMA RoundsType ==
  ASSUME NEW P, IsTaskList(P)
  PROVE  /\ IsFiniteSet(RoundsOf(P))
         /\ \A p \in RoundsOf(P) :
              p[1] \in 1 .. Len(P) /\ p[2] \in 1 .. P[p[1]].repeat /\ p = <<p[1], p[2]>>
         /\ \A i \in 1 .. Len(P) : \A j \in 1 .. P[i].repeat : <<i, j>> \in RoundsOf(P)
  <1> DEFINE F(i) == {i} \X (1 .. P[i].repeat)
             C == {F(i) : i \in DOMAIN P}
  <1>1. RoundsOf(P) = UNION C
    BY DEF RoundsOf
  <1>2. ASSUME NEW i \in DOMAIN P PROVE IsFiniteSet(F(i))
    <2>1. P[i].repeat \in Int
      BY <1>2 DEF IsTaskList, IsTask
    <2>2. \A n \in Int : IsFiniteSet(1 .. n)
      BY FS_Interval
    <2>3. IsFiniteSet({i})
      BY FS_Singleton
    <2> QED
      BY <2>1, <2>2, <2>3, FS_Product
  <1>3. IsFiniteSet(DOMAIN P)
    BY FS_Interval DEF IsTaskList
  <1>4. IsFiniteSet(C)
    <2> DEFINE f == [i \in DOMAIN P |-> F(i)]
    <2> HIDE DEF F
    <2>1. f \in Surjection(DOMAIN P, C)
      BY DEF Surjection
    <2> HIDE DEF C, f
    <2> QED
      BY <1>3, <2>1, FS_Surjection
  <1>5. IsFiniteSet(UNION C)
    BY <1>2, <1>4, FS_UNION
  <1>6. ASSUME NEW p \in RoundsOf(P)
        PROVE  p[1] \in 1 .. Len(P) /\ p[2] \in 1 .. P[p[1]].repeat /\ p = <<p[1], p[2]>>
    <2>1. PICK i \in DOMAIN P : p \in F(i)
      BY <1>1, <1>6
    <2>2. PICK j \in 1 .. P[i].repeat : p = <<i, j>>
      BY <2>1
    <2> QED
      BY <2>1, <2>2 DEF IsTaskList
  <1>7. ASSUME NEW i \in 1 .. Len(P), NEW j \in 1 .. P[i].repeat PROVE <<i, j>> \in RoundsOf(P)
    <2>1. <<i, j>> \in F(i) /\ F(i) \in C
      BY <1>7 DEF IsTaskList
    <2> QED
      BY <1>1, <2>1
  <1> QED
    BY <1>1, <1>5, <1>6, <1>7

-------------------------------------------------------------------------------
(* The rest of a list. *)

\* What is left after the first n of a list, when the list grows.
LEMMA SubSeqAppend ==
  ASSUME NEW T, NEW S \in Seq(T), NEW e \in T, NEW n \in 0 .. Len(S)
  PROVE  SubSeq(Append(S, e), n + 1, Len(Append(S, e))) = Append(SubSeq(S, n + 1, Len(S)), e)
  <1> DEFINE A == Append(S, e) U == SubSeq(S, n + 1, Len(S)) V == SubSeq(A, n + 1, Len(A))
  <1>1. A \in Seq(T) /\ Len(A) = Len(S) + 1 /\ Len(S) \in Nat /\ A[Len(S) + 1] = e
        /\ \A k \in 1 .. Len(S) : A[k] = S[k]
    OBVIOUS
  <1>2. U \in Seq(T) /\ Len(U) = Len(S) - n /\ \A k \in 1 .. Len(S) - n : U[k] = S[n + k]
    OBVIOUS
  <1> HIDE DEF A
  <1>3. V \in Seq(T) /\ Len(V) = Len(S) + 1 - n
        /\ \A k \in 1 .. Len(S) + 1 - n : V[k] = A[n + k]
    BY <1>1
  <1> HIDE DEF U, V
  <1>4. Append(U, e) \in Seq(T) /\ Len(Append(U, e)) = Len(S) + 1 - n
        /\ \A k \in 1 .. Len(S) + 1 - n : Append(U, e)[k] = IF k = Len(S) + 1 - n THEN e ELSE U[k]
    BY <1>1, <1>2
  <1>5. \A k \in 1 .. Len(S) + 1 - n : Append(U, e)[k] = V[k]
    BY <1>1, <1>2, <1>3, <1>4
  <1>6. V = Append(U, e)
    BY <1>3, <1>4, <1>5, SeqEqual
  <1> QED
    BY <1>6 DEF U, V, A

\* The first of what is left after the first n of a list is the next one.
LEMMA SubSeqTail ==
  ASSUME NEW T, NEW S \in Seq(T), NEW n \in 0 .. Len(S),
         SubSeq(S, n + 1, Len(S)) # <<>>
  PROVE  /\ n + 1 \in 1 .. Len(S)
         /\ Head(SubSeq(S, n + 1, Len(S))) = S[n + 1]
         /\ Tail(SubSeq(S, n + 1, Len(S))) = SubSeq(S, (n + 1) + 1, Len(S))
  <1>1. Len(S) \in Nat /\ n # Len(S)
    BY SubSeqEmpty
  <1>2. n + 1 \in 1 .. Len(S) /\ Len(S) \in (n + 1) .. Len(S)
    BY <1>1
  <1> QED
    BY <1>2, HeadTailOfSubSeq

===============================================================================
