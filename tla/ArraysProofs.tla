----------------------------- MODULE ArraysProofs -----------------------------
(***************************************************************************)
(* The meetings keep the cores off each other's arrays in every scenario   *)
(* whose programs are Separated and Supplied, however the cores are        *)
(* scheduled.                                                              *)
(*                                                                         *)
(* The argument is that cores which run at once are between the same two   *)
(* meetings (Abreast), so that what may collide can be read off the        *)
(* programs alone.                                                         *)
(***************************************************************************)
EXTENDS Arrays, ScenarioProofs

-------------------------------------------------------------------------------
(* Sync tasks come to and begun. *)

\* SyncsCome of a core that has program P and is at the n-th task of it.
Come(P, n) == Cardinality({i \in DOMAIN P : i <= n /\ P[i].sync})

\* The sync tasks it has begun when it is done with r tasks, and runs one more or not.
Begun(P, r, busy) == SyncsWithin(P, IF busy THEN r + 1 ELSE r)

\* What is known of a program.
IsProgram(P) == DOMAIN P = 1 .. Len(P) /\ Len(P) \in Nat

\* A core that goes on has come to no fewer; within the program they are counted
\* alike, and a task with fewer sync tasks up to it is behind.
LEMMA ComeIs ==
  ASSUME NEW P, IsProgram(P), NEW n \in Nat
  PROVE  /\ Come(P, n) \in Nat /\ Come(P, n) <= Come(P, n + 1)
         /\ n <= Len(P) => Come(P, n) = SyncsWithin(P, n)
         /\ \A j \in DOMAIN P : SyncsWithin(P, j) < Come(P, n) => j < n
  <1> DEFINE S(m) == {i \in DOMAIN P : i <= m /\ P[i].sync}
             T(m) == {i \in 1 .. m : P[i].sync}
  <1>1. DOMAIN P = 1 .. Len(P) /\ Len(P) \in Nat /\ IsFiniteSet(1 .. Len(P))
    BY FS_Interval DEF IsProgram
  <1>2. \A m \in Nat : S(m) \subseteq 1 .. Len(P)
    BY <1>1
  <1>3. \A m \in Nat : IsFiniteSet(S(m)) /\ Cardinality(S(m)) \in Nat
    BY <1>1, <1>2, FS_Subset, FS_CardinalityType
  <1>4. S(n) \subseteq S(n + 1) /\ n + 1 \in Nat
    BY <1>1
  <1>5. n <= Len(P) => S(n) = T(n)
    BY <1>1
  <1>6. ASSUME NEW j \in DOMAIN P, n <= j PROVE S(n) \subseteq T(j) /\ j \in Nat
    BY <1>1, <1>6
  <1>7. \A m \in Nat : IsFiniteSet(T(m)) /\ Cardinality(T(m)) \in Nat
    <2> TAKE m \in Nat
    <2>1. IsFiniteSet(1 .. m) /\ T(m) \subseteq 1 .. m
      BY FS_Interval
    <2> QED
      BY <2>1, FS_Subset, FS_CardinalityType
  <1>8. Come(P, n) = Cardinality(S(n)) /\ Come(P, n + 1) = Cardinality(S(n + 1))
        /\ \A m : SyncsWithin(P, m) = Cardinality(T(m))
    BY DEF Come, SyncsWithin
  <1> HIDE DEF S, T
  <1>9. Cardinality(S(n)) <= Cardinality(S(n + 1))
    BY <1>3, <1>4, FS_Subset
  <1>10. ASSUME NEW j \in DOMAIN P, SyncsWithin(P, j) < Come(P, n) PROVE j < n
    <2>1. j \in Nat
      BY <1>1
    <2>2. CASE n <= j
      <3>1. Cardinality(S(n)) <= Cardinality(T(j))
        BY <1>6, <1>7, <2>2, FS_Subset
      <3> QED
        BY <1>3, <1>7, <1>8, <1>10, <2>1, <3>1
    <2> QED
      BY <2>1, <2>2
  <1> QED
    BY <1>3, <1>5, <1>8, <1>9, <1>10

-------------------------------------------------------------------------------
(* Replay. *)

\* Where the cores are in their programs.
ReplayPlace ==
  /\ \A t \in Replaying : IsProgram(tasks[t])
  /\ ran \in [Replaying -> Nat] /\ running \in [Replaying -> BOOLEAN]
  /\ \A t \in Replaying : ran[t] <= Len(tasks[t]) /\ (running[t] => ran[t] < Len(tasks[t]))

\* No core has begun a sync task that another has not come to.
Abreast ==
  \A t, u \in Replaying : Begun(tasks[t], ran[t], running[t]) <= Come(tasks[u], ran[u] + 1)

InStep == ReplayPlace /\ Abreast

\* A program is one.
LEMMA ProgramIs == ASSUME NEW s \in Scenarios, NEW t PROVE IsProgram(Program(s, t))
  <1>1. Reached(s) \in 0 .. Len(s) /\ Len(s) \in Nat
    BY ScenarioIsSeq, ReachedBounds
  <1>2. Reached(s) \in Nat
    BY <1>1
  <1> QED
    BY <1>2, TasksSeq DEF IsProgram, Program

\* At first no core has begun any.
LEMMA InStepAtStart == Init => InStep
  <1> SUFFICES ASSUME Init PROVE InStep
    OBVIOUS
  <1>1. /\ Replaying = CoresOf(scenario) /\ scenario \in Scenarios
        /\ \A t \in Replaying : tasks[t] = Program(scenario, t) /\ ran[t] = 0 /\ running[t] = FALSE
        /\ ran \in [Replaying -> Nat] /\ running \in [Replaying -> BOOLEAN]
    BY DEF Init, Replaying
  <1>2. \A t \in Replaying : IsProgram(tasks[t])
    BY <1>1, ProgramIs
  <1>3. \A t \in Replaying : ran[t] <= Len(tasks[t])
    BY <1>1, <1>2 DEF IsProgram
  <1>4. ReplayPlace
    BY <1>1, <1>2, <1>3 DEF ReplayPlace
  <1>5. ASSUME NEW t \in Replaying, NEW u \in Replaying
        PROVE  Begun(tasks[t], ran[t], running[t]) <= Come(tasks[u], ran[u] + 1)
    <2>1. Begun(tasks[t], ran[t], running[t]) = SyncsWithin(tasks[t], 0)
      BY <1>1 DEF Begun
    <2>2. SyncsWithin(tasks[t], 0) \in 0 .. 0
      BY SyncsType
    <2>3. Come(tasks[u], 1) \in Nat
      BY <1>2, ComeIs
    <2>4. ran[u] + 1 = 1
      BY <1>1
    <2> QED
      BY <2>1, <2>2, <2>3, <2>4
  <1> QED
    BY <1>4, <1>5 DEF InStep, Abreast

\* A sync task begins when all have come to it, any other task begins nothing.
LEMMA BeginInStep == ASSUME InStep, NEW t \in Replaying, Begin(t), tasks' = tasks PROVE InStep'
  <1>1. /\ ~ running[t] /\ ran[t] < Len(tasks[t]) /\ ran' = ran
        /\ running' = [running EXCEPT ![t] = TRUE]
        /\ tasks[t][ran[t] + 1].sync => \A u \in Replaying : SyncsCome(u) >= SyncsCome(t)
    BY DEF Begin, Current
  <1>2. ReplayPlace
    BY DEF InStep
  <1>3. Replaying' = Replaying
    BY DEF Replaying
  <1>4. /\ running' \in [Replaying -> BOOLEAN] /\ running'[t] = TRUE
        /\ \A u \in Replaying \ {t} : running'[u] = running[u]
    BY <1>1, <1>2 DEF ReplayPlace
  <1>5. ReplayPlace'
    BY <1>1, <1>2, <1>3, <1>4 DEF ReplayPlace
  <1>6. \A u \in Replaying : SyncsCome(u) = Come(tasks[u], ran[u] + 1)
    BY DEF SyncsCome, Come
  <1>7. ran[t] \in Nat /\ Len(tasks[t]) \in Nat /\ IsProgram(tasks[t]) /\ ran[t] + 1 \in Nat
        /\ ran[t] + 1 <= Len(tasks[t])
    <2>1. ran[t] \in Nat /\ Len(tasks[t]) \in Nat /\ IsProgram(tasks[t])
      BY <1>2 DEF ReplayPlace, IsProgram
    <2> QED
      BY <1>1, <2>1
  <1>8. ASSUME NEW u \in Replaying
        PROVE  SyncsWithin(tasks[t], ran[t] + 1) <= Come(tasks[u], ran[u] + 1)
    <2>1. SyncsWithin(tasks[t], ran[t] + 1) = Come(tasks[t], ran[t] + 1)
      BY <1>7, ComeIs
    <2>2. CASE tasks[t][ran[t] + 1].sync
      <3>1. SyncsCome(u) >= SyncsCome(t)
        BY <1>1, <2>2
      <3>2. Come(tasks[u], ran[u] + 1) >= Come(tasks[t], ran[t] + 1)
        BY <1>6, <3>1
      <3>3. Come(tasks[u], ran[u] + 1) \in Nat /\ Come(tasks[t], ran[t] + 1) \in Nat
        <4>1. IsProgram(tasks[u]) /\ ran[u] + 1 \in Nat
          BY <1>2 DEF ReplayPlace
        <4> QED
          BY <1>7, <4>1, ComeIs
      <3> QED
        BY <2>1, <3>2, <3>3
    <2>3. CASE ~ tasks[t][ran[t] + 1].sync
      <3>1. SyncsWithin(tasks[t], ran[t] + 1) = SyncsWithin(tasks[t], ran[t]) + 0
        BY <1>7, <2>3, SyncsNext
      <3>2. SyncsWithin(tasks[t], ran[t]) \in 0 .. ran[t]
        BY <1>7, SyncsType
      <3>3. SyncsWithin(tasks[t], ran[t]) <= Come(tasks[u], ran[u] + 1)
        BY <1>1 DEF InStep, Abreast, Begun
      <3>4. SyncsWithin(tasks[t], ran[t] + 1) = SyncsWithin(tasks[t], ran[t])
        BY <1>7, <3>1, <3>2
      <3> QED
        BY <3>3, <3>4
    <2> QED
      BY <2>2, <2>3
  <1>9. \A v, u \in Replaying : Begun(tasks[v], ran[v], running'[v]) <= Come(tasks[u], ran[u] + 1)
    <2> TAKE v, u \in Replaying
    <2>1. CASE v = t
      BY <1>4, <1>8, <2>1 DEF Begun
    <2>2. CASE v # t
      BY <1>4, <2>2 DEF InStep, Abreast
    <2> QED
      BY <2>1, <2>2
  <1> QED
    BY <1>1, <1>3, <1>5, <1>9 DEF InStep, Abreast

\* A task that ends was begun before, and its core comes to the next one.
LEMMA EndInStep == ASSUME InStep, NEW t \in Replaying, End(t), tasks' = tasks PROVE InStep'
  <1>1. /\ running[t] /\ running' = [running EXCEPT ![t] = FALSE]
        /\ ran' = [ran EXCEPT ![t] = @ + 1]
    BY DEF End
  <1>2. ReplayPlace
    BY DEF InStep
  <1>3. Replaying' = Replaying
    BY DEF Replaying
  <1>4. /\ running' \in [Replaying -> BOOLEAN] /\ running'[t] = FALSE
        /\ \A u \in Replaying \ {t} : running'[u] = running[u]
        /\ ran' \in [Replaying -> Nat] /\ ran'[t] = ran[t] + 1
        /\ \A u \in Replaying \ {t} : ran'[u] = ran[u]
    BY <1>1, <1>2 DEF ReplayPlace
  <1>5. ran[t] + 1 <= Len(tasks[t])
    <2>1. ran[t] \in Nat /\ Len(tasks[t]) \in Nat /\ ran[t] < Len(tasks[t])
      BY <1>1, <1>2 DEF ReplayPlace, IsProgram
    <2> QED
      BY <2>1
  <1>6. ReplayPlace'
    <2>1. \A u \in Replaying : ran'[u] <= Len(tasks[u]) /\ (running'[u] => ran'[u] < Len(tasks[u]))
      BY <1>2, <1>4, <1>5 DEF ReplayPlace
    <2> QED
      BY <1>2, <1>3, <1>4, <2>1 DEF ReplayPlace
  <1>7. \A u \in Replaying : Begun(tasks[u], ran'[u], running'[u]) = Begun(tasks[u], ran[u], running[u])
    BY <1>1, <1>4 DEF Begun
  <1>8. ASSUME NEW u \in Replaying PROVE Come(tasks[u], ran[u] + 1) <= Come(tasks[u], ran'[u] + 1)
    <2>1. IsProgram(tasks[u]) /\ ran[u] + 1 \in Nat
      BY <1>2 DEF ReplayPlace
    <2>2. /\ Come(tasks[u], ran[u] + 1) \in Nat
          /\ Come(tasks[u], ran[u] + 1) <= Come(tasks[u], (ran[u] + 1) + 1)
      BY <2>1, ComeIs
    <2> QED
      BY <1>4, <2>2
  <1>9. \A v, u \in Replaying : Begun(tasks[v], ran'[v], running'[v]) <= Come(tasks[u], ran'[u] + 1)
    <2> TAKE v, u \in Replaying
    <2>1. Begun(tasks[v], ran[v], running[v]) <= Come(tasks[u], ran[u] + 1)
      BY DEF InStep, Abreast
    <2>2. Begun(tasks[v], ran[v], running[v]) \in Nat
      <3>1. ran[v] \in Nat /\ ran[v] + 1 \in Nat
        BY <1>2 DEF ReplayPlace
      <3>2. SyncsWithin(tasks[v], ran[v]) \in 0 .. ran[v]
            /\ SyncsWithin(tasks[v], ran[v] + 1) \in 0 .. ran[v] + 1
        BY <3>1, SyncsType
      <3> QED
        BY <3>2 DEF Begun
    <2>3. Come(tasks[u], ran[u] + 1) \in Nat /\ Come(tasks[u], ran'[u] + 1) \in Nat
      <3>1. IsProgram(tasks[u]) /\ ran[u] + 1 \in Nat /\ ran'[u] + 1 \in Nat
        BY <1>2, <1>4 DEF ReplayPlace
      <3> QED
        BY <3>1, ComeIs
    <2> QED
      BY <1>7, <1>8, <2>1, <2>2, <2>3
  <1> QED
    BY <1>3, <1>6, <1>9 DEF InStep, Abreast

\* Every step of a replay keeps the cores in step.
LEMMA InStepKept == InStep /\ [Next]_replay => InStep'
  <1> SUFFICES ASSUME InStep, [Next]_replay PROVE InStep'
    OBVIOUS
  <1>1. ASSUME UNCHANGED <<tasks, ran, running>> PROVE InStep'
    BY <1>1 DEF InStep, ReplayPlace, Abreast, Replaying
  <1>2. CASE UNCHANGED replay
    BY <1>1, <1>2 DEF replay
  <1>3. CASE Next
    <2>1. tasks' = tasks
      BY <1>3 DEF Next
    <2>2. ASSUME NEW t \in Replaying, Begin(t) PROVE InStep'
      BY <2>1, <2>2, BeginInStep
    <2>3. ASSUME NEW t \in Replaying, End(t) PROVE InStep'
      BY <2>1, <2>3, EndInStep
    <2>4. CASE Report \/ GiveUp
      BY <1>1, <2>1, <2>4 DEF Report, GiveUp
    <2> QED
      BY <1>3, <2>2, <2>3, <2>4 DEF Next, Step
  <1> QED
    BY <1>2, <1>3

\* In every replay no core begins a sync task that another has not come to.
THEOREM CoresInStep == Spec => []InStep
  BY InStepAtStart, InStepKept, PTL DEF Spec

-------------------------------------------------------------------------------
(* The arrays. *)

\* The arrays that a task done with has filled, and those that are being renewed.
Filled    == UNION {UNION {Renews(tasks[t][i]) : i \in 1 .. ran[t]} : t \in Replaying}
InRenewal == UNION {Renews(Current(t)) : t \in {u \in Replaying : running[u]}}

\* What was filled stays ready but for the time of its renewal.
ReadyPlace == Filled \ InRenewal \subseteq ready

Placed == InStep /\ ReadyPlace

\* The two sets by their elements.
LEMMA FilledIs ==
  \A a : /\ a \in Filled <=> \E t \in Replaying : \E i \in 1 .. ran[t] : a \in Renews(tasks[t][i])
         /\ a \in InRenewal <=> \E t \in Replaying : running[t] /\ a \in Renews(tasks[t][ran[t] + 1])
  BY DEF Filled, InRenewal, Current

\* At first nothing is filled.
LEMMA PlacedAtStart == ArraysInit => Placed
  <1> SUFFICES ASSUME ArraysInit PROVE Placed
    OBVIOUS
  <1>1. InStep
    BY InStepAtStart DEF ArraysInit
  <1>2. \A t \in Replaying : 1 .. ran[t] = {}
    BY DEF ArraysInit, Init, Replaying
  <1>3. Filled = {}
    BY <1>2, FilledIs
  <1> QED
    BY <1>1, <1>3 DEF Placed, ReadyPlace

\* A kernel that renews an array takes it away until it is done.
LEMMA BeginPlaced ==
  ASSUME Placed, NEW t \in Replaying, BeginKernel(t), tasks' = tasks
  PROVE  ReadyPlace'
  <1>1. /\ ~ running[t] /\ ran' = ran /\ running' = [running EXCEPT ![t] = TRUE]
        /\ ready' = ready \ Renews(tasks[t][ran[t] + 1])
    BY DEF BeginKernel, Begin, Current
  <1>2. running \in [Replaying -> BOOLEAN]
    BY DEF Placed, InStep, ReplayPlace
  <1>3. running'[t] /\ \A u \in Replaying : running[u] => running'[u]
    BY <1>1, <1>2
  <1>4. Replaying' = Replaying
    BY DEF Replaying
  <1>5. Filled' = Filled
    BY <1>1, <1>4 DEF Filled
  <1>6. \A a : a \in InRenewal' <=> \E u \in Replaying : running'[u] /\ a \in Renews(tasks[u][ran[u] + 1])
    BY <1>1, <1>4 DEF InRenewal, Current
  <1>7. InRenewal \subseteq InRenewal' /\ Renews(tasks[t][ran[t] + 1]) \subseteq InRenewal'
    BY <1>3, <1>6, FilledIs
  <1> QED
    BY <1>1, <1>5, <1>7 DEF Placed, ReadyPlace

\* A kernel that is done leaves what it renewed ready.
LEMMA EndPlaced ==
  ASSUME Placed, NEW t \in Replaying, EndKernel(t), tasks' = tasks
  PROVE  ReadyPlace'
  <1> DEFINE mine == Renews(tasks[t][ran[t] + 1])
  <1>1. /\ running[t] /\ running' = [running EXCEPT ![t] = FALSE]
        /\ ran' = [ran EXCEPT ![t] = @ + 1] /\ ready' = ready \cup mine
    BY DEF EndKernel, End, Current
  <1>2. running \in [Replaying -> BOOLEAN] /\ ran \in [Replaying -> Nat]
    BY DEF Placed, InStep, ReplayPlace
  <1>3. /\ ran'[t] = ran[t] + 1
        /\ \A u \in Replaying \ {t} : running'[u] = running[u] /\ ran'[u] = ran[u]
    BY <1>1, <1>2
  <1>4. Replaying' = Replaying
    BY DEF Replaying
  <1>5. \A a : a \in Filled' <=> \E u \in Replaying : \E i \in 1 .. ran'[u] : a \in Renews(tasks[u][i])
    BY <1>4 DEF Filled
  <1>6. \A a : a \in InRenewal' <=> \E u \in Replaying : running'[u] /\ a \in Renews(tasks[u][ran'[u] + 1])
    BY <1>4 DEF InRenewal, Current
  <1> HIDE DEF mine
  <1>7. Filled' \subseteq Filled \cup mine
    <2> SUFFICES ASSUME NEW a \in Filled', a \notin mine PROVE a \in Filled
      OBVIOUS
    <2>0. PICK u \in Replaying : \E i \in 1 .. ran'[u] : a \in Renews(tasks[u][i])
      BY <1>5
    <2>1. PICK i \in 1 .. ran'[u] : a \in Renews(tasks[u][i])
      BY <2>0
    <2>2. CASE u = t
      <3>1. i \in 1 .. ran[t] + 1 /\ i # ran[t] + 1 /\ ran[t] \in Nat
        BY <1>2, <1>3, <2>1, <2>2 DEF mine
      <3>2. i \in 1 .. ran[t]
        BY <3>1
      <3> QED
        BY <2>1, <2>2, <3>2, FilledIs
    <2>3. CASE u # t
      BY <1>3, <2>1, <2>3, FilledIs
    <2> QED
      BY <2>2, <2>3
  <1>8. InRenewal \subseteq InRenewal' \cup mine
    <2> SUFFICES ASSUME NEW a \in InRenewal, a \notin mine PROVE a \in InRenewal'
      OBVIOUS
    <2>1. PICK u \in Replaying : running[u] /\ a \in Renews(tasks[u][ran[u] + 1])
      BY FilledIs
    <2>2. u # t
      BY <2>1 DEF mine
    <2> QED
      BY <1>3, <1>6, <2>1, <2>2
  <1> QED
    BY <1>1, <1>7, <1>8 DEF Placed, ReadyPlace

\* Every step keeps it.
LEMMA PlacedKept == Placed /\ [ArraysNext]_vars => Placed'
  <1> SUFFICES ASSUME Placed, [ArraysNext]_vars PROVE Placed'
    OBVIOUS
  <1>1. [Next]_replay
    BY DEF ArraysNext, vars, Next, Step, BeginKernel, EndKernel
  <1>2. InStep'
    BY <1>1, InStepKept DEF Placed
  <1> SUFFICES ReadyPlace'
    BY <1>2 DEF Placed
  <1>3. ASSUME UNCHANGED <<tasks, ran, running, ready>> PROVE ReadyPlace'
    BY <1>3 DEF Placed, ReadyPlace, Filled, InRenewal, Current, Replaying
  <1>4. CASE UNCHANGED vars
    BY <1>3, <1>4 DEF vars, replay
  <1>5. CASE ArraysNext
    <2>1. tasks' = tasks
      BY <1>5 DEF ArraysNext
    <2>2. ASSUME NEW t \in Replaying, BeginKernel(t) PROVE ReadyPlace'
      BY <2>1, <2>2, BeginPlaced
    <2>3. ASSUME NEW t \in Replaying, EndKernel(t) PROVE ReadyPlace'
      BY <2>1, <2>3, EndPlaced
    <2>4. CASE (Report \/ GiveUp) /\ UNCHANGED ready
      BY <1>3, <2>1, <2>4 DEF Report, GiveUp
    <2> QED
      BY <1>5, <2>2, <2>3, <2>4 DEF ArraysNext
  <1> QED
    BY <1>4, <1>5

\* Cores that run at once have met equally often, and are at tasks of their programs.
LEMMA RunningTogether ==
  ASSUME InStep, NEW t \in Replaying, NEW u \in Replaying, running[t], running[u]
  PROVE  /\ ran[t] + 1 \in DOMAIN tasks[t] /\ ran[u] + 1 \in DOMAIN tasks[u]
         /\ SyncsWithin(tasks[t], ran[t] + 1) = SyncsWithin(tasks[u], ran[u] + 1)
  <1>1. ASSUME NEW v \in Replaying, running[v]
        PROVE  /\ ran[v] + 1 \in DOMAIN tasks[v]
               /\ SyncsWithin(tasks[v], ran[v] + 1) \in Nat
               /\ Come(tasks[v], ran[v] + 1) = SyncsWithin(tasks[v], ran[v] + 1)
               /\ Begun(tasks[v], ran[v], running[v]) = SyncsWithin(tasks[v], ran[v] + 1)
    <2>1. IsProgram(tasks[v]) /\ ran[v] \in Nat /\ ran[v] < Len(tasks[v])
      BY <1>1 DEF InStep, ReplayPlace
    <2>2. ran[v] + 1 \in Nat /\ ran[v] + 1 <= Len(tasks[v]) /\ ran[v] + 1 \in DOMAIN tasks[v]
      BY <2>1 DEF IsProgram
    <2>3. Come(tasks[v], ran[v] + 1) = SyncsWithin(tasks[v], ran[v] + 1)
          /\ Come(tasks[v], ran[v] + 1) \in Nat
      BY <2>1, <2>2, ComeIs
    <2> QED
      BY <1>1, <2>2, <2>3 DEF Begun
  <1>2. /\ Begun(tasks[t], ran[t], running[t]) <= Come(tasks[u], ran[u] + 1)
        /\ Begun(tasks[u], ran[u], running[u]) <= Come(tasks[t], ran[t] + 1)
    BY DEF InStep, Abreast
  <1>3. /\ SyncsWithin(tasks[t], ran[t] + 1) <= SyncsWithin(tasks[u], ran[u] + 1)
        /\ SyncsWithin(tasks[u], ran[u] + 1) <= SyncsWithin(tasks[t], ran[t] + 1)
    BY <1>1, <1>2
  <1>4. /\ SyncsWithin(tasks[t], ran[t] + 1) \in Nat /\ SyncsWithin(tasks[u], ran[u] + 1) \in Nat
    BY <1>1
  <1> QED
    BY <1>1, <1>3, <1>4

\* Then what may collide is in the programs.
LEMMA InStepApart == InStep /\ Separated(tasks) => NoConflict
  <1> SUFFICES ASSUME InStep, Separated(tasks), NEW t \in Replaying, NEW u \in Replaying,
                      t # u, running[t], running[u]
               PROVE  Writes(Current(t)) \cap Uses(Current(u)) = {}
    BY DEF NoConflict
  <1>1. /\ ran[t] + 1 \in DOMAIN tasks[t] /\ ran[u] + 1 \in DOMAIN tasks[u]
        /\ SyncsWithin(tasks[t], ran[t] + 1) = SyncsWithin(tasks[u], ran[u] + 1)
    BY RunningTogether
  <1> QED
    BY <1>1 DEF Separated, Replaying, Current

\* What a kernel uses was filled by a task that is done, and nobody renews it.
LEMMA PlacedReady == Placed /\ Separated(tasks) /\ Supplied(tasks) => UsedReady
  <1> SUFFICES ASSUME Placed, Separated(tasks), Supplied(tasks), NEW t \in Replaying, running[t],
                      NEW a \in Uses(Current(t)) \ Renews(Current(t))
               PROVE  a \in ready
    BY DEF UsedReady
  <1> DEFINE n == ran[t] + 1
  <1>1. /\ n \in DOMAIN tasks[t] /\ a \in Uses(tasks[t][n]) \ Renews(tasks[t][n])
        /\ t \in DOMAIN tasks /\ InStep
    BY RunningTogether DEF Placed, Current, Replaying
  <1>0. PICK u \in DOMAIN tasks :
          \E j \in DOMAIN tasks[u] :
            /\ a \in Renews(tasks[u][j])
            /\ SyncsWithin(tasks[u], j) < SyncsWithin(tasks[t], n) \/ (u = t /\ j < n)
    BY <1>1 DEF Supplied
  <1>2. PICK j \in DOMAIN tasks[u] :
          /\ a \in Renews(tasks[u][j])
          /\ SyncsWithin(tasks[u], j) < SyncsWithin(tasks[t], n) \/ (u = t /\ j < n)
    BY <1>0
  <1>3. u \in Replaying /\ IsProgram(tasks[u]) /\ ran[u] \in Nat /\ ran[t] \in Nat /\ j \in Nat \ {0}
    <2>1. u \in Replaying
      BY DEF Replaying
    <2>2. IsProgram(tasks[u]) /\ ran[u] \in Nat /\ ran[t] \in Nat
      BY <1>1, <2>1 DEF InStep, ReplayPlace
    <2>3. j \in Nat \ {0}
      BY <2>2 DEF IsProgram
    <2> QED
      BY <2>1, <2>2, <2>3
  <1>4. j < ran[u] + 1
    <2>1. CASE u = t /\ j < n
      BY <2>1
    <2>2. CASE SyncsWithin(tasks[u], j) < SyncsWithin(tasks[t], n)
      <3>1. SyncsWithin(tasks[t], n) <= Come(tasks[u], ran[u] + 1)
        BY <1>1, <1>3 DEF InStep, Abreast, Begun
      <3>2. ran[u] + 1 \in Nat /\ Come(tasks[u], ran[u] + 1) \in Nat
        BY <1>3, ComeIs
      <3>3. SyncsWithin(tasks[u], j) \in 0 .. j /\ SyncsWithin(tasks[t], n) \in 0 .. n
        BY <1>3, SyncsType
      <3>4. SyncsWithin(tasks[u], j) < Come(tasks[u], ran[u] + 1)
        BY <1>3, <2>2, <3>1, <3>2, <3>3
      <3> QED
        BY <1>3, <3>2, <3>4, ComeIs
    <2> QED
      BY <1>2, <2>1, <2>2
  <1>5. a \in Filled
    <2>1. j \in 1 .. ran[u]
      BY <1>3, <1>4
    <2> QED
      BY <1>2, <1>3, <2>1, FilledIs
  <1>6. a \notin InRenewal
    <2> SUFFICES ASSUME NEW v \in Replaying, running[v], a \in Renews(tasks[v][ran[v] + 1]) PROVE FALSE
      BY FilledIs
    <2>1. v # t
      BY <1>1
    <2>2. a \in Writes(tasks[v][ran[v] + 1])
      BY DEF Renews
    <2>3. NoConflict
      BY <1>1, InStepApart
    <2> QED
      BY <1>1, <2>1, <2>2, <2>3 DEF NoConflict, Current
  <1> QED
    BY <1>5, <1>6 DEF Placed, ReadyPlace

\* In every replay the cores are in step, and what was filled stays ready but for
\* the time of its renewal.
THEOREM ArraysInvariant == ArraysSpec => []Placed
  BY PlacedAtStart, PlacedKept, PTL DEF ArraysSpec

\* A scenario whose programs keep the cores apart between any two meetings never
\* has a kernel write or free an array that another core uses at the time.
THEOREM SeparatedHasNoConflict == ArraysSpec /\ Separated(tasks) => []NoConflict
  <1> DEFINE Apart == Separated(tasks)
  <1>1. Apart /\ [ArraysNext]_vars => Apart'
    BY DEF ArraysNext, vars, replay
  <1>2. Placed /\ Apart => NoConflict
    BY InStepApart DEF Placed
  <1> HIDE DEF Apart
  <1>3. ArraysSpec /\ Apart => []NoConflict
    BY <1>1, <1>2, ArraysInvariant, PTL DEF ArraysSpec
  <1> QED
    BY <1>3 DEF Apart

\* If besides each array is filled before a meeting that comes before its use, no
\* kernel runs on an array that is not ready.
THEOREM SuppliedIsReady == ArraysSpec /\ OrderedByMeetings => []UsedReady
  <1>1. OrderedByMeetings /\ [ArraysNext]_vars => OrderedByMeetings'
    BY DEF OrderedByMeetings, ArraysNext, vars, replay
  <1>2. Placed /\ OrderedByMeetings => UsedReady
    BY PlacedReady DEF OrderedByMeetings
  <1> QED
    BY <1>1, <1>2, ArraysInvariant, PTL DEF ArraysSpec

-------------------------------------------------------------------------------
(* Balanced scenarios. *)

\* A core may go on with its next task.
MayBegin(t) ==
  /\ ~ running[t] /\ ran[t] < Len(tasks[t])
  /\ Current(t).sync => \A u \in Replaying : SyncsCome(u) >= SyncsCome(t)

\* Some core is in a kernel or may go on, or all are done.
GoesOn ==
  \/ \E t \in Replaying : running[t] \/ MayBegin(t)
  \/ \A t \in Replaying : ran[t] = Len(tasks[t])

\* What the cores have been given is what the scenario has for them.
OwnPrograms == scenario \in Scenarios /\ tasks = [t \in CoresOf(scenario) |-> Program(scenario, t)]

\* A set of numbers has a least one.
LEMMA LeastOf ==
  ASSUME NEW S, S \subseteq Nat, S # {}
  PROVE  \E n \in S : \A k \in S : n <= k
  <1>1. PICK n \in S : \A k \in S : ~ (<<k, n>> \in OpToRel(<, Nat))
    BY NatLessThanWellFounded, WFMin, Zenon
  <1>2. \A k \in S : ~ (k < n)
    BY <1>1 DEF OpToRel
  <1>3. \A k \in S : n \in Nat /\ k \in Nat
    OBVIOUS
  <1> QED
    BY <1>2, <1>3

\* No core comes to more sync tasks than it has, and at its end it has come to all.
LEMMA ComeInAll ==
  ASSUME NEW P, IsProgram(P), NEW n \in Nat
  PROVE  Come(P, n) <= SyncsOf(P) /\ Come(P, Len(P) + 1) = SyncsOf(P) /\ SyncsOf(P) \in Nat
  <1> DEFINE S(m) == {i \in DOMAIN P : i <= m /\ P[i].sync} T == {i \in 1 .. Len(P) : P[i].sync}
  <1>1. DOMAIN P = 1 .. Len(P) /\ Len(P) \in Nat /\ IsFiniteSet(1 .. Len(P))
    BY FS_Interval DEF IsProgram
  <1>2. S(n) \subseteq T /\ S(Len(P) + 1) = T /\ T \subseteq 1 .. Len(P)
    BY <1>1
  <1>3. \A m : Come(P, m) = Cardinality(S(m))
    BY DEF Come
  <1>4. SyncsOf(P) = Cardinality(T)
    BY DEF SyncsOf, SyncsWithin
  <1> HIDE DEF S, T
  <1>5. IsFiniteSet(T) /\ Cardinality(T) \in Nat
    BY <1>1, <1>2, FS_Subset, FS_CardinalityType
  <1>6. Cardinality(S(n)) <= Cardinality(T)
    BY <1>2, <1>5, FS_Subset
  <1> QED
    BY <1>2, <1>3, <1>4, <1>5, <1>6

\* If none is in a kernel, one that has come to the fewest sync tasks may go on: the
\* others that are under way have come to as many, and those that are done to all.
LEMMA BalancedMayBegin ==
  ASSUME ReplayPlace, OwnPrograms, Balanced(scenario), \A t \in Replaying : ~ running[t],
         NEW v \in Replaying, ran[v] # Len(tasks[v])
  PROVE  \E t \in Replaying : MayBegin(t)
  <1> DEFINE come(t) == Come(tasks[t], ran[t] + 1)
             U == {t \in Replaying : ran[t] < Len(tasks[t])} S == {come(t) : t \in U}
  <1>1. \A t \in Replaying :
          /\ IsProgram(tasks[t]) /\ ran[t] \in Nat /\ ran[t] + 1 \in Nat /\ Len(tasks[t]) \in Nat
          /\ ran[t] <= Len(tasks[t])
    BY DEF ReplayPlace, IsProgram
  <1>2. \A t, u \in Replaying : SyncsOf(tasks[t]) = SyncsOf(tasks[u])
    <2>1. Replaying = CoresOf(scenario) /\ \A t \in Replaying : tasks[t] = Program(scenario, t)
      BY DEF OwnPrograms, Replaying
    <2> QED
      BY <2>1 DEF Balanced
  <1>3. \A t \in Replaying : SyncsCome(t) = come(t)
    BY DEF SyncsCome, Come
  <1>4. ASSUME NEW t \in Replaying
        PROVE  /\ come(t) \in Nat /\ come(t) <= SyncsOf(tasks[t]) /\ SyncsOf(tasks[t]) \in Nat
               /\ ran[t] = Len(tasks[t]) => come(t) = SyncsOf(tasks[t])
    <2>1. Come(tasks[t], ran[t] + 1) \in Nat
      BY <1>1, ComeIs
    <2>2. /\ Come(tasks[t], ran[t] + 1) <= SyncsOf(tasks[t])
          /\ Come(tasks[t], Len(tasks[t]) + 1) = SyncsOf(tasks[t]) /\ SyncsOf(tasks[t]) \in Nat
      BY <1>1, ComeInAll
    <2> QED
      BY <2>1, <2>2
  <1>5. v \in U
    BY <1>1
  <1> HIDE DEF come
  <1>6. S \subseteq Nat /\ S # {}
    BY <1>4, <1>5
  <1>7. PICK n \in S : \A k \in S : n <= k
    BY <1>6, LeastOf
  <1>8. PICK t \in U : come(t) = n
    BY <1>7
  <1>9. ASSUME NEW u \in Replaying PROVE come(u) >= come(t)
    <2>1. CASE u \in U
      <3>1. come(u) \in S
        BY <2>1
      <3> QED
        BY <1>4, <1>7, <1>8, <3>1
    <2>2. CASE u \notin U
      <3>1. ran[u] = Len(tasks[u])
        BY <1>1, <2>2
      <3>2. come(u) = SyncsOf(tasks[t])
        BY <1>2, <1>4, <3>1
      <3> QED
        BY <1>4, <3>2
    <2> QED
      BY <2>1, <2>2
  <1>10. MayBegin(t)
    BY <1>3, <1>8, <1>9 DEF MayBegin
  <1> QED
    BY <1>8, <1>10

\* While a balanced scenario is replayed and not all cores are done, some core is in a
\* kernel or may begin its next task: no meeting is one that nobody else comes to.
THEOREM BalancedGoesOn == ArraysSpec => [](Balanced(scenario) => GoesOn)
  <1>1. ArraysInit => OwnPrograms
    BY DEF ArraysInit, Init, OwnPrograms
  <1>2. OwnPrograms /\ [ArraysNext]_vars => OwnPrograms'
    BY DEF OwnPrograms, ArraysNext, vars, replay
  <1>3. Placed /\ OwnPrograms => (Balanced(scenario) => GoesOn)
    <2> SUFFICES ASSUME ReplayPlace, OwnPrograms, Balanced(scenario) PROVE GoesOn
      BY DEF Placed, InStep
    <2> QED
      BY BalancedMayBegin DEF GoesOn
  <1> QED
    BY <1>1, <1>2, <1>3, ArraysInvariant, PTL DEF ArraysSpec

===============================================================================
