---------------------------- MODULE RuntimeProofs -----------------------------
(***************************************************************************)
(* The runtime for any scenarios, cores and watchers: every step preserves *)
(* Consistent, one part of it after the other, and the safety properties   *)
(* of Runtime follow from it.  What SpinBarrierProofs shows of the barrier *)
(* carries over to the one in the runtime.                                 *)
(***************************************************************************)
EXTENDS Runtime, ScenarioProofs

-------------------------------------------------------------------------------
(* What main has given the cores. *)

\* A core's list of tasks is a sequence of runnable tasks and begins with
\* start_sync.
LEMMA ProgramFacts ==
  ASSUME NEW s \in Scenarios, NEW t \in Cores
  PROVE  /\ Program(s, t) \in Seq(AllTasks)
         /\ Len(Program(s, t)) \in Nat \ {0}
         /\ DOMAIN Program(s, t) = 1 .. Len(Program(s, t))
         /\ Program(s, t)[1] = StartSync
         /\ \A k \in 1 .. Len(Program(s, t)) : IsTask(Program(s, t)[k])
  <1> DEFINE P == Program(s, t)
  <1>1. Reached(s) \in 0 .. Len(s) /\ Reached(s) \in Nat
    BY ReachedBounds, ScenarioIsSeq
  <1>2. /\ P \in Seq(Elements(P)) /\ Len(P) \in Nat \ {0} /\ P[1] = StartSync
        /\ DOMAIN P = 1 .. Len(P)
    BY <1>1, TasksSeq DEF Program
  <1>3. \A k \in 1 .. Len(P) : IsTask(P[k])
    BY <1>1, TasksAreTasks DEF Program
  <1>4. Elements(P) \subseteq AllTasks
    <2>1. Elements(P) \in {{Program(r, u)[i] : i \in DOMAIN Program(r, u)} : r \in Scenarios, u \in Cores}
      BY DEF Elements
    <2> QED
      BY <2>1 DEF AllTasks
  <1> HIDE DEF P
  <1>5. P \in Seq(AllTasks)
    BY <1>2, <1>4, SeqMonotonic
  <1> QED
    BY <1>2, <1>3, <1>5 DEF P

\* The number of actions main has given a core is one it gets through.
LEMMA MainFacts ==
  ASSUME TypeOK, MainPlace
  PROVE  /\ Len(scenario) \in Nat /\ DOMAIN scenario = 1 .. Len(scenario)
         /\ Reached(scenario) \in 0 .. Len(scenario)
         /\ \A t \in Cores : Given(t) \in 0 .. Reached(scenario)
         /\ \A i \in 1 .. Len(scenario) : IsAction(scenario[i])
  <1>1. /\ scenario \in Scenarios /\ Len(scenario) \in Nat
           /\ DOMAIN scenario = 1 .. Len(scenario)
        /\ \A i \in 1 .. Len(scenario) : IsAction(scenario[i])
    BY ScenarioIsSeq DEF TypeOK
  <1>2. next - 1 \in 0 .. Len(scenario) /\ next \in Nat
    BY <1>1 DEF TypeOK
  <1>3. Reached(scenario) \in 0 .. Len(scenario) /\ next - 1 <= Reached(scenario)
    BY <1>1, <1>2, ReachedBounds DEF MainPlace
  <1>4. mpc \in {"lock", "push"} => next <= Reached(scenario)
    <2> SUFFICES ASSUME mpc \in {"lock", "push"} PROVE next <= Reached(scenario)
      OBVIOUS
    <2>1. next \in 0 .. Len(scenario) /\ \A i \in 1 .. next : ~ Fatal(scenario[i])
      BY <1>1, <1>2 DEF MainPlace
    <2> QED
      BY <1>1, <2>1, ReachedBounds
  <1> QED
    BY <1>1, <1>2, <1>3, <1>4 DEF Given

\* What main has given a core so far is a beginning of the core's list.
LEMMA SubmittedFacts ==
  ASSUME TypeOK, MainPlace, NEW t \in Cores
  PROVE  /\ Submitted(t) \in Seq(AllTasks)
         /\ Len(Submitted(t)) \in Nat \ {0}
         /\ Submitted(t)[1] = StartSync
         /\ IsPrefix(Submitted(t), Program(scenario, t))
  <1> DEFINE S == Submitted(t) P == Program(scenario, t)
  <1>1. scenario \in Scenarios /\ Reached(scenario) \in 0 .. Len(scenario)
        /\ Given(t) \in 0 .. Reached(scenario)
    BY MainFacts DEF TypeOK
  <1>2. IsPrefix(S, P)
    BY <1>1, TasksGrow DEF Submitted, Program
  <1>3. S \in Seq(Elements(S)) /\ Len(S) \in Nat \ {0} /\ S[1] = StartSync
        /\ DOMAIN S = 1 .. Len(S)
    BY <1>1, TasksSeq DEF Submitted
  <1>4. P \in Seq(AllTasks)
    BY <1>1, ProgramFacts
  <1> HIDE DEF S, P
  <1>5. Elements(S) \subseteq AllTasks
    BY <1>2, <1>3, <1>4 DEF IsPrefix, Elements
  <1>6. S \in Seq(AllTasks)
    BY <1>3, <1>5, SeqMonotonic
  <1> QED
    BY <1>2, <1>3, <1>6 DEF S, P

\* When main is past the last action, it has given each core its whole list.
LEMMA AllSubmitted ==
  ASSUME TypeOK, MainPlace, next = Len(scenario) + 1, NEW t \in Cores
  PROVE  Submitted(t) = Program(scenario, t)
  <1>1. Reached(scenario) = Len(scenario) /\ mpc \notin {"lock", "push"}
    <2>1. Len(scenario) \in Nat /\ next - 1 = Len(scenario) /\ scenario \in Scenarios
      BY MainFacts DEF TypeOK
    <2>2. \A i \in 1 .. Len(scenario) : ~ Fatal(scenario[i])
      BY <2>1 DEF MainPlace
    <2>3. Len(scenario) <= Reached(scenario) /\ Reached(scenario) \in 0 .. Len(scenario)
      BY <2>1, <2>2, ReachedBounds
    <2>4. mpc \notin {"lock", "push"}
      BY <2>1 DEF MainPlace
    <2> QED
      BY <2>1, <2>3, <2>4
  <1>2. Given(t) = Len(scenario)
    BY <1>1, MainFacts DEF Given
  <1> QED
    BY <1>1, <1>2 DEF Submitted, Program

\* run() adds the task of the action at hand to what the core has been given.
LEMMA SubmittedPush ==
  ASSUME TypeOK, MainPlace, NEW c \in Cores, RunPush(c), scenario' = scenario, NEW t \in Cores
  PROVE  Submitted(t)' = IF t = c THEN Append(Submitted(t), TaskOf(scenario[next])) ELSE Submitted(t)
  <1>1. next \in 1 .. Len(scenario) /\ c \in Targets(scenario, scenario[next])
        /\ scenario \in Scenarios
    <2>1. Len(scenario) \in Nat /\ next \in 1 .. Len(scenario) + 1 /\ scenario \in Scenarios
      BY MainFacts DEF TypeOK
    <2>2. mpc = "push" /\ c \in todo
      BY DEF RunPush, IsNext
    <2> QED
      BY <2>1, <2>2 DEF MainPlace
  <1>2. Given(t) = IF t \in todo THEN next - 1 ELSE next
    BY DEF Given, RunPush
  <1>3. Given(t)' = IF t \in todo \ {c} THEN next - 1 ELSE next
    BY <1>1 DEF Given, RunPush, TypeOK, IsNext
  <1>4. TasksUpTo(scenario, c, next) = Append(TasksUpTo(scenario, c, next - 1), TaskOf(scenario[next]))
    BY <1>1, TasksNext
  <1>5. c \in todo
    BY DEF RunPush, IsNext
  <1> QED
    BY <1>2, <1>3, <1>4, <1>5 DEF Submitted

\* A step of main other than the push of a task.
MainButPush ==
  \/ \E c \in Cores : Spawn(c) \/ AddWatcher(c) \/ RunLock(c) \/ ClearThreadGo(c) \/ Join(c)
  \/ FailWatcher \/ TakeAction \/ CallDone \/ Report

\* No other step gives any core a task: an action skips the cores it has no
\* task for.
LEMMA SubmittedSame ==
  ASSUME TypeOK, MainPlace, MainButPush \/ UNCHANGED mainVars, scenario' = scenario, NEW t \in Cores
  PROVE  Submitted(t)' = Submitted(t)
  <1>1. CASE UNCHANGED mainVars
    BY <1>1 DEF mainVars, Submitted, Given
  <1>2. ASSUME NEW c \in Cores, Spawn(c) \/ AddWatcher(c) \/ RunLock(c) \/ ClearThreadGo(c) \/ Join(c)
        PROVE  Given(t)' = Given(t)
    BY <1>2 DEF Spawn, AddWatcher, RunLock, ClearThreadGo, Join, Visit, Given
  <1>3. CASE FailWatcher \/ CallDone \/ Report
    BY <1>3 DEF FailWatcher, CallDone, Report, Submitted, Given, mainVars
  <1>4. CASE TakeAction
    <2> DEFINE a == scenario[next]
    <2>1. mpc = "submit" /\ next \in 1 .. Len(scenario) /\ scenario \in Scenarios
          /\ Given(t) = next - 1
      BY <1>4, MainFacts DEF TakeAction, TypeOK, Given
    <2>2. CASE Fatal(a)
      BY <1>4, <2>2 DEF TakeAction, Submitted, Given, mainVars
    <2>3. CASE ~ Fatal(a)
      <3>1. Given(t)' = IF t \in Targets(scenario, a) THEN next - 1 ELSE next
        BY <1>4, <2>1, <2>3 DEF TakeAction, Given
      <3>2. t \notin Targets(scenario, a) => TasksUpTo(scenario, t, next) = TasksUpTo(scenario, t, next - 1)
        BY <2>1, TasksNext
      <3> QED
        BY <2>1, <3>1, <3>2 DEF Submitted
    <2> QED
      BY <2>2, <2>3
  <1> QED
    BY <1>1, <1>2, <1>3, <1>4 DEF MainButPush, Submitted

\* What run() queues is a task of the scenarios.
LEMMA PushedTask ==
  ASSUME TypeOK, MainPlace, NEW c \in Cores, RunPush(c)
  PROVE  TaskOf(scenario[next]) \in AllTasks
  <1> DEFINE e == TaskOf(scenario[next])
  <1>1. next \in 1 .. Len(scenario) /\ c \in Targets(scenario, scenario[next])
        /\ next <= Reached(scenario)
        /\ mpc = "push" /\ c \in todo
    <2>1. mpc = "push" /\ c \in todo /\ scenario \in Scenarios /\ Len(scenario) \in Nat
      BY MainFacts DEF RunPush, IsNext, TypeOK
    <2>2. next \in 1 .. Len(scenario) /\ \A i \in 1 .. next : ~ Fatal(scenario[i])
      BY <2>1 DEF TypeOK, MainPlace
    <2> QED
      BY <2>1, <2>2, ReachedBounds DEF MainPlace
  <1> DEFINE T == TasksUpTo(scenario, c, next - 1) U == TasksUpTo(scenario, c, next)
  <1>2. U = Append(T, e) /\ next - 1 \in Nat /\ next \in Nat
    BY <1>1, TasksNext DEF TypeOK
  <1>3. T \in Seq(Elements(T)) /\ Len(T) \in Nat
    BY <1>2, TasksSeq
  <1>4. IsPrefix(U, Program(scenario, c))
    <2>1. scenario \in Scenarios /\ Reached(scenario) \in 0 .. Len(scenario)
          /\ next \in 0 .. Reached(scenario)
      <3>1. scenario \in Scenarios /\ Reached(scenario) \in 0 .. Len(scenario)
        BY MainFacts DEF TypeOK
      <3> QED
        BY <1>1, <3>1
    <2> QED
      BY <2>1, TasksGrow DEF Program
  <1>5. Program(scenario, c) \in Seq(AllTasks)
    BY ProgramFacts DEF TypeOK
  <1> HIDE DEF T, U, e
  <1> DEFINE n == Len(T) + 1
  <1>6. Len(U) = n /\ U[n] = e /\ n \in 1 .. n /\ n \in Nat
    BY <1>2, <1>3
  <1>7. n \in 1 .. Len(Program(scenario, c)) /\ Program(scenario, c)[n] = e
    BY <1>4, <1>5, <1>6 DEF IsPrefix
  <1> QED
    BY <1>5, <1>7 DEF e

-------------------------------------------------------------------------------
(* The types. *)

\* The first state has its types.
LEMMA TypeInit == Init => TypeOK
  <1> SUFFICES ASSUME Init PROVE TypeOK
    OBVIOUS
  <1>1. scenario \in Scenarios /\ Len(scenario) \in Nat
    BY ScenarioIsSeq DEF Init
  <1>2. StartSync \in AllTasks
    <2>1. PICK t \in Cores : TRUE
      BY CoresAssumption
    <2>2. Program(scenario, t) \in Seq(AllTasks)
          /\ Len(Program(scenario, t)) \in Nat \ {0} /\ Program(scenario, t)[1] = StartSync
      BY <1>1, ProgramFacts
    <2> QED
      BY <2>2
  <1>3. <<StartSync>> \in Seq(AllTasks) /\ <<>> \in Seq({tk.name : tk \in AllTasks})
    BY <1>2
  <1> QED
    BY <1>1, <1>2, <1>3, WatchersAssumption DEF Init, TypeOK, MainLabels, WorkerLabels

\* A step of main keeps them.  addWatcher's count stays in range because of
\* WatchPlace, the queues' contents because of MainPlace.
LEMMA TypeMain ==
  ASSUME Consistent, Main
  PROVE  TypeOK'
  <1> USE WatchersAssumption
  <1>1. TypeOK /\ scenario' = scenario /\ Len(scenario) \in Nat
    BY MainFacts DEF Consistent, Main
  <1>2. ASSUME NEW c \in Cores, Spawn(c) \/ RunLock(c) \/ ClearThreadGo(c) \/ Join(c)
        PROVE  TypeOK'
    BY <1>1, <1>2
    DEF TypeOK, Spawn, RunLock, ClearThreadGo, Join, Visit, MainLabels, WorkerLabels,
       watchVars, workerVars
  <1>3. ASSUME NEW c \in Cores, AddWatcher(c) PROVE TypeOK'
    <2>1. watchers[c] + 1 \in 0 .. NumWatchers
      <3>1. mpc = "watch" /\ c \in todo
        BY <1>3 DEF AddWatcher, Visit, IsNext
      <3>2. PICK k \in 0 .. NumWatchers : watchers[c] = k - 1
        BY <3>1 DEF Consistent, WatchPlace
      <3>3. watchers[c] \in 0 .. NumWatchers
        BY <1>1 DEF TypeOK
      <3> QED
        BY <3>2, <3>3
    <2> QED
      BY <1>1, <1>3, <2>1 DEF TypeOK, AddWatcher, Visit, MainLabels, workerVars
  <1>4. ASSUME NEW c \in Cores, RunPush(c) PROVE TypeOK'
    <2> DEFINE e == TaskOf(scenario[next])
    <2>1. e \in AllTasks
      BY <1>1, <1>4, PushedTask DEF Consistent
    <2> HIDE DEF e
    <2>2. q' = [q EXCEPT ![c] = Append(@, e)]
      BY <1>4 DEF RunPush, e
    <2>3. q' \in [Cores -> Seq(AllTasks)]
      BY <1>1, <2>1, <2>2 DEF TypeOK
    <2>4. next' \in 1 .. Len(scenario) + 1
      <3>1. next \in 1 .. Len(scenario)
        BY <1>1, <1>4 DEF RunPush, Consistent, TypeOK, MainPlace
      <3> QED
        BY <1>1, <1>4, <3>1 DEF RunPush
    <2> QED
      BY <1>1, <1>4, <2>3, <2>4 DEF TypeOK, RunPush, MainLabels, watchVars, workerVars
  <1>5. CASE TakeAction
    <2>1. Targets(scenario, scenario[next]) \subseteq Cores
      <3>1. next \in 1 .. Len(scenario) /\ DOMAIN scenario = 1 .. Len(scenario)
            /\ CoresOf(scenario) = Cores
        BY <1>1, <1>5, MainFacts, CoresAssumption DEF TypeOK, TakeAction, Consistent
      <3>2. IsKnown(scenario[next]) => scenario[next].core \in CoresOf(scenario)
        BY <3>1 DEF IsKnown, CoresOf
      <3> QED
        BY <3>1, <3>2 DEF Targets
    <2>2. next' \in 1 .. Len(scenario) + 1
      BY <1>1, <1>5 DEF TypeOK, TakeAction, mainVars
    <2>3. mpc' \in MainLabels /\ todo' \subseteq Cores
          /\ process' \in {"running", "ended", "exited", "aborted"}
      BY <1>1, <1>5, <2>1 DEF TypeOK, TakeAction, mainVars, MainLabels
    <2>4. UNCHANGED <<q, m, threadGo, watchVars, workerVars>>
      BY <1>5 DEF TakeAction
    <2> QED
      BY <1>1, <2>2, <2>3, <2>4 DEF TypeOK, watchVars, workerVars
  <1>6. CASE FailWatcher \/ CallDone \/ Report
    BY <1>1, <1>6 DEF TypeOK, FailWatcher, CallDone, Report, MainLabels, mainVars, watchVars, workerVars
  <1> QED
    BY <1>2, <1>3, <1>4, <1>5, <1>6 DEF Main

\* A step of a worker keeps them.  A task is only taken from a queue that has
\* one, by LockPlace.
LEMMA TypeWorker ==
  ASSUME Consistent, NEW t \in Cores, Worker(t)
  PROVE  TypeOK'
  <1> USE DEF TypeOK, WorkerLabels, Goto
  <1>1. TypeOK /\ UNCHANGED <<scenario, mpc, next, todo, threadGo, watchers>>
    BY DEF Consistent, Worker, mainVars
  <1>2. CASE LoadGo(t) \/ Drain(t) \/ TestQueue(t)
    BY <1>1, <1>2 DEF LoadGo, Drain, TestQueue
  <1>3. CASE LockQueue(t)
    BY <1>1, <1>3 DEF LockQueue
  <1>4. CASE PopTask(t)
    <2>1. q[t] \in Seq(AllTasks) /\ q[t] # <<>>
      BY <1>4 DEF Consistent, LockPlace, PopTask
    <2>2. Head(q[t]) \in AllTasks /\ Tail(q[t]) \in Seq(AllTasks)
      BY <2>1
    <2> QED
      BY <1>1, <1>4, <2>2 DEF PopTask
  <1>5. CASE EnterBarrier(t) \/ InBarrier(t)
    BY <1>1, <1>5 DEF EnterBarrier, InBarrier
  <1>6. CASE StartKernel(t) \/ FailKernel(t)
    BY <1>1, <1>6 DEF StartKernel, FailKernel
  <1>8. CASE EndTask(t)
    <2>1. ran[t] + 1 \in Nat
      BY <1>1
    <2> QED
      BY <1>1, <1>8, <2>1 DEF EndTask
  <1>7. CASE FinishKernel(t)
    <2> DEFINE N == {tk.name : tk \in AllTasks}
    <2>1. task[t].name \in N /\ samples \in [Cores -> [1 .. NumWatchers -> Seq(N)]]
      BY <1>1
    <2> HIDE DEF N
    <2>2. samples' \in [Cores -> [1 .. NumWatchers -> Seq(N)]]
      <3> DEFINE row == [w \in 1 .. NumWatchers |->
                           IF w <= watchers[t] THEN Append(samples[t][w], task[t].name)
                           ELSE samples[t][w]]
      <3>1. row \in [1 .. NumWatchers -> Seq(N)]
        <4>1. ASSUME NEW w \in 1 .. NumWatchers
              PROVE  samples[t][w] \in Seq(N)
                     /\ Append(samples[t][w], task[t].name) \in Seq(N)
          <5>1. samples[t] \in [1 .. NumWatchers -> Seq(N)]
            BY <2>1
          <5>2. samples[t][w] \in Seq(N)
            BY <4>1, <5>1
          <5> QED
            BY <2>1, <5>2
        <4> QED
          BY <4>1
      <3>2. samples' = samples \/ samples' = [samples EXCEPT ![t] = row]
        BY <1>7 DEF FinishKernel
      <3> HIDE DEF row
      <3> QED
        BY <2>1, <3>1, <3>2
    <2>3. iteration[t] + 1 \in Nat
      BY <1>1
    <2>4. iteration' \in [Cores -> Nat]
      BY <1>1, <1>7, <2>3 DEF FinishKernel
    <2> QED
      BY <1>1, <1>7, <2>2, <2>4 DEF FinishKernel, N
  <1> QED
    BY <1>2, <1>3, <1>4, <1>5, <1>6, <1>7, <1>8 DEF Worker

\* Every step keeps them.
LEMMA TypeStep == ASSUME Consistent, [Next]_vars PROVE TypeOK'
  <1>1. CASE UNCHANGED vars
    BY <1>1 DEF Consistent, TypeOK, vars, mainVars, watchVars, workerVars
  <1> QED
    BY <1>1, TypeMain, TypeWorker DEF Next, Over

-------------------------------------------------------------------------------
(* Main and the watchers. *)

\* Every step keeps main in its place: it only gets past an action it survives,
\* and its loops over the cores do not end early.
LEMMA MainPlaceStep == ASSUME Consistent, [Next]_vars PROVE MainPlace'
  <1>1. TypeOK /\ MainPlace /\ Len(scenario) \in Nat
    BY MainFacts DEF Consistent
  <1>2. CASE UNCHANGED <<scenario, mpc, next, todo>>
    BY <1>1, <1>2 DEF MainPlace
  <1> SUFFICES ASSUME Main, scenario' = scenario PROVE MainPlace'
    BY <1>2 DEF Next, Main, Worker, Over, vars, mainVars
  <1>3. ASSUME NEW c \in Cores, Spawn(c) \/ AddWatcher(c) \/ ClearThreadGo(c) \/ Join(c)
        PROVE  MainPlace'
    <2>1. /\ next' = next /\ mpc' \in {mpc, "watch", "submit", "join", "report"}
          /\ mpc \in {"spawn", "watch", "clear", "join"}
          /\ mpc' # "report" => todo' # {}
          /\ mpc' = "watch" => mpc \in {"spawn", "watch"}
          /\ mpc' \in {"clear", "join", "report"} => mpc \in {"clear", "join"}
          /\ mpc' = "submit" => scenario \notin Unwatchable
      BY <1>3, CoresAssumption, WatchersAssumption DEF Spawn, AddWatcher, ClearThreadGo, Join, Visit, IsNext
    <2> QED
      BY <1>1, <2>1 DEF MainPlace
  <1>4. ASSUME NEW c \in Cores, RunLock(c) PROVE MainPlace'
    BY <1>1, <1>4 DEF MainPlace, RunLock
  <1>5. ASSUME NEW c \in Cores, RunPush(c) PROVE MainPlace'
    <2>1. next \in Nat /\ ~ Fatal(scenario[next]) /\ next <= Len(scenario)
      BY <1>1, <1>5 DEF MainPlace, RunPush, TypeOK
    <2>2. CASE todo = {c}
      BY <1>1, <1>5, <2>1, <2>2 DEF MainPlace, RunPush
    <2>3. CASE todo # {c}
      BY <1>1, <1>5, <2>1, <2>3 DEF MainPlace, RunPush, IsNext
    <2> QED
      BY <2>2, <2>3
  <1>6. CASE TakeAction
    <2>1. next \in Nat /\ next <= Len(scenario) /\ mpc = "submit"
      BY <1>1, <1>6 DEF TakeAction, TypeOK
    <2>2. CASE Fatal(scenario[next])
      BY <1>1, <1>6, <2>2 DEF MainPlace, TakeAction, mainVars
    <2>3. CASE ~ Fatal(scenario[next])
      <3>1. CASE Targets(scenario, scenario[next]) = {}
        BY <1>1, <1>6, <2>1, <2>3, <3>1 DEF MainPlace, TakeAction
      <3>2. CASE Targets(scenario, scenario[next]) # {}
        BY <1>1, <1>6, <2>1, <2>3, <3>2 DEF MainPlace, TakeAction
      <3> QED
        BY <3>1, <3>2
    <2> QED
      BY <2>2, <2>3
  <1>7. CASE CallDone
    BY <1>1, <1>7, CoresAssumption DEF MainPlace, CallDone, TypeOK
  <1>8. CASE FailWatcher \/ Report
    BY <1>1, <1>8 DEF MainPlace, FailWatcher, Report, mainVars
  <1> QED
    BY <1>3, <1>4, <1>5, <1>6, <1>7, <1>8 DEF Main

\* Every step keeps the watchers level: all cores have k of them, or those that
\* the loop still has to visit one fewer.
LEMMA WatchPlaceStep == ASSUME Consistent, [Next]_vars PROVE WatchPlace'
  <1>1. TypeOK /\ MainPlace /\ WatchPlace /\ NumWatchers \in Nat
    BY WatchersAssumption DEF Consistent
  <1>2. PICK k \in 0 .. NumWatchers : \A t \in Cores :
          watchers[t] = CASE mpc = "spawn" -> 0
                          [] mpc = "watch" -> IF t \in todo THEN k - 1 ELSE k
                          [] OTHER         -> NumWatchers
    BY <1>1 DEF WatchPlace
  <1>3. CASE UNCHANGED <<watchers, mpc, todo>>
    BY <1>2, <1>3 DEF WatchPlace
  <1> SUFFICES ASSUME Main PROVE WatchPlace'
    BY <1>3 DEF Next, Worker, Over, vars, mainVars, watchVars
  <1>4. ASSUME NEW c \in Cores, Spawn(c) PROVE WatchPlace'
    <2>1. watchers' = watchers /\ \A t \in Cores : watchers[t] = 0
      BY <1>2, <1>4 DEF Spawn, watchVars
    <2>2. CASE mpc' = "spawn"
      BY <1>1, <2>1, <2>2 DEF WatchPlace
    <2>3. CASE mpc' = "watch"
      <3>1. todo' = Cores /\ 1 \in 0 .. NumWatchers
        BY <1>1, <1>4, <2>3 DEF Spawn, Visit
      <3> QED
        BY <2>1, <2>3, <3>1 DEF WatchPlace
    <2>4. CASE mpc' = "submit"
      <3>1. NumWatchers = 0
        BY <1>4, <2>4 DEF Spawn, Visit
      <3> QED
        BY <2>1, <2>4, <3>1 DEF WatchPlace
    <2> QED
      BY <1>4, <2>2, <2>3, <2>4 DEF Spawn, Visit
  <1>5. ASSUME NEW c \in Cores, AddWatcher(c) PROVE WatchPlace'
    <2>1. /\ mpc = "watch" /\ c \in todo
          /\ watchers' = [watchers EXCEPT ![c] = @ + 1]
          /\ watchers[c] = k - 1
      BY <1>2, <1>5 DEF AddWatcher, Visit, IsNext
    <2>2. k \in 1 .. NumWatchers
      BY <1>1, <2>1 DEF TypeOK
    <2>3. CASE todo # {c}
      <3>1. mpc' = "watch" /\ todo' = todo \ {c}
        BY <1>5, <2>1, <2>3 DEF AddWatcher, Visit
      <3>2. \A t \in Cores : watchers'[t] = IF t \in todo' THEN k - 1 ELSE k
        BY <1>1, <1>2, <2>1, <2>2, <3>1 DEF TypeOK
      <3> QED
        BY <3>1, <3>2 DEF WatchPlace
    <2>4. CASE todo = {c}
      <3>1. \A t \in Cores : watchers'[t] = k
        BY <1>1, <1>2, <2>1, <2>2, <2>4 DEF TypeOK
      <3>2. todo' = Cores /\ mpc' = IF k = NumWatchers THEN "submit" ELSE "watch"
        BY <1>5, <2>1, <2>2, <2>4 DEF AddWatcher, Visit
      <3>3. CASE k = NumWatchers
        BY <3>1, <3>2, <3>3 DEF WatchPlace
      <3>4. CASE k # NumWatchers
        <4>1. k + 1 \in 0 .. NumWatchers /\ (k + 1) - 1 = k
          BY <1>1, <2>2, <3>4
        <4> QED
          BY <3>1, <3>2, <3>4, <4>1 DEF WatchPlace
      <3> QED
        BY <3>3, <3>4
    <2> QED
      BY <2>3, <2>4
  <1>6. CASE mpc \notin {"spawn", "watch"} /\ mpc' \notin {"spawn", "watch"}
             /\ watchers' = watchers
    BY <1>2, <1>6 DEF WatchPlace
  <1>7. ASSUME NEW c \in Cores, RunLock(c) \/ RunPush(c) \/ ClearThreadGo(c) \/ Join(c)
        PROVE  WatchPlace'
    BY <1>6, <1>7 DEF RunLock, RunPush, ClearThreadGo, Join, Visit, watchVars
  <1>8. CASE FailWatcher \/ TakeAction \/ CallDone \/ Report
    BY <1>3, <1>6, <1>8 DEF FailWatcher, TakeAction, CallDone, Report, mainVars, watchVars
  <1> QED
    BY <1>4, <1>5, <1>7, <1>8 DEF Main

-------------------------------------------------------------------------------
(* The queues, their locks and the end of the workers. *)

\* What a step of worker t leaves alone: main's variables, and what the other
\* workers have.
LEMMA WorkerFrame ==
  ASSUME TypeOK, NEW t \in Cores, Worker(t)
  PROVE  /\ UNCHANGED <<scenario, mpc, next, todo, threadGo, watchers>>
         /\ \A u \in Cores \ {t} :
              /\ wpc'[u] = wpc[u] /\ q'[u] = q[u] /\ m'[u] = m[u] /\ task'[u] = task[u]
              /\ iteration'[u] = iteration[u] /\ ran'[u] = ran[u]
                 /\ samples'[u] = samples[u]
  <1>1. UNCHANGED <<scenario, mpc, next, todo, threadGo, watchers>>
    BY DEF Worker, mainVars
  <1>2. wpc \in [Cores -> WorkerLabels] /\ q \in [Cores -> Seq(AllTasks)]
        /\ m \in [Cores -> {"free", "main", "worker"}]
        /\ task \in [Cores -> AllTasks] /\ iteration \in [Cores -> Nat]
           /\ ran \in [Cores -> Nat]
        /\ samples \in [Cores -> [1 .. NumWatchers -> Seq({tk.name : tk \in AllTasks})]]
    BY DEF TypeOK
  <1> SUFFICES ASSUME NEW u \in Cores, u # t
      PROVE  /\ wpc'[u] = wpc[u] /\ q'[u] = q[u] /\ m'[u] = m[u] /\ task'[u] = task[u]
             /\ iteration'[u] = iteration[u] /\ ran'[u] = ran[u] /\ samples'[u] = samples[u]
    BY <1>1
  <1>3. CASE LoadGo(t) \/ Drain(t) \/ TestQueue(t) \/ LockQueue(t)
    BY <1>2, <1>3 DEF LoadGo, Drain, TestQueue, LockQueue, Goto
  <1>4. CASE PopTask(t)
    BY <1>2, <1>4 DEF PopTask, Goto
  <1>5. CASE EnterBarrier(t) \/ InBarrier(t)
    BY <1>2, <1>5 DEF EnterBarrier, InBarrier, Goto
  <1>6. CASE StartKernel(t) \/ FailKernel(t) \/ EndTask(t)
    BY <1>2, <1>6 DEF StartKernel, FailKernel, EndTask, Goto
  <1>7. CASE FinishKernel(t)
    BY <1>2, <1>7 DEF FinishKernel, Goto
  <1> QED
    BY <1>3, <1>4, <1>5, <1>6, <1>7 DEF Worker

\* Main's loop is at one core at a time.
LEMMA OneNext ==
  ASSUME TypeOK, NEW t \in Cores, NEW u \in Cores, IsNext(t), IsNext(u)
  PROVE  t = u
  <1>1. t \in Nat /\ u \in Nat /\ t <= u /\ u <= t
    BY CoresAssumption DEF IsNext
  <1> QED
    BY <1>1

\* What no step of main changes.
LEMMA MainFrame ==
  ASSUME Main
  PROVE  UNCHANGED <<scenario, task, iteration, ran, samples, barrierVars>>
  <1> QED
    BY DEF Main, Spawn, AddWatcher, FailWatcher, TakeAction, RunLock, RunPush, CallDone, ClearThreadGo,
       Join, Report,
           workerVars, watchVars

\* Every step keeps the locks: who is told that there is a task finds one when
\* it gets the lock, since nobody but the worker itself takes any.
LEMMA LockPlaceStep ==
  ASSUME Consistent, [Next]_vars, NEW t \in Cores
  PROVE  LockPlace(t)'
  <1> USE DEF SeesTask
  <1>1. /\ TypeOK /\ MainPlace /\ LockPlace(t) /\ StopPlace(t)
        /\ wpc \in [Cores -> WorkerLabels] /\ q \in [Cores -> Seq(AllTasks)]
        /\ m \in [Cores -> {"free", "main", "worker"}]
    BY DEF Consistent, TypeOK
  <1>2. CASE UNCHANGED vars
    BY <1>1, <1>2 DEF vars, mainVars, workerVars, LockPlace, IsNext
  <1>3. ASSUME NEW c \in Cores, Spawn(c) PROVE LockPlace(t)'
    <2>1. mpc = "spawn" /\ mpc' # "push" /\ UNCHANGED <<m, q>> /\ c \in todo
      BY <1>3 DEF Spawn, Visit, IsNext
    <2>2. CASE t = c
      BY <1>1, <1>3, <2>1, <2>2 DEF LockPlace, StopPlace, Spawn
    <2>3. CASE t # c
      <3>1. wpc'[t] = wpc[t]
        BY <1>1, <1>3, <2>3 DEF Spawn
      <3> QED
        BY <1>1, <2>1, <3>1 DEF LockPlace
    <2> QED
      BY <2>2, <2>3
  <1>4. ASSUME NEW c \in Cores, AddWatcher(c) \/ ClearThreadGo(c) \/ Join(c) PROVE LockPlace(t)'
    <2>1. mpc # "push" /\ mpc' # "push" /\ UNCHANGED <<m, q, wpc>>
      BY <1>4 DEF AddWatcher, ClearThreadGo, Join, Visit, workerVars
    <2> QED
      BY <1>1, <2>1 DEF LockPlace
  <1>5. CASE FailWatcher \/ TakeAction \/ CallDone \/ Report
    <2>1. mpc # "push" /\ mpc' # "push" /\ UNCHANGED <<m, q, wpc>>
      BY <1>5 DEF FailWatcher, TakeAction, CallDone, Report, workerVars, mainVars
    <2> QED
      BY <1>1, <2>1 DEF LockPlace
  <1>6. ASSUME NEW c \in Cores, RunLock(c) PROVE LockPlace(t)'
    <2>1. /\ mpc = "lock" /\ mpc' = "push" /\ m[c] = "free" /\ UNCHANGED <<q, wpc, todo>>
          /\ IsNext(c) /\ m' = [m EXCEPT ![c] = "main"]
      BY <1>6 DEF RunLock, workerVars
    <2>2. IsNext(t)' <=> t = c
      BY <1>1, <2>1, OneNext DEF IsNext
    <2> QED
      BY <1>1, <2>1, <2>2 DEF LockPlace
  <1>7. ASSUME NEW c \in Cores, RunPush(c) PROVE LockPlace(t)'
    <2> DEFINE e == TaskOf(scenario[next])
    <2>1. /\ mpc = "push" /\ mpc' # "push" /\ UNCHANGED wpc /\ IsNext(c)
          /\ m' = [m EXCEPT ![c] = "free"] /\ q' = [q EXCEPT ![c] = Append(@, e)]
      BY <1>7 DEF RunPush, workerVars
    <2> HIDE DEF e
    <2>2. CASE t = c
      <3>1. m[t] = "main" /\ m'[t] = "free" /\ q'[t] = Append(q[t], e)
            /\ q[t] \in Seq(AllTasks)
        BY <1>1, <2>1, <2>2 DEF LockPlace
      <3>2. q'[t] # <<>>
        <4> DEFINE S == q[t]
        <4>1. S \in Seq(AllTasks) /\ q'[t] = Append(S, e)
          BY <3>1
        <4> HIDE DEF S
        <4>2. Len(q'[t]) = Len(S) + 1 /\ Len(S) \in Nat /\ Len(<<>>) = 0
          BY <4>1
        <4> QED
          BY <4>2
      <3> QED
        BY <1>1, <2>1, <3>1, <3>2 DEF LockPlace
    <2>3. CASE t # c
      <3>1. ~ IsNext(t) /\ m'[t] = m[t] /\ q'[t] = q[t]
        BY <1>1, <2>1, <2>3, OneNext
      <3> QED
        BY <1>1, <2>1, <3>1 DEF LockPlace
    <2> QED
      BY <2>2, <2>3
  <1>8. ASSUME NEW u \in Cores, Worker(u), u # t PROVE LockPlace(t)'
    BY <1>1, <1>8, WorkerFrame DEF LockPlace, IsNext
  <1>9. CASE Worker(t)
    <2>1. UNCHANGED <<mpc, todo>> /\ (IsNext(t)' <=> IsNext(t))
      BY <1>1, <1>9, WorkerFrame DEF IsNext
    <2>2. CASE LoadGo(t) \/ Drain(t) \/ TestQueue(t)
      BY <1>1, <2>1, <2>2 DEF LoadGo, Drain, TestQueue, Goto, LockPlace, WorkerLabels
    <2>3. CASE LockQueue(t)
      BY <1>1, <2>1, <2>3 DEF LockQueue, Goto, LockPlace, WorkerLabels
    <2>4. CASE PopTask(t)
      BY <1>1, <2>1, <2>4 DEF PopTask, Goto, LockPlace, WorkerLabels
    <2>5. CASE EnterBarrier(t) \/ InBarrier(t) \/ StartKernel(t)
      BY <1>1, <2>1, <2>5
      DEF EnterBarrier, InBarrier, StartKernel, Goto, LockPlace, WorkerLabels
    <2>6. CASE FinishKernel(t) \/ FailKernel(t) \/ EndTask(t)
      BY <1>1, <2>1, <2>6
      DEF FinishKernel, FailKernel, EndTask, Goto, LockPlace, WorkerLabels
    <2> QED
      BY <1>9, <2>2, <2>3, <2>4, <2>5, <2>6 DEF Worker
  <1> QED
    BY <1>2, <1>3, <1>4, <1>5, <1>6, <1>7, <1>8, <1>9 DEF Next, Main, Over

\* Every step keeps the order of the end: no worker is told to stop while main
\* can still push, so one that sees an empty queue then may leave.
LEMMA StopPlaceStep ==
  ASSUME Consistent, [Next]_vars, NEW t \in Cores
  PROVE  StopPlace(t)'
  <1>1. /\ TypeOK /\ MainPlace /\ LockPlace(t) /\ StopPlace(t)
        /\ wpc \in [Cores -> WorkerLabels] /\ threadGo \in [Cores -> {0, 1}]
           /\ todo \subseteq Cores
    BY DEF Consistent, TypeOK
  <1>2. CASE UNCHANGED vars
    BY <1>1, <1>2 DEF vars, mainVars, workerVars, StopPlace
  <1>3. ASSUME NEW c \in Cores, Spawn(c) PROVE StopPlace(t)'
    <2>1. /\ mpc = "spawn" /\ mpc' \in {"spawn", "submit", "watch"}
             /\ UNCHANGED <<q, threadGo>> /\ c \in todo
          /\ mpc' = "spawn" => todo' = todo \ {c}
          /\ mpc' # "spawn" => todo = {c}
          /\ wpc' = [wpc EXCEPT ![c] = "checkGo"]
      BY <1>3 DEF Spawn, Visit, IsNext
    <2> QED
      BY <1>1, <2>1 DEF StopPlace
  <1>4. ASSUME NEW c \in Cores, ClearThreadGo(c) PROVE StopPlace(t)'
    <2>1. /\ mpc = "clear" /\ mpc' \in {"clear", "join"} /\ UNCHANGED <<q, wpc>>
          /\ mpc' = "join" => todo' = Cores
          /\ threadGo' = [threadGo EXCEPT ![c] = 0]
      BY <1>4 DEF ClearThreadGo, Visit, IsNext, workerVars
    <2> QED
      BY <1>1, <2>1 DEF StopPlace
  <1>5. ASSUME NEW c \in Cores, Join(c) PROVE StopPlace(t)'
    <2>1. /\ mpc = "join" /\ mpc' \in {"join", "report"} /\ UNCHANGED <<q, wpc, threadGo>>
          /\ mpc' = "join" => todo' = todo \ {c}
          /\ mpc' = "report" => todo = {c}
          /\ wpc[c] = "exited"
      BY <1>5 DEF Join, Visit, IsNext, workerVars
    <2> QED
      BY <1>1, <2>1 DEF StopPlace
  <1>6. ASSUME NEW c \in Cores, AddWatcher(c) \/ RunLock(c) PROVE StopPlace(t)'
    <2>1. mpc \in {"watch", "lock"} /\ mpc' \in {"watch", "submit", "push"}
          /\ UNCHANGED <<q, wpc, threadGo>>
      BY <1>6 DEF AddWatcher, RunLock, Visit, workerVars
    <2> QED
      BY <1>1, <2>1 DEF StopPlace
  <1>7. CASE TakeAction \/ CallDone
    <2>1. mpc = "submit" /\ mpc' \in {"submit", "lock", "clear"}
          /\ UNCHANGED <<q, wpc, threadGo>>
      BY <1>7 DEF TakeAction, CallDone, workerVars, mainVars
    <2> QED
      BY <1>1, <2>1 DEF StopPlace
  <1>8. CASE FailWatcher \/ Report
    BY <1>1, <1>8 DEF FailWatcher, Report, mainVars, workerVars, StopPlace
  <1>9. ASSUME NEW c \in Cores, RunPush(c) PROVE StopPlace(t)'
    <2>1. mpc = "push" /\ mpc' \in {"submit", "lock"} /\ UNCHANGED <<wpc, threadGo>>
      BY <1>9 DEF RunPush, workerVars
    <2>2. wpc[t] # "exited" /\ wpc[t] # "drain" /\ wpc[t] # "unborn"
      BY <1>1, <2>1 DEF StopPlace
    <2> QED
      BY <1>1, <2>1, <2>2 DEF StopPlace
  <1>10. ASSUME NEW u \in Cores, Worker(u), u # t PROVE StopPlace(t)'
    BY <1>1, <1>10, WorkerFrame DEF StopPlace
  <1>11. CASE Worker(t)
    <2>1. UNCHANGED <<mpc, todo, threadGo>> /\ q \in [Cores -> Seq(AllTasks)]
      BY <1>1, <1>11, WorkerFrame DEF TypeOK
    <2>2. CASE LoadGo(t) \/ Drain(t) \/ TestQueue(t)
      BY <1>1, <2>1, <2>2
      DEF LoadGo, Drain, TestQueue, Goto, SeesNone, StopPlace, WorkerLabels
    <2>3. CASE LockQueue(t) \/ PopTask(t)
      BY <1>1, <2>1, <2>3 DEF LockQueue, PopTask, Goto, StopPlace, WorkerLabels
    <2>5. CASE EnterBarrier(t) \/ InBarrier(t) \/ StartKernel(t)
      BY <1>1, <2>1, <2>5
      DEF EnterBarrier, InBarrier, StartKernel, Goto, StopPlace, WorkerLabels
    <2>6. CASE FinishKernel(t) \/ FailKernel(t) \/ EndTask(t)
      BY <1>1, <2>1, <2>6
      DEF FinishKernel, FailKernel, EndTask, Goto, StopPlace, WorkerLabels
    <2> QED
      BY <1>11, <2>2, <2>3, <2>5, <2>6 DEF Worker
  <1> QED
    BY <1>2, <1>3, <1>4, <1>5, <1>6, <1>7, <1>8, <1>9, <1>10, <1>11 DEF Next, Main, Over

\* A worker has taken what it is done with, and the task in its hand.
LEMMA TakenFacts ==
  ASSUME TypeOK, NEW t \in Cores
  PROVE  Taken(t) = (IF Busy(t) THEN ran[t] + 1 ELSE ran[t]) /\ Taken(t) \in Nat
  <1>1. Len(<<task[t]>>) = 1 /\ Len(<<>>) = 0 /\ ran[t] \in Nat
    BY DEF TypeOK
  <1> QED
    BY <1>1 DEF Taken, InHand

\* Every step keeps each queue what lies between the tasks given to its core
\* and those taken: run() adds to the end what main's list gets, and a worker
\* takes what comes next.
LEMMA QueuePlaceStep ==
  ASSUME Consistent, [Next]_vars, NEW t \in Cores
  PROVE  QueuePlace(t)'
  <1>1. /\ TypeOK /\ MainPlace /\ LockPlace(t) /\ QueuePlace(t) /\ StopPlace(t)
        /\ wpc \in [Cores -> WorkerLabels] /\ q \in [Cores -> Seq(AllTasks)]
        /\ task \in [Cores -> AllTasks] /\ ran \in [Cores -> Nat] /\ ran[t] \in Nat
    BY DEF Consistent, TypeOK
  <1>2. Taken(t)' = (IF Busy(t)' THEN ran'[t] + 1 ELSE ran'[t])
    <2>1. ran' \in [Cores -> Nat] /\ ran'[t] \in Nat /\ Len(<<task'[t]>>) = 1
          /\ Len(<<>>) = 0
      BY TypeStep DEF TypeOK
    <2> QED
      BY <2>1 DEF Taken, InHand
  <1> DEFINE S == Submitted(t) n == Taken(t)
  <1>3. /\ S \in Seq(AllTasks) /\ Len(S) \in Nat /\ n \in Nat /\ n <= Len(S)
        /\ q[t] = SubSeq(S, n + 1, Len(S))
        /\ n = (IF Busy(t) THEN ran[t] + 1 ELSE ran[t])
        /\ Busy(t) => task[t] = S[n]
    BY <1>1, SubmittedFacts, TakenFacts DEF QueuePlace
  <1> HIDE DEF S, n
  <1>4. ASSUME S' = S, n' = n, q'[t] = q[t], Busy(t)' => Busy(t) /\ task'[t] = task[t]
        PROVE  QueuePlace(t)'
    BY <1>3, <1>4 DEF QueuePlace, S, n
  <1>5. ASSUME UNCHANGED <<scenario, mainVars, q, workerVars>> PROVE QueuePlace(t)'
    <2>1. S' = S
      BY <1>1, <1>5, SubmittedSame DEF S
    <2>2. Busy(t)' = Busy(t) /\ n' = n
      BY <1>2, <1>3, <1>5 DEF Busy, workerVars, n
    <2> QED
      BY <1>4, <1>5, <2>1, <2>2 DEF workerVars
  <1>6. CASE Main
    <2>1. UNCHANGED <<scenario, task, ran>> /\ Busy(t)' = Busy(t)
      <3>1. UNCHANGED <<scenario, task, ran>>
        BY <1>6, MainFrame
      <3>2. ASSUME NEW c \in Cores, Spawn(c) PROVE Busy(t)' = Busy(t)
        <4>1. mpc = "spawn" /\ c \in todo
          BY <3>2 DEF Spawn, Visit, IsNext
        <4> QED
          BY <1>1, <3>2, <4>1 DEF Spawn, Busy, StopPlace
      <3>3. UNCHANGED wpc => Busy(t)' = Busy(t)
        BY DEF Busy
      <3> QED
        BY <1>6, <3>1, <3>2, <3>3
        DEF Main, AddWatcher, FailWatcher, TakeAction, RunLock, RunPush, CallDone, ClearThreadGo, Join,
            Report, workerVars
    <2>2. n' = n
      BY <1>2, <1>3, <2>1 DEF n
    <2>3. CASE MainButPush
      <3>1. S' = S
        BY <1>1, <2>1, <2>3, SubmittedSame DEF S
      <3>2. q' = q
        BY <2>3 DEF MainButPush, Spawn, AddWatcher, FailWatcher, TakeAction, RunLock, CallDone,
           ClearThreadGo, Join, Report
      <3> QED
        BY <1>4, <2>1, <2>2, <3>1, <3>2
    <2>4. ASSUME NEW c \in Cores, RunPush(c) PROVE QueuePlace(t)'
      <3> DEFINE e == TaskOf(scenario[next])
      <3>1. S' = IF t = c THEN Append(S, e) ELSE S
        BY <1>1, <2>1, <2>4, SubmittedPush DEF S
      <3>2. q' = [q EXCEPT ![c] = Append(@, e)]
        BY <2>4 DEF RunPush
      <3>3. e \in AllTasks
        BY <1>1, <2>4, PushedTask
      <3> HIDE DEF e
      <3>4. CASE t # c
        BY <1>1, <1>4, <2>1, <2>2, <3>1, <3>2, <3>4
      <3>5. CASE t = c
        <4>1. S' = Append(S, e) /\ q'[t] = Append(q[t], e)
          BY <1>1, <3>1, <3>2, <3>5
        <4>2. n \in 0 .. Len(S)
          BY <1>3
        <4>3. Append(SubSeq(S, n + 1, Len(S)), e) = SubSeq(S', n + 1, Len(S'))
          BY <1>3, <3>3, <4>1, <4>2, SubSeqAppend
        <4>4. Len(S') = Len(S) + 1 /\ \A k \in 1 .. Len(S) : S'[k] = S[k]
          BY <1>3, <3>3, <4>1
        <4>5. Busy(t) => n \in 1 .. Len(S)
          BY <1>1, <1>3
        <4>6. q'[t] = SubSeq(S', n' + 1, Len(S'))
          BY <1>3, <2>2, <4>1, <4>3, Zenon
        <4>8. n' <= Len(S')
          BY <1>3, <2>2, <4>4
        <4>7. Busy(t)' => task'[t] = S'[n']
          BY <1>3, <2>1, <2>2, <4>4, <4>5
        <4> QED
          BY <4>6, <4>7, <4>8 DEF QueuePlace, S, n
      <3> QED
        BY <3>4, <3>5
    <2> QED
      BY <1>6, <2>3, <2>4 DEF Main, MainButPush
  <1>7. ASSUME NEW u \in Cores, Worker(u), u # t PROVE QueuePlace(t)'
    <2>1. /\ UNCHANGED <<scenario, mainVars>> /\ q'[t] = q[t] /\ wpc'[t] = wpc[t]
          /\ task'[t] = task[t] /\ ran'[t] = ran[t]
      BY <1>1, <1>7, WorkerFrame DEF mainVars
    <2>2. S' = S /\ Busy(t)' = Busy(t) /\ n' = n
      BY <1>1, <1>2, <1>3, <2>1, SubmittedSame DEF S, n, Busy
    <2> QED
      BY <1>4, <2>1, <2>2
  <1>8. CASE Worker(t)
    <2>1. S' = S
      <3>1. UNCHANGED <<scenario, mainVars>>
        BY <1>8 DEF Worker
      <3> QED
        BY <1>1, <3>1, SubmittedSame DEF S
    <2>2. CASE LoadGo(t) \/ Drain(t) \/ TestQueue(t) \/ LockQueue(t)
      <3>1. ~ Busy(t) /\ ~ Busy(t)' /\ ran' = ran /\ q' = q
        BY <1>1, <2>2 DEF LoadGo, Drain, TestQueue, LockQueue, Goto, Busy
      <3> QED
        BY <1>2, <1>3, <1>4, <2>1, <3>1 DEF n
    <2>3. CASE EnterBarrier(t) \/ InBarrier(t) \/ StartKernel(t) \/ FinishKernel(t) \/ FailKernel(t)
      <3>1. Busy(t) /\ Busy(t)' /\ ran' = ran /\ q' = q /\ task' = task
        BY <1>1, <2>3
        DEF EnterBarrier, InBarrier, StartKernel, FinishKernel, FailKernel, Goto, Busy
      <3> QED
        BY <1>2, <1>3, <1>4, <2>1, <3>1 DEF n
    <2>4. CASE EndTask(t)
      <3>1. Busy(t) /\ ~ Busy(t)' /\ ran'[t] = ran[t] + 1 /\ q' = q
        BY <1>1, <2>4 DEF EndTask, Goto, Busy
      <3> QED
        BY <1>2, <1>3, <1>4, <2>1, <3>1 DEF n
    <2>5. CASE PopTask(t)
      <3>1. /\ ~ Busy(t) /\ Busy(t)' /\ ran' = ran
            /\ q'[t] = Tail(q[t]) /\ task'[t] = Head(q[t]) /\ q[t] # <<>>
        BY <1>1, <2>5 DEF PopTask, Goto, Busy, LockPlace
      <3>2. n' = n + 1
        BY <1>2, <1>3, <3>1 DEF n
      <3>3. n + 1 \in 1 .. Len(S) /\ Head(q[t]) = S[n + 1]
            /\ Tail(q[t]) = SubSeq(S, (n + 1) + 1, Len(S))
        <4>1. n \in 0 .. Len(S) /\ SubSeq(S, n + 1, Len(S)) # <<>>
          BY <1>3, <3>1
        <4> QED
          BY <1>3, <4>1, SubSeqTail
      <3>4. q'[t] = SubSeq(S', n' + 1, Len(S'))
        BY <2>1, <3>1, <3>2, <3>3, Zenon
      <3>6. n' <= Len(S')
        BY <1>3, <2>1, <3>2, <3>3
      <3>5. task'[t] = S'[n']
        BY <1>3, <2>1, <3>1, <3>2, <3>3
      <3> QED
        BY <3>4, <3>5, <3>6 DEF QueuePlace, S, n
    <2> QED
      BY <1>8, <2>2, <2>3, <2>4, <2>5 DEF Worker
  <1> QED
    BY <1>5, <1>6, <1>7, <1>8 DEF Next, Over, vars

\* What a worker has in hand, or is about to take, is the next task of its
\* list.
LEMMA TaskFacts ==
  ASSUME Consistent, NEW t \in Cores, Busy(t) \/ wpc[t] = "pop"
  PROVE  LET P == Program(scenario, t)
             e == IF Busy(t) THEN task[t] ELSE Head(q[t])
         IN  /\ ran[t] + 1 \in 1 .. Len(P) /\ Len(P) \in Nat
             /\ e = P[ran[t] + 1]
             /\ IsTask(e)
  <1> DEFINE P == Program(scenario, t) S == Submitted(t) n == Taken(t)
  <1>1. /\ TypeOK /\ MainPlace /\ QueuePlace(t) /\ LockPlace(t)
           /\ scenario \in Scenarios /\ ran[t] \in Nat
    BY DEF Consistent, TypeOK
  <1>2. /\ S \in Seq(AllTasks) /\ Len(S) \in Nat /\ n \in Nat /\ n <= Len(S)
        /\ q[t] = SubSeq(S, n + 1, Len(S))
        /\ n = (IF Busy(t) THEN ran[t] + 1 ELSE ran[t])
        /\ Busy(t) => task[t] = S[n]
        /\ IsPrefix(S, P)
    BY <1>1, SubmittedFacts, TakenFacts DEF QueuePlace
  <1>3. Len(P) \in Nat /\ \A k \in 1 .. Len(P) : IsTask(P[k])
    BY <1>1, ProgramFacts
  <1> HIDE DEF P, S, n
  <1>4. CASE Busy(t)
    BY <1>1, <1>2, <1>3, <1>4 DEF IsPrefix, P
  <1>5. CASE ~ Busy(t)
    <2>1. q[t] # <<>> /\ n \in 0 .. Len(S) /\ n = ran[t]
      BY <1>1, <1>2, <1>5 DEF LockPlace
    <2>2. n + 1 \in 1 .. Len(S) /\ Head(q[t]) = S[n + 1]
      BY <1>2, <2>1, SubSeqTail
    <2> QED
      BY <1>1, <1>2, <1>3, <1>5, <2>1, <2>2 DEF IsPrefix, P
  <1> QED
    BY <1>4, <1>5

-------------------------------------------------------------------------------
(* The barrier. *)

\* In the barrier, a step of the runtime is a step of SpinBarrier.  A worker
\* enters only with a sync task of its list, so it is within its budget.
LEMMA BarrierStep ==
  ASSUME Consistent, [Next]_vars
  PROVE  [Barrier!Next]_(Barrier!vars)
  <1>1. CASE UNCHANGED <<scenario, barrierVars>>
    BY <1>1 DEF Barrier!vars, barrierVars, Barrier!barrierVars
  <1>2. ASSUME NEW t \in Cores, Worker(t), ~ UNCHANGED barrierVars
        PROVE  Barrier!Next
    <2> DEFINE P == Program(scenario, t)
    <2>1. scenario' = scenario
      BY <1>2 DEF Worker
    <2>2. CASE InBarrier(t)
      BY <2>1, <2>2 DEF InBarrier, Barrier!Next
    <2>3. CASE EnterBarrier(t)
      <3>1. /\ Busy(t) /\ wpc[t] = "sync" /\ bpc[t] = "out" /\ task[t].sync
            /\ passed[t] = SyncsWithin(P, ran[t] + 0) /\ arrived[t] = passed[t] + 0
               /\ ran[t] \in Nat
        BY <2>3 DEF EnterBarrier, Busy, Consistent, BarrierPlace, TypeOK
      <3>2. ran[t] + 1 \in 1 .. Len(P) /\ Len(P) \in Nat /\ P[ran[t] + 1].sync
        BY <3>1, TaskFacts
      <3>3. SyncsWithin(P, ran[t] + 1) = SyncsWithin(P, ran[t]) + 1
            /\ SyncsWithin(P, ran[t]) \in Nat
        BY <3>1, <3>2, SyncsNext, SyncsType
      <3>4. SyncsWithin(P, ran[t] + 1) <= SyncsWithin(P, Len(P))
            /\ SyncsWithin(P, Len(P)) \in Nat
        BY <3>1, <3>2, SyncsMonotone, SyncsType
      <3>5. arrived[t] < SyncsOf(P)
        BY <3>1, <3>3, <3>4 DEF SyncsOf
      <3>6. Barrier!StartSyncTask(t)
        BY <2>3, <3>5 DEF EnterBarrier, Barrier!StartSyncTask
      <3> QED
        BY <2>1, <3>6 DEF Barrier!Next
    <2> QED
      BY <1>2, <2>2, <2>3
      DEF Worker, LoadGo, Drain, TestQueue, LockQueue, PopTask, StartKernel, FinishKernel,
         FailKernel, EndTask
  <1>3. CASE Main
    BY <1>1, <1>3, MainFrame
  <1>4. ASSUME NEW t \in Cores, Worker(t), UNCHANGED barrierVars PROVE [Barrier!Next]_(Barrier!vars)
    BY <1>1, <1>4 DEF Worker
  <1> QED
    BY <1>1, <1>2, <1>3, <1>4 DEF Next, Over, vars

\* A step of a worker leaves the others' places in the barrier alone.
LEMMA BarrierFrame ==
  ASSUME Consistent, NEW u \in Cores, Worker(u), NEW t \in Cores, t # u
  PROVE  bpc'[t] = bpc[t] /\ arrived'[t] = arrived[t] /\ passed'[t] = passed[t]
  <1>1. bpc \in [Cores -> Barrier!Labels] /\ arrived \in [Cores -> Nat]
        /\ passed \in [Cores -> Nat]
    BY DEF Consistent, Barrier!OneMeeting, Barrier!TypeOK
  <1>2. CASE UNCHANGED barrierVars
    BY <1>2 DEF barrierVars
  <1>3. CASE EnterBarrier(u)
    BY <1>1, <1>3 DEF EnterBarrier, Barrier!LoadCurrent, Barrier!Goto
  <1>4. CASE InBarrier(u)
    <2>1. CASE Barrier!Arrive(u)
      BY <1>1, <2>1 DEF Barrier!Arrive, Barrier!Goto
    <2>2. CASE Barrier!Flip(u) \/ Barrier!ClearThere(u) \/ Barrier!ClearGo(u)
      BY <1>1, <2>2 DEF Barrier!Flip, Barrier!ClearThere, Barrier!ClearGo, Barrier!Goto
    <2>3. CASE Barrier!Open(u) \/ Barrier!LeaveSpin(u)
      BY <1>1, <2>3 DEF Barrier!Open, Barrier!LeaveSpin, Barrier!Goto
    <2> QED
      BY <1>4, <2>1, <2>2, <2>3 DEF InBarrier, Barrier!Inside
  <1> QED
    BY <1>2, <1>3, <1>4
    DEF Worker, LoadGo, Drain, TestQueue, LockQueue, PopTask, StartKernel, FinishKernel,
       FailKernel, EndTask

\* Every step keeps the count of a worker's meetings the count of the sync
\* tasks it has begun.
LEMMA BarrierPlaceStep ==
  ASSUME Consistent, [Next]_vars, NEW t \in Cores
  PROVE  BarrierPlace(t)'
  <1> DEFINE P == Program(scenario, t)
             begun == ran[t] + (IF wpc[t] \in {"run", "kernel"} THEN 1 ELSE 0)
  <1>1. /\ TypeOK /\ StopPlace(t) /\ BarrierPlace(t) /\ ran[t] \in Nat
        /\ wpc \in [Cores -> WorkerLabels] /\ task \in [Cores -> AllTasks]
        /\ ran \in [Cores -> Nat]
    BY DEF Consistent, TypeOK
  <1>9. begun \in Nat
    BY <1>1
  <1>2. bpc \in [Cores -> Barrier!Labels] /\ arrived \in [Cores -> Nat]
        /\ passed \in [Cores -> Nat]
    BY DEF Consistent, Barrier!OneMeeting, Barrier!TypeOK
  <1>3. iteration'[t] \in Nat
    BY TypeStep DEF TypeOK
  <1>4. ASSUME scenario' = scenario, begun' = begun,
               bpc'[t] = bpc[t], arrived'[t] = arrived[t], passed'[t] = passed[t],
               wpc'[t] = "barrier" <=> wpc[t] = "barrier",
               wpc'[t] \in {"sync", "barrier"} => task'[t].sync
        PROVE  BarrierPlace(t)'
    BY <1>1, <1>3, <1>4 DEF BarrierPlace
  <1>5. CASE UNCHANGED <<scenario, workerVars, barrierVars>>
    BY <1>1, <1>4, <1>5 DEF workerVars, barrierVars, BarrierPlace
  <1>6. CASE Main
    <2>1. UNCHANGED <<scenario, task, iteration, ran, barrierVars>>
      BY <1>6, MainFrame
    <2>2. ASSUME NEW c \in Cores, Spawn(c) PROVE BarrierPlace(t)'
      <3>1. mpc = "spawn" /\ c \in todo
        BY <2>2 DEF Spawn, Visit, IsNext
      <3>2. wpc'[t] = wpc[t] \/ (wpc[t] = "unborn" /\ wpc'[t] = "checkGo")
        BY <1>1, <2>2, <3>1 DEF Spawn, StopPlace
      <3> QED
        BY <1>1, <1>4, <2>1, <3>2 DEF barrierVars, BarrierPlace
    <2>3. UNCHANGED wpc => BarrierPlace(t)'
      BY <1>5, <2>1 DEF workerVars
    <2> QED
      BY <1>6, <2>2, <2>3
      DEF Main, AddWatcher, FailWatcher, TakeAction, RunLock, RunPush, CallDone, ClearThreadGo, Join,
          Report, workerVars
  <1>7. ASSUME NEW u \in Cores, Worker(u), u # t PROVE BarrierPlace(t)'
    <2>1. scenario' = scenario /\ wpc'[t] = wpc[t] /\ task'[t] = task[t] /\ ran'[t] = ran[t]
      BY <1>1, <1>7, WorkerFrame
    <2>2. bpc'[t] = bpc[t] /\ arrived'[t] = arrived[t] /\ passed'[t] = passed[t]
      BY <1>7, BarrierFrame
    <2> QED
      BY <1>1, <1>4, <2>1, <2>2 DEF BarrierPlace
  <1>8. CASE Worker(t)
    <2>1. scenario' = scenario
      BY <1>8 DEF Worker
    <2>2. CASE LoadGo(t) \/ Drain(t) \/ TestQueue(t) \/ LockQueue(t)
      BY <1>1, <1>4, <2>1, <2>2
      DEF LoadGo, Drain, TestQueue, LockQueue, Goto, barrierVars, WorkerLabels
    <2>3. CASE PopTask(t)
      <3> DEFINE e == Head(q[t])
      <3>1. wpc[t] = "pop" /\ ~ Busy(t) /\ UNCHANGED <<ran, barrierVars>> /\ task'[t] = e
            /\ wpc'[t] = IF e.sync THEN "sync" ELSE "run"
        BY <1>1, <2>3 DEF PopTask, Goto, Busy
      <3>2. e = P[ran[t] + 1] /\ e.sync \in BOOLEAN
        BY <3>1, TaskFacts DEF IsTask
      <3>3. CASE e.sync
        BY <1>1, <1>4, <2>1, <3>1, <3>3 DEF barrierVars
      <3>4. CASE ~ e.sync
        <4>1. SyncsWithin(P, ran[t] + 1) = SyncsWithin(P, ran[t]) + 0
              /\ SyncsWithin(P, ran[t]) \in Nat
          BY <1>1, <3>2, <3>4, SyncsNext, SyncsType
        <4>2. begun = ran[t] /\ begun' = ran[t] + 1 /\ wpc'[t] = "run"
          BY <1>1, <3>1, <3>4
        <4> QED
          BY <1>1, <1>3, <2>1, <3>1, <4>1, <4>2 DEF BarrierPlace, barrierVars
      <3> QED
        BY <3>3, <3>4
    <2>4. CASE EnterBarrier(t)
      <3>1. /\ wpc[t] = "sync" /\ wpc'[t] = "barrier"
               /\ UNCHANGED <<ran, task, arrived, passed>>
            /\ bpc[t] = "out" /\ bpc'[t] = "arrive"
        BY <1>1, <1>2, <2>4 DEF EnterBarrier, Goto, Barrier!LoadCurrent, Barrier!Goto
      <3> QED
        BY <1>1, <1>3, <2>1, <3>1 DEF BarrierPlace
    <2>5. CASE InBarrier(t)
      <3>1. wpc[t] = "barrier" /\ UNCHANGED <<ran, task>> /\ task[t].sync
            /\ wpc'[t] = IF bpc'[t] = "out" THEN "run" ELSE "barrier"
        BY <1>1, <2>5 DEF InBarrier, Goto, BarrierPlace
      <3>2. CASE Barrier!Arrive(t)
        <4>1. bpc[t] = "arrive" /\ bpc'[t] \in {"flip", "spin"}
              /\ arrived'[t] = arrived[t] + 1 /\ passed' = passed
          BY <1>2, <3>2 DEF Barrier!Arrive, Barrier!Goto
        <4> QED
          BY <1>1, <1>2, <1>3, <2>1, <3>1, <4>1 DEF BarrierPlace
      <3>3. CASE Barrier!Flip(t) \/ Barrier!ClearThere(t) \/ Barrier!ClearGo(t)
        <4>1. bpc[t] \notin {"out", "arrive"}
              /\ bpc'[t] \in {"clearThere", "clearGo", "open"}
              /\ arrived' = arrived /\ passed' = passed
          BY <1>2, <3>3 DEF Barrier!Flip, Barrier!ClearThere, Barrier!ClearGo, Barrier!Goto
        <4> QED
          BY <1>1, <1>2, <1>3, <2>1, <3>1, <4>1 DEF BarrierPlace
      <3>4. CASE Barrier!Open(t) \/ Barrier!LeaveSpin(t)
        <4>1. bpc[t] \notin {"out", "arrive"} /\ bpc'[t] = "out"
              /\ arrived' = arrived /\ passed'[t] = passed[t] + 1
          BY <1>2, <3>4 DEF Barrier!Open, Barrier!LeaveSpin, Barrier!Goto
        <4>2. begun = ran[t] /\ begun' = ran[t] + 1
          BY <1>1, <3>1, <4>1
        <4>3. P[ran[t] + 1].sync
          BY <3>1, TaskFacts DEF Busy
        <4>4. SyncsWithin(P, ran[t] + 1) = SyncsWithin(P, ran[t]) + 1
          BY <1>1, <4>3, SyncsNext
        <4> QED
          BY <1>1, <1>2, <1>3, <2>1, <3>1, <4>1, <4>2, <4>4 DEF BarrierPlace
      <3> QED
        BY <2>5, <3>2, <3>3, <3>4 DEF InBarrier, Barrier!Inside
    <2>6. CASE StartKernel(t) \/ FinishKernel(t) \/ FailKernel(t)
      <3>1. UNCHANGED <<ran, task, barrierVars>> /\ wpc[t] \in {"run", "kernel"}
            /\ wpc'[t] \in {"run", "kernel"}
        BY <1>1, <2>6 DEF StartKernel, FinishKernel, FailKernel, Goto
      <3> QED
        BY <1>1, <1>4, <2>1, <3>1 DEF barrierVars
    <2>7. CASE EndTask(t)
      <3>1. UNCHANGED <<task, barrierVars>> /\ wpc[t] = "run" /\ wpc'[t] = "checkGo"
            /\ ran'[t] = ran[t] + 1
        BY <1>1, <2>7 DEF EndTask, Goto
      <3> QED
        BY <1>1, <1>4, <2>1, <3>1 DEF barrierVars
    <2> QED
      BY <1>8, <2>2, <2>3, <2>4, <2>5, <2>6, <2>7 DEF Worker
  <1> QED
    BY <1>5, <1>6, <1>7, <1>8 DEF Next, Over, vars

\* The theorems of SpinBarrier, of the barrier that the runtime uses.
BP == INSTANCE SpinBarrierProofs WITH
  Threads  <- Cores,
  MaxSyncs <- MaxSyncs,
  syncs    <- [t \in Cores |-> SyncsOf(Program(scenario, t))]

\* The constants are what SpinBarrier assumes of them.
LEMMA BarrierAssumptions ==
  /\ IsFiniteSet(Cores) /\ Cores # {} /\ MaxSyncs \in Nat \ {0}
  /\ BP!MAX_THREADS = Barrier!MAX_THREADS
  <1>1. IsFiniteSet(Cores) /\ Cores # {} /\ MaxSyncs \in Nat \ {0}
    BY CoresAssumption, SyncsAssumption
  <1>2. BP!MAX_THREADS = Barrier!MAX_THREADS
    BY DEF BP!MAX_THREADS, Barrier!MAX_THREADS, BP!Cardinality, Barrier!Cardinality,
       Cardinality,
       BP!IsFiniteSet, Barrier!IsFiniteSet, IsFiniteSet
  <1> QED
    BY <1>1, <1>2

\* OneMeeting says the same of both instances of the barrier ...
LEMMA OneMeetingSame == Barrier!OneMeeting <=> BP!OneMeeting
  <1> QED
    BY BarrierAssumptions
    DEF BP!OneMeeting, BP!TypeOK, BP!Slots, BP!Gathering, BP!Releasing, BP!Labels,
       BP!ReleaseLabels, BP!Counted, BP!WithinBudget,
       Barrier!OneMeeting, Barrier!TypeOK, Barrier!Slots, Barrier!Gathering, Barrier!Releasing, Barrier!Labels,
       Barrier!ReleaseLabels, Barrier!Counted, Barrier!WithinBudget,
       BP!Cardinality, Barrier!Cardinality, BP!IsFiniteSet, Barrier!IsFiniteSet, Cardinality, IsFiniteSet

\* ... and so do their steps.
LEMMA BarrierNextSame == [Barrier!Next]_(Barrier!vars) => [BP!Next]_(BP!vars)
  <1> USE DEF Barrier!Goto, BP!Goto
  <1>1. ASSUME NEW t \in Cores, Barrier!StartSyncTask(t) PROVE BP!StartSyncTask(t)
    BY <1>1 DEF Barrier!StartSyncTask, BP!StartSyncTask, Barrier!LoadCurrent, BP!LoadCurrent
  <1>2. ASSUME NEW t \in Cores, Barrier!Arrive(t) PROVE BP!Arrive(t)
    BY <1>2, BarrierAssumptions DEF Barrier!Arrive, BP!Arrive
  <1>3. ASSUME NEW t \in Cores, Barrier!Inside(t), ~ Barrier!Arrive(t) PROVE BP!Inside(t)
    BY <1>3 DEF Barrier!Inside, BP!Inside, Barrier!Flip, BP!Flip, Barrier!ClearThere,
       BP!ClearThere,
       Barrier!ClearGo, BP!ClearGo, Barrier!Open, BP!Open, Barrier!LeaveSpin, BP!LeaveSpin
  <1>4. Barrier!vars = BP!vars /\ (UNCHANGED Barrier!vars => UNCHANGED BP!vars)
    BY DEF Barrier!vars, BP!vars, Barrier!barrierVars, BP!barrierVars
  <1>5. ASSUME NEW t \in Cores, Barrier!StartSyncTask(t) \/ Barrier!Inside(t)
        PROVE  BP!StartSyncTask(t) \/ BP!Inside(t)
    BY <1>1, <1>2, <1>3, <1>5 DEF BP!Inside
  <1>6. Barrier!Next => BP!Next
    BY <1>5 DEF Barrier!Next, BP!Next
  <1> QED
    BY <1>4, <1>6

\* Every step of the runtime keeps the barrier in one meeting.
LEMMA OneMeetingStep ==
  ASSUME Consistent, [Next]_vars
  PROVE  Barrier!OneMeeting'
  <1>1. [BP!Next]_(BP!vars)
    BY BarrierStep, BarrierNextSame
  <1>2. BP!OneMeeting
    BY OneMeetingSame DEF Consistent
  <1>3. BP!OneMeeting'
    BY <1>1, <1>2, BP!MeetingStep, BarrierAssumptions DEF IsFiniteSet, BP!IsFiniteSet
  <1> QED
    BY <1>3, OneMeetingSame, PTL

-------------------------------------------------------------------------------
(* The rounds of the repeat loop, and what is recorded of them. *)

\* No rounds, no records.
LEMMA RunsAmongNone == ASSUME NEW P PROVE RunsAmong(P, {}) = <<>>
  <1>1. {p \in {} : Measured(P[p[1]])} = {}
    OBVIOUS
  <1>2. Listed({}, RoundOrder(P)) = <<>>
    BY FS_EmptySet DEF Listed
  <1>3. [k \in DOMAIN <<>> |-> P[<<>>[k][1]].name] = <<>>
    OBVIOUS
  <1> QED
    BY <1>1, <1>2, <1>3 DEF RunsAmong

\* A round that comes after all the others is recorded last, if it is measured
\* at all.
LEMMA RunsAmongNext ==
  ASSUME NEW P, IsTaskList(P), NEW R, R \subseteq RoundsOf(P), NEW x \in RoundsOf(P), x \notin R,
         \A y \in R : NotAfter(y, x) /\ ~ NotAfter(x, y)
  PROVE  RunsAmong(P, R \cup {x}) = IF Measured(P[x[1]])
                                    THEN Append(RunsAmong(P, R), P[x[1]].name)
                                    ELSE RunsAmong(P, R)
  <1> DEFINE M(Q) == {p \in Q : Measured(P[p[1]])}
             O == RoundOrder(P)
             L == Listed(M(R), O)
             N(l) == [k \in DOMAIN l |-> P[l[k][1]].name]
  <1>1. CASE ~ Measured(P[x[1]])
    <2>1. M(R \cup {x}) = M(R)
      BY <1>1
    <2> QED
      BY <1>1, <2>1 DEF RunsAmong
  <1>2. CASE Measured(P[x[1]])
    <2> DEFINE S == M(R)
    <2>1. M(R \cup {x}) = S \cup {x} /\ x \notin S /\ S \in SUBSET RoundsOf(P)
      BY <1>2
    <2>2. IsFiniteSet(S)
      <3> HIDE DEF S
      <3> QED
        BY <2>1, RoundsType, FS_Subset
    <2>3. NotAfter(x, x)
      BY RoundsType DEF NotAfter
    <2>4. (\A y \in S : <<y, x>> \in O /\ <<x, y>> \notin O) /\ <<x, x>> \in O
      BY <2>1, <2>3 DEF RoundOrder
    <2>5. Listed(S \cup {x}, O) = Append(Listed(S, O), x)
      <3> HIDE DEF S, O
      <3> QED
        BY <2>1, <2>2, <2>4, ListingExtended
    <2>6. L \in Seq(Elements(L))
      BY <2>2, ListingSeq
    <2> HIDE DEF L
    <2> DEFINE c == Len(L) e == P[x[1]].name E == Elements(N(L)) \cup {e}
    <2>7. c \in Nat /\ DOMAIN L = 1 .. c /\ DOMAIN Append(L, x) = 1 .. c + 1
          /\ \A k \in 1 .. c + 1 : Append(L, x)[k] = IF k = c + 1 THEN x ELSE L[k]
      BY <2>6
    <2>8. N(L) \in [1 .. c -> E] /\ e \in E
      BY <2>7 DEF Elements
    <2>9. N(Append(L, x)) = [k \in 1 .. c + 1 |-> IF k = c + 1 THEN e ELSE N(L)[k]]
      BY <2>7
    <2>10. RunsAmong(P, R \cup {x}) = N(Append(L, x)) /\ RunsAmong(P, R) = N(L)
      BY <2>1, <2>5 DEF RunsAmong, L
    <2> DEFINE f == N(L) g == N(Append(L, x))
    <2> HIDE DEF f, g, e, c, E
    <2>11. f \in Seq(E) /\ Len(f) = c
      BY <2>7, <2>8 DEF f
    <2>12. g = Append(f, e)
      <3>1. g = [k \in 1 .. c + 1 |-> IF k = c + 1 THEN e ELSE f[k]] /\ e \in E
        BY <2>8, <2>9 DEF f, g
      <3> QED
        <4>1. c \in Nat
          BY <2>7
        <4>2. Append(f, e) = [k \in 1 .. c + 1 |-> IF k = c + 1 THEN e ELSE f[k]]
          <5>1. f = [k \in 1 .. c |-> f[k]]
            BY <2>11, <4>1
          <5> QED
            BY <2>11, <3>1, <4>1, <5>1
        <4> QED
          BY <3>1, <4>2
    <2> QED
      BY <1>2, <2>10, <2>12 DEF f, g, e
  <1> QED
    BY <1>1, <1>2

\* A core's list is one whose rounds can be counted.
LEMMA ProgramIsTaskList ==
  ASSUME NEW s \in Scenarios, NEW t \in Cores PROVE IsTaskList(Program(s, t))
  <1> QED
    BY ProgramFacts DEF IsTaskList

\* While watchers are still missing, workers have no task but start_sync, which
\* no watcher is told of.
LEMMA WatchedFromPlaces == Consistent => NoUnwatchedRun
  <1> SUFFICES ASSUME Consistent, NEW t \in Cores, wpc[t] = "kernel", Measured(task[t])
               PROVE  watchers[t] = NumWatchers
    BY DEF NoUnwatchedRun
  <1>1. TypeOK /\ MainPlace /\ WatchPlace /\ QueuePlace(t) /\ ran[t] \in Nat
        /\ scenario \in Scenarios
    BY DEF Consistent, TypeOK
  <1>2. mpc \notin {"spawn", "watch"}
    <2> SUFFICES ASSUME mpc \in {"spawn", "watch"} PROVE FALSE
      OBVIOUS
    <2>1. Given(t) = 0
      BY <1>1 DEF MainPlace, Given
    <2>2. Submitted(t) = <<StartSync>>
      BY <2>1, TasksOfNone DEF Submitted
    <2>3. Taken(t) = ran[t] + 1 /\ Taken(t) <= 1 /\ task[t] = Submitted(t)[Taken(t)]
      BY <1>1, <2>2, TakenFacts DEF QueuePlace, Busy
    <2>4. task[t] = StartSync
      BY <1>1, <2>2, <2>3
    <2> QED
      BY <2>4 DEF StartSync, Task, Measured, Unmeasured
  <1> QED
    BY <1>1, <1>2 DEF WatchPlace

\* Every step keeps the records what has run: the end of a kernel adds one
\* round to the rounds done and its name to every record, and the end of a task
\* turns its rounds into those of a task done.
LEMMA RecordPlaceStep ==
  ASSUME Consistent, [Next]_vars, NEW t \in Cores
  PROVE  RecordPlace(t)'
  <1> DEFINE P == Program(scenario, t) D == RoundsDone(t)
  <1>1. /\ TypeOK /\ StopPlace(t) /\ RecordPlace(t) /\ ran[t] \in Nat
           /\ iteration[t] \in Nat
        /\ wpc \in [Cores -> WorkerLabels] /\ task \in [Cores -> AllTasks]
        /\ ran \in [Cores -> Nat] /\ iteration \in [Cores -> Nat] /\ scenario \in Scenarios
        /\ samples \in [Cores -> [1 .. NumWatchers -> Seq({tk.name : tk \in AllTasks})]]
    BY DEF Consistent, TypeOK
  <1>2. IsTaskList(P)
    BY <1>1, ProgramIsTaskList
  <1>3. \A p \in RoundsOf(P) : p[1] \in Nat /\ p[2] \in Nat /\ p[2] >= 1
        /\ p[2] <= P[p[1]].repeat
    BY <1>2, RoundsType
  <1>4. D = {p \in RoundsOf(P) :
               p[1] <= ran[t] \/ (Busy(t) /\ p[1] = ran[t] + 1 /\ p[2] <= iteration[t])}
    BY DEF RoundsDone
  <1>5. scenario' = scenario =>
          D' = {p \in RoundsOf(P) :
                  p[1] <= ran'[t] \/ (Busy(t)' /\ p[1] = ran'[t] + 1
                  /\ p[2] <= iteration'[t])}
    BY DEF RoundsDone
  <1> HIDE DEF D
  <1>6. ASSUME scenario' = scenario, D' = D, samples'[t] = samples[t],
               wpc'[t] \in {"sync", "barrier"} => iteration'[t] = 0,
               wpc'[t] = "kernel" => iteration'[t] < task'[t].repeat
        PROVE  RecordPlace(t)'
    BY <1>1, <1>6 DEF RecordPlace, D
  <1>7. ASSUME scenario' = scenario, samples'[t] = samples[t], ran'[t] = ran[t],
               Busy(t)' = Busy(t), iteration'[t] = iteration[t], task'[t] = task[t],
               wpc'[t] \in {"sync", "barrier"} => wpc[t] \in {"sync", "barrier"},
               wpc'[t] = "kernel" => wpc[t] = "kernel" \/ iteration[t] < task[t].repeat
        PROVE  RecordPlace(t)'
    <2>1. D' = D
      BY <1>4, <1>5, <1>7
    <2> QED
      BY <1>1, <1>6, <1>7, <2>1 DEF RecordPlace
  <1>8. CASE UNCHANGED <<scenario, workerVars, samples>>
    BY <1>7, <1>8 DEF workerVars, Busy
  <1>9. CASE Main
    <2>1. UNCHANGED <<scenario, task, iteration, ran, samples>>
      BY <1>9, MainFrame
    <2>2. ASSUME NEW c \in Cores, Spawn(c) PROVE RecordPlace(t)'
      <3>1. mpc = "spawn" /\ c \in todo
        BY <2>2 DEF Spawn, Visit, IsNext
      <3>2. wpc'[t] = wpc[t] \/ (wpc[t] = "unborn" /\ wpc'[t] = "checkGo")
        BY <1>1, <2>2, <3>1 DEF Spawn, StopPlace
      <3> QED
        BY <1>7, <2>1, <3>2 DEF Busy
    <2>3. UNCHANGED wpc => RecordPlace(t)'
      BY <1>8, <2>1 DEF workerVars
    <2> QED
      BY <1>9, <2>2, <2>3
      DEF Main, AddWatcher, FailWatcher, TakeAction, RunLock, RunPush, CallDone, ClearThreadGo, Join,
          Report, workerVars
  <1>10. ASSUME NEW u \in Cores, Worker(u), u # t PROVE RecordPlace(t)'
    <2>1. /\ scenario' = scenario /\ wpc'[t] = wpc[t] /\ task'[t] = task[t]
             /\ ran'[t] = ran[t]
          /\ iteration'[t] = iteration[t] /\ samples'[t] = samples[t]
      BY <1>1, <1>10, WorkerFrame
    <2> QED
      BY <1>7, <2>1 DEF Busy
  <1>11. CASE Worker(t)
    <2>1. scenario' = scenario
      BY <1>11 DEF Worker
    <2>2. CASE LoadGo(t) \/ Drain(t) \/ TestQueue(t) \/ LockQueue(t)
      BY <1>1, <1>7, <2>1, <2>2
      DEF LoadGo, Drain, TestQueue, LockQueue, Goto, Busy, WorkerLabels
    <2>3. CASE EnterBarrier(t) \/ InBarrier(t)
      BY <1>1, <1>7, <2>1, <2>3 DEF EnterBarrier, InBarrier, Goto, Busy, WorkerLabels
    <2>4. CASE StartKernel(t) \/ FailKernel(t)
      BY <1>1, <1>7, <2>1, <2>4 DEF StartKernel, FailKernel, Goto, Busy, WorkerLabels
    <2>5. CASE PopTask(t)
      <3>1. /\ ~ Busy(t) /\ UNCHANGED <<ran, samples>> /\ iteration'[t] = 0
            /\ wpc'[t] \in {"sync", "run"}
        BY <1>1, <2>5 DEF PopTask, Goto, Busy
      <3>2. D' = D
        BY <1>3, <1>4, <1>5, <2>1, <3>1
      <3> QED
        BY <1>6, <2>1, <3>1, <3>2
    <2>6. CASE EndTask(t)
      <3>1. /\ Busy(t) /\ ~ Busy(t)' /\ ran'[t] = ran[t] + 1 /\ UNCHANGED samples
            /\ wpc'[t] = "checkGo" /\ iteration[t] >= task[t].repeat
        BY <1>1, <2>6 DEF EndTask, Goto, Busy
      <3>2. task[t] = P[ran[t] + 1] /\ task[t].repeat \in Int
        BY <3>1, TaskFacts DEF IsTask
      <3>3. D' = D
        BY <1>1, <1>3, <1>4, <1>5, <2>1, <3>1, <3>2
      <3> QED
        BY <1>6, <2>1, <3>1, <3>3
    <2>7. CASE FinishKernel(t)
      <3> DEFINE x == <<ran[t] + 1, iteration[t] + 1>>
      <3>1. /\ wpc[t] = "kernel" /\ Busy(t) /\ Busy(t)' /\ ran' = ran /\ task' = task
            /\ wpc'[t] = "run" /\ iteration'[t] = iteration[t] + 1
        BY <1>1, <2>7 DEF FinishKernel, Goto, Busy
      <3>2. task[t] = P[ran[t] + 1] /\ task[t].repeat \in Int /\ ran[t] + 1 \in 1 .. Len(P)
        BY <3>1, TaskFacts DEF IsTask
      <3>3. iteration[t] + 1 \in 1 .. task[t].repeat
        BY <1>1, <3>1, <3>2 DEF RecordPlace
      <3>4. x \in RoundsOf(P)
        BY <1>2, <3>2, <3>3, RoundsType
      <3>5. x \notin D /\ D \subseteq RoundsOf(P) /\ \A y \in D : NotAfter(y, x)
            /\ ~ NotAfter(x, y)
        BY <1>1, <1>3, <1>4, <3>1 DEF NotAfter
      <3>6. D' = D \cup {x}
        <4>1. \A p \in RoundsOf(P) : p = <<p[1], p[2]>>
          BY <1>2, RoundsType
        <4>2. \A p \in RoundsOf(P) : p = x <=> p[1] = ran[t] + 1 /\ p[2] = iteration[t] + 1
          BY <4>1
        <4>3. D' = {p \in RoundsOf(P) : p[1] <= ran[t] \/ (p[1] = ran[t] + 1
              /\ p[2] <= iteration[t] + 1)}
          BY <1>5, <2>1, <3>1
        <4>4. D = {p \in RoundsOf(P) : p[1] <= ran[t] \/ (p[1] = ran[t] + 1
              /\ p[2] <= iteration[t])}
          BY <1>4, <3>1
        <4> HIDE DEF x
        <4>5. ASSUME NEW p \in RoundsOf(P) PROVE p \in D' <=> p \in D \/ p = x
          BY <1>1, <1>3, <4>2, <4>3, <4>4, <4>5
        <4>6. D' \subseteq RoundsOf(P) /\ D \subseteq RoundsOf(P)
          BY <4>3, <4>4
        <4> QED
          BY <3>4, <4>5, <4>6
      <3>7. RunsAmong(P, D') = IF Measured(task[t]) THEN Append(RunsAmong(P, D), task[t].name)
                                                    ELSE RunsAmong(P, D)
        BY <1>2, <3>2, <3>4, <3>5, <3>6, RunsAmongNext
      <3>8. ASSUME NEW w \in 1 .. NumWatchers PROVE samples'[t][w] = RunsAmong(P, D')
        <4>1. samples[t][w] = RunsAmong(P, D)
          BY <1>1 DEF RecordPlace, D
        <4>2. CASE Measured(task[t])
          <5>1. watchers[t] = NumWatchers
            BY <3>1, <4>2, WatchedFromPlaces DEF NoUnwatchedRun
          <5>2. samples'[t][w] = Append(samples[t][w], task[t].name)
            BY <1>1, <2>7, <4>2, <5>1, WatchersAssumption DEF FinishKernel
          <5> QED
            BY <3>7, <4>1, <4>2, <5>2
        <4>3. CASE ~ Measured(task[t])
          BY <2>7, <3>7, <4>1, <4>3 DEF FinishKernel
        <4> QED
          BY <4>2, <4>3
      <3> QED
        BY <2>1, <3>1, <3>8 DEF RecordPlace, D
    <2> QED
      BY <1>11, <2>2, <2>3, <2>4, <2>5, <2>6, <2>7 DEF Worker
  <1> QED
    BY <1>8, <1>9, <1>10, <1>11 DEF Next, Over, vars, watchVars

-------------------------------------------------------------------------------
(* The inductive invariant. *)

\* The barrier starts in one meeting.
LEMMA MeetingAtStart == Init => Barrier!OneMeeting
  <1> SUFFICES ASSUME Init PROVE Barrier!OneMeeting
    OBVIOUS
  <1>1. ASSUME NEW t \in Cores PROVE SyncsOf(Program(scenario, t)) \in 1 .. MaxSyncs
    <2> DEFINE P == Program(scenario, t)
    <2>1. Len(P) \in Nat \ {0} /\ P[1] = StartSync /\ scenario \in Scenarios
      BY ProgramFacts DEF Init
    <2>2. SyncsWithin(P, 0 + 1) = SyncsWithin(P, 0) + (IF P[0 + 1].sync THEN 1 ELSE 0)
          /\ SyncsWithin(P, 0) \in Nat
      BY SyncsNext, SyncsType
    <2>3. P[0 + 1].sync
      BY <2>1 DEF StartSync, Task
    <2>4. SyncsWithin(P, 1) >= 1 /\ SyncsWithin(P, 1) \in Nat
      BY <2>2, <2>3
    <2>5. SyncsWithin(P, 1) <= SyncsWithin(P, Len(P)) /\ SyncsWithin(P, Len(P)) \in Nat
      BY <2>1, SyncsMonotone, SyncsType
    <2>6. SyncsOf(P) <= MaxSyncs /\ MaxSyncs \in Nat
      BY <2>1, SyncsAssumption
    <2> QED
      BY <2>4, <2>5, <2>6 DEF SyncsOf
  <1>2. BP!Init
    BY <1>1 DEF Init, BP!Init, BP!BarrierInit, BP!Slots, Barrier!BarrierInit, Barrier!Slots
  <1>3. BP!OneMeeting
    BY <1>2, BP!MeetingInit, BarrierAssumptions DEF IsFiniteSet, BP!IsFiniteSet
  <1> QED
    BY <1>3, OneMeetingSame

\* The first state is consistent.
LEMMA ConsistentInit == Init => Consistent
  <1> SUFFICES ASSUME Init PROVE Consistent
    OBVIOUS
  <1>2. MainPlace
    BY CoresAssumption DEF Init, MainPlace
  <1>3. WatchPlace
    <2>1. 0 \in 0 .. NumWatchers
      BY WatchersAssumption
    <2> QED
      BY <2>1 DEF Init, WatchPlace
  <1>4. ASSUME NEW t \in Cores
        PROVE  QueuePlace(t) /\ LockPlace(t) /\ StopPlace(t) /\ BarrierPlace(t)
               /\ RecordPlace(t)
    <2> DEFINE P == Program(scenario, t)
    <2>1. QueuePlace(t)
      <3>1. Submitted(t) = <<StartSync>>
        BY TasksOfNone DEF Init, Submitted, Given
      <3>2. ~ Busy(t) /\ Taken(t) = 0
        BY DEF Init, Busy, Taken, InHand
      <3>3. q[t] = <<StartSync>> /\ Len(<<StartSync>>) = 1
        BY DEF Init
      <3>4. SubSeq(<<StartSync>>, 1, Len(<<StartSync>>)) = <<StartSync>>
        <4>1. <<StartSync>> \in Seq({StartSync})
          OBVIOUS
        <4> QED
          BY <4>1, SubSeqFull
      <3> QED
        BY <3>1, <3>2, <3>3, <3>4 DEF QueuePlace
    <2>2. LockPlace(t) /\ StopPlace(t)
      BY DEF Init, LockPlace, StopPlace
    <2>3. BarrierPlace(t)
      <3>1. SyncsWithin(P, 0) = 0
        BY SyncsType
      <3> QED
        BY <3>1 DEF Init, Barrier!BarrierInit, BarrierPlace
    <2>4. RecordPlace(t)
      <3>1. scenario \in Scenarios
        BY DEF Init
      <3>2. \A p \in RoundsOf(P) : ~ p[1] <= 0
        BY <3>1, ProgramIsTaskList, RoundsType DEF IsTaskList
      <3>3. RoundsDone(t) = {}
        BY <3>2 DEF Init, RoundsDone, Busy
      <3> QED
        BY <3>3, RunsAmongNone DEF Init, RecordPlace
    <2> QED
      BY <2>1, <2>2, <2>3, <2>4
  <1> QED
    BY TypeInit, <1>2, <1>3, <1>4, MeetingAtStart DEF Consistent

\* Every step keeps it so.
LEMMA ConsistentStep == Consistent /\ [Next]_vars => Consistent'
  <1> SUFFICES ASSUME Consistent, [Next]_vars PROVE Consistent'
    OBVIOUS
  <1>1. ASSUME NEW t \in Cores
        PROVE  (QueuePlace(t) /\ LockPlace(t) /\ StopPlace(t) /\ BarrierPlace(t)
               /\ RecordPlace(t))'
    BY QueuePlaceStep, LockPlaceStep, StopPlaceStep, BarrierPlaceStep, RecordPlaceStep
  <1> QED
    BY <1>1, TypeStep, MainPlaceStep, WatchPlaceStep, OneMeetingStep DEF Consistent

(* Main, the queues, the locks, the workers, the watchers and the barrier  *)
(* stay consistent in every scenario.                                      *)
THEOREM RuntimeInvariant == Spec => []Consistent
  BY ConsistentInit, ConsistentStep, PTL DEF Spec

-------------------------------------------------------------------------------
(* What it is for. *)

(* Every variable keeps its type, for any scenarios, cores and watchers.   *)
THEOREM TypeCorrect == Spec => []TypeOK
  <1>1. Consistent => TypeOK
    BY DEF Consistent
  <1> QED
    BY <1>1, RuntimeInvariant, PTL

(* front() and pop_front() of Runtime::work never meet an empty queue,     *)
(* though the test before them is made without the lock.                   *)
THEOREM NeverPopsEmpty == Spec => []PopNonEmpty
  <1>1. Consistent => PopNonEmpty
    BY DEF Consistent, LockPlace, PopNonEmpty
  <1> QED
    BY <1>1, RuntimeInvariant, PTL

(* addWatcher never changes the list of watchers while a worker is         *)
(* measuring, though nothing keeps them from running side by side.         *)
THEOREM AllRunsWatched == Spec => []NoUnwatchedRun
  BY WatchedFromPlaces, RuntimeInvariant, PTL

(* No task is lost, doubled or out of order between main's run and the     *)
(* worker that takes it.                                                   *)
THEOREM TasksInOrder == Spec => []TasksConserved
  <1>1. ASSUME Consistent, NEW t \in Cores
        PROVE  Submitted(t) = SubSeq(Submitted(t), 1, ran[t]) \o InHand(t) \o q[t]
    <2> DEFINE S == Submitted(t) n == Taken(t)
    <2>1. /\ S \in Seq(AllTasks) /\ Len(S) \in Nat /\ n \in Nat /\ n <= Len(S)
             /\ ran[t] \in Nat
          /\ q[t] = SubSeq(S, n + 1, Len(S))
          /\ n = (IF Busy(t) THEN ran[t] + 1 ELSE ran[t])
          /\ Busy(t) => task[t] = S[n]
      <3>1. TypeOK /\ MainPlace /\ QueuePlace(t) /\ ran[t] \in Nat
        BY <1>1 DEF Consistent, TypeOK
      <3> QED
        BY <3>1, SubmittedFacts, TakenFacts DEF QueuePlace
    <2> HIDE DEF S, n
    <2>2. SubSeq(S, 1, n) \o SubSeq(S, n + 1, Len(S)) = SubSeq(S, 1, Len(S))
      <3>1. 1 \in 1 .. Len(S) + 1 /\ n \in 1 - 1 .. Len(S) /\ Len(S) \in n .. Len(S)
        BY <2>1
      <3> QED
        BY <2>1, <3>1, ConcatAdjacentSubSeq
    <2>3. SubSeq(S, 1, Len(S)) = S
      BY <2>1, SubSeqFull
    <2>4. SubSeq(S, 1, ran[t]) \o InHand(t) = SubSeq(S, 1, n)
      <3>1. CASE Busy(t)
        <4>1. n \in 1 .. Len(S) /\ 1 \in 1 .. Len(S) /\ n - 1 = ran[t] /\ S[n] = task[t]
          BY <2>1, <3>1
        <4>2. SubSeq(S, 1, n) = SubSeq(S, 1, n - 1) \o <<S[n]>>
          BY <2>1, <4>1, SubSeqRecursiveSecond
        <4> QED
          BY <3>1, <4>1, <4>2 DEF InHand
      <3>2. CASE ~ Busy(t)
        <4>1. SubSeq(S, 1, n) \in Seq(AllTasks) /\ n = ran[t]
          <5>1. \A i \in 1 .. n : S[i] \in AllTasks
            BY <2>1
          <5> QED
            BY <2>1, <3>2, <5>1, SubSeqProperties
        <4>2. SubSeq(S, 1, n) \o <<>> = SubSeq(S, 1, n)
          BY <4>1, ConcatEmptySeq
        <4> QED
          BY <3>2, <4>1, <4>2 DEF InHand
      <3> QED
        BY <3>1, <3>2
    <2> QED
      BY <2>1, <2>2, <2>3, <2>4 DEF S
  <1>2. Consistent => TasksConserved
    BY <1>1 DEF TasksConserved
  <1> QED
    BY <1>2, RuntimeInvariant, PTL

\* A worker that has left is done with its list.
LEMMA ExitedIsDone ==
  ASSUME Consistent, NEW t \in Cores, wpc[t] = "exited"
  PROVE  ran[t] = Len(Program(scenario, t))
  <1>1. /\ TypeOK /\ MainPlace /\ QueuePlace(t) /\ StopPlace(t)
        /\ q[t] = <<>> /\ mpc \in {"clear", "join", "report"} /\ next = Len(scenario) + 1
        /\ ~ Busy(t)
    BY DEF Consistent, StopPlace, MainPlace, Busy
  <1>2. Submitted(t) = Program(scenario, t)
    BY <1>1, AllSubmitted
  <1> DEFINE S == Submitted(t) n == Taken(t)
  <1>3. /\ S \in Seq(AllTasks) /\ Len(S) \in Nat /\ n = ran[t] /\ n \in 0 .. Len(S)
        /\ q[t] = SubSeq(S, n + 1, Len(S))
    BY <1>1, SubmittedFacts, TakenFacts DEF QueuePlace
  <1> HIDE DEF S, n
  <1>4. n = Len(S)
    <2>1. Len(SubSeq(S, n + 1, Len(S))) = 0
      BY <1>1, <1>3
    <2>2. Len(SubSeq(S, n + 1, Len(S))) = Len(S) - n
      BY <1>3
    <2> QED
      BY <1>3, <2>1, <2>2
  <1> QED
    BY <1>2, <1>3, <1>4 DEF S

\* When main is about to report, every worker has left.
LEMMA AllRanAtReport ==
  ASSUME Consistent, mpc = "report", NEW t \in Cores
  PROVE  ran[t] = Len(Program(scenario, t)) /\ wpc[t] = "exited"
  <1>1. wpc[t] = "exited"
    BY DEF Consistent, StopPlace
  <1> QED
    BY <1>1, ExitedIsDone

(* done() gets past its joins only when every task of the scenario has     *)
(* run.                                                                    *)
THEOREM AllTasksRun == Spec => []NoTaskLost
  <1>1. Consistent => NoTaskLost
    BY AllRanAtReport DEF NoTaskLost
  <1> QED
    BY <1>1, RuntimeInvariant, PTL

(* Every watcher's record is complete, and in order, when done() reads it. *)
THEOREM ReportsAreComplete == Spec => []ReportComplete
  <1>1. ASSUME Consistent, mpc = "report", NEW t \in Cores, NEW w \in 1 .. NumWatchers
        PROVE  samples[t][w] = Runs(Program(scenario, t))
    <2> DEFINE P == Program(scenario, t)
    <2>1. ran[t] = Len(P) /\ IsTaskList(P)
      <3>1. scenario \in Scenarios
        BY <1>1 DEF Consistent, TypeOK
      <3> QED
        BY <1>1, <3>1, AllRanAtReport, ProgramIsTaskList
    <2>2. \A p \in RoundsOf(P) : p[1] <= ran[t]
      BY <2>1, RoundsType DEF IsTaskList
    <2>3. RoundsDone(t) = RoundsOf(P)
      BY <2>2 DEF RoundsDone
    <2> QED
      BY <1>1, <2>3 DEF Consistent, RecordPlace, Runs
  <1>2. Consistent => ReportComplete
    BY <1>1 DEF ReportComplete
  <1> QED
    BY <1>2, RuntimeInvariant, PTL

\* Nobody has passed a meeting that somebody has not come to, and nobody comes
\* to more of them than it has sync tasks.
LEMMA MeetingFacts ==
  ASSUME Consistent, NEW t \in Cores, NEW u \in Cores
  PROVE  /\ passed[t] \in Nat /\ arrived[u] \in Nat
         /\ passed[t] <= arrived[u]
         /\ arrived[u] <= SyncsOf(Program(scenario, u))
  <1>1. BP!OneMeeting
    BY OneMeetingSame DEF Consistent
  <1>2. BP!NoEarlyPass
    BY <1>1, BP!NoEarlyPassFromMeeting, BarrierAssumptions DEF IsFiniteSet, BP!IsFiniteSet
  <1>3. passed \in [Cores -> Nat] /\ arrived \in [Cores -> Nat]
    BY DEF Consistent, Barrier!OneMeeting, Barrier!TypeOK
  <1>4. SyncsOf(Program(scenario, u)) \in Nat
    <2>1. Len(Program(scenario, u)) \in Nat
      BY ProgramFacts DEF Consistent, TypeOK
    <2> QED
      BY <2>1, SyncsType DEF SyncsOf
  <1>5. arrived[u] + (IF bpc[u] = "arrive" THEN 1 ELSE 0) <= SyncsOf(Program(scenario, u))
    BY DEF Consistent, Barrier!OneMeeting, Barrier!WithinBudget
  <1>6. arrived[u] <= SyncsOf(Program(scenario, u))
    BY <1>3, <1>4, <1>5
  <1> QED
    BY <1>2, <1>3, <1>6 DEF BP!NoEarlyPass

\* The same in the words of SpinBarrier.
LEMMA EarlyPassNever == Consistent => BP!NoEarlyPass
  <1> QED
    BY MeetingFacts DEF BP!NoEarlyPass

\* No worker has come to more meetings than its tasks so far, and the next,
\* have.
LEMMA ArrivedBound ==
  ASSUME Consistent, NEW u \in Cores
  PROVE  arrived[u] <= SyncsWithin(Program(scenario, u), ran[u] + 1)
  <1> DEFINE P == Program(scenario, u)
  <1>0. /\ BarrierPlace(u) /\ ran[u] \in Nat /\ passed[u] \in Nat /\ arrived[u] \in Nat
    BY MeetingFacts DEF Consistent, TypeOK
  <1>1. /\ SyncsWithin(P, ran[u]) <= SyncsWithin(P, ran[u] + 1)
        /\ SyncsWithin(P, ran[u]) \in Nat /\ SyncsWithin(P, ran[u] + 1) \in Nat
    BY <1>0, SyncsMonotone, SyncsType
  <1>2. CASE bpc[u] \in {"out", "arrive"}
    <2>1. arrived[u] = passed[u] + 0
      BY <1>0, <1>2 DEF BarrierPlace
    <2>2. passed[u] = SyncsWithin(P, ran[u] + 1) \/ passed[u] = SyncsWithin(P, ran[u] + 0)
      BY <1>0 DEF BarrierPlace
    <2> QED
      BY <1>0, <1>1, <2>1, <2>2
  <1>3. CASE bpc[u] \notin {"out", "arrive"}
    <2>1. wpc[u] = "barrier" /\ task[u].sync /\ passed[u] = SyncsWithin(P, ran[u] + 0)
          /\ arrived[u] = passed[u] + 1
      BY <1>0, <1>3 DEF BarrierPlace
    <2>2. P[ran[u] + 1].sync
      BY <2>1, TaskFacts DEF Busy
    <2>3. SyncsWithin(P, ran[u] + 1) = SyncsWithin(P, ran[u]) + 1
      BY <1>0, <2>2, SyncsNext
    <2> QED
      BY <1>0, <1>1, <2>1, <2>3
  <1> QED
    BY <1>2, <1>3

(* A worker past its k-th sync task finds all that any core was to do      *)
(* before its own k-th one done: what the barrier is in the code for.      *)
THEOREM DataHandedOff == Spec => []HandOff
  <1>1. ASSUME Consistent, NEW t \in Cores, NEW u \in Cores
        PROVE  ran[u] >= BeforeSync(Program(scenario, u), passed[t])
    <2> DEFINE P == Program(scenario, u)
    <2>1. /\ TypeOK /\ BarrierPlace(u) /\ ran[u] \in Nat
          /\ passed[t] \in Nat /\ passed[t] <= arrived[u] /\ arrived[u] \in Nat
          /\ passed[u] \in Nat
      BY <1>1, MeetingFacts DEF Consistent, TypeOK
    <2>2. DOMAIN P = 1 .. Len(P) /\ Len(P) \in Nat
      BY <2>1, ProgramFacts DEF TypeOK
    <2>3. arrived[u] <= SyncsWithin(P, ran[u] + 1) /\ SyncsWithin(P, ran[u] + 1) \in Nat
      BY <1>1, <2>1, ArrivedBound, SyncsType
    <2>4. ASSUME NEW i \in DOMAIN P, i > ran[u] PROVE SyncsWithin(P, i) >= passed[t]
      <3>1. i \in Nat /\ ran[u] + 1 \in 0 .. i
        BY <2>1, <2>2, <2>4
      <3>2. SyncsWithin(P, ran[u] + 1) <= SyncsWithin(P, i) /\ SyncsWithin(P, i) \in Nat
        BY <3>1, SyncsMonotone, SyncsType
      <3> QED
        BY <2>1, <2>3, <3>2
    <2>5. BeforeSync(P, passed[t]) <= ran[u]
      BY <2>1, <2>2, <2>4, BeforeSyncBound
    <2>6. BeforeSync(P, passed[t]) \in Nat
      <3>1. {i \in DOMAIN P : SyncsWithin(P, i) < passed[t]} \in SUBSET (1 .. Len(P))
        BY <2>2
      <3>2. IsFiniteSet(1 .. Len(P))
        BY <2>2, FS_Interval
      <3> QED
        BY <3>1, <3>2, FS_Subset, FS_CardinalityType DEF BeforeSync
    <2> QED
      BY <2>1, <2>5, <2>6
  <1>2. ASSUME Consistent, NEW t \in Cores, NEW u \in Cores
        PROVE  passed[t] <= SyncsOf(Program(scenario, u))
    <2>1. SyncsOf(Program(scenario, u)) \in Nat
      <3>1. Len(Program(scenario, u)) \in Nat
        BY <1>2, ProgramFacts DEF Consistent, TypeOK
      <3> QED
        BY <3>1, SyncsType DEF SyncsOf
    <2> QED
      BY <1>2, <2>1, MeetingFacts
  <1>3. Consistent => HandOff
    BY <1>1, <1>2 DEF HandOff
  <1> QED
    BY <1>3, RuntimeInvariant, PTL

\* A worker that has left has passed a meeting for each of its sync tasks.
LEMMA ExitedHasMet ==
  ASSUME Consistent, NEW t \in Cores, wpc[t] = "exited"
  PROVE  bpc[t] = "out" /\ passed[t] = SyncsOf(Program(scenario, t))
  <1>1. BarrierPlace(t) /\ ran[t] = Len(Program(scenario, t))
    BY ExitedIsDone DEF Consistent
  <1>2. Len(Program(scenario, t)) \in Nat
    BY ProgramFacts DEF Consistent, TypeOK
  <1>3. bpc[t] = "out" /\ passed[t] = SyncsWithin(Program(scenario, t), ran[t] + 0)
    BY <1>1 DEF BarrierPlace
  <1> QED
    BY <1>1, <1>2, <1>3 DEF SyncsOf

(* The workers of a scenario that gives all cores as many sync tasks are   *)
(* never all left waiting while main waits for them in done().             *)
THEOREM BalancedNeverHangs == Spec => []NeverHangs
  <1>1. ASSUME Consistent, Balanced(scenario), NEW t \in Cores, wpc[t] # "exited",
               \A u \in Cores : wpc[u] = "exited" \/ Barrier!Waits(u)
        PROVE  FALSE
    <2> DEFINE S(u) == SyncsOf(Program(scenario, u))
    <2>1. scenario \in Scenarios /\ CoresOf(scenario) = Cores
      BY <1>1, CoresAssumption DEF Consistent, TypeOK
    <2>2. BP!OneMeeting
      BY <1>1, OneMeetingSame DEF Consistent
    <2>3. PICK u \in Cores : ~ BP!Waits(u) /\ (bpc[u] = "out" => passed[u] + 1 = arrived[t])
      <3>1. BP!Waits(t)
        BY <1>1 DEF BP!Waits, Barrier!Waits
      <3> QED
        BY <2>2, <3>1, BP!WaitedForFromMeeting, BarrierAssumptions
           DEF IsFiniteSet, BP!IsFiniteSet
    <2>4. wpc[u] = "exited"
      BY <1>1, <2>3 DEF BP!Waits, Barrier!Waits
    <2>5. passed[u] = S(u) /\ arrived[t] = S(u) + 1
      BY <1>1, <2>3, <2>4, ExitedHasMet
    <2>6. arrived[t] <= S(t) /\ passed[u] \in Nat
      BY <1>1, MeetingFacts
    <2>7. S(u) = S(t)
      BY <1>1, <2>1 DEF Balanced
    <2> HIDE DEF S
    <2> QED
      BY <2>5, <2>6, <2>7
  <1>2. Consistent => NeverHangs
    BY <1>1 DEF NeverHangs
  <1> QED
    BY <1>2, RuntimeInvariant, PTL

(* A scenario that gives two cores different numbers of sync tasks never   *)
(* gets to its report.                                                     *)
THEOREM NoReportUnbalanced == Spec => []UnbalancedNeverReports
  <1>1. ASSUME Consistent, mpc = "report" PROVE Balanced(scenario)
    <2>1. scenario \in Scenarios /\ CoresOf(scenario) = Cores
      BY <1>1, CoresAssumption DEF Consistent, TypeOK
    <2>2. ASSUME NEW t \in Cores
          PROVE  passed[t] = SyncsOf(Program(scenario, t)) /\ arrived[t] = passed[t]
      <3>1. BarrierPlace(t) /\ wpc[t] = "exited" /\ passed[t] \in Nat
        BY <1>1, AllRanAtReport, MeetingFacts DEF Consistent
      <3>2. bpc[t] = "out" /\ passed[t] = SyncsOf(Program(scenario, t))
        BY <1>1, <3>1, ExitedHasMet
      <3>3. arrived[t] = passed[t] + 0
        BY <3>1, <3>2 DEF BarrierPlace
      <3> QED
        BY <3>1, <3>2, <3>3
    <2>3. ASSUME NEW t \in Cores, NEW u \in Cores
          PROVE  SyncsOf(Program(scenario, t)) = SyncsOf(Program(scenario, u))
      <3>1. passed[t] <= arrived[u] /\ passed[u] <= arrived[t] /\ passed[t] \in Nat
            /\ passed[u] \in Nat
        BY <1>1, MeetingFacts
      <3> QED
        BY <2>2, <3>1
    <2> QED
      BY <2>1, <2>3 DEF Balanced
  <1>2. Consistent => UnbalancedNeverReports
    BY <1>1 DEF UnbalancedNeverReports
  <1> QED
    BY <1>2, RuntimeInvariant, PTL

===============================================================================
