---------------------------- MODULE RuntimeRefines ----------------------------
(***************************************************************************)
(* The runtime implements Replay, what replaying a scenario promises, and  *)
(* its barrier is the one of SpinBarrier: the initial states map to        *)
(* initial states, and each step to a step or to none.                     *)
(***************************************************************************)
EXTENDS RuntimeProofs

-------------------------------------------------------------------------------
(* The barrier in the runtime is the barrier of SpinBarrier. *)

\* The runtime starts with the barrier as SpinBarrier does.
LEMMA BarrierAtStart == Init => Barrier!Init
  <1> SUFFICES ASSUME Init PROVE Barrier!Init
    OBVIOUS
  <1>1. [t \in Cores |-> SyncsOf(Program(scenario, t))] \in [Cores -> 1 .. MaxSyncs]
    BY MeetingAtStart DEF Barrier!OneMeeting, Barrier!TypeOK
  <1> QED
    BY <1>1 DEF Init, Barrier!Init

(* Whatever holds of SpinBarrier holds of the barrier in the runtime.      *)
THEOREM BarrierIsSpinBarrier == Spec => ImplementsBarrier
  <1>1. Init => Barrier!Init
    BY BarrierAtStart
  <1>2. Consistent /\ [Next]_vars => [Barrier!Next]_(Barrier!vars)
    BY BarrierStep
  <1> QED
    BY <1>1, <1>2, RuntimeInvariant, PTL DEF Spec, ImplementsBarrier, Barrier!Spec

-------------------------------------------------------------------------------
(* The runtime does what Replay promises. *)

\* Replay reads scenarios as the runtime does.
LEMMA PromiseSame ==
  /\ \A s, t : Promise!Program(s, t) = Program(s, t)
  /\ \A s : Promise!CoresOf(s) = CoresOf(s)
  /\ \A s : Promise!Survived(s) <=> Survived(s)
  /\ Promise!Failing = Failing
  <1>1. \A S : Promise!Cardinality(S) = Cardinality(S)
    BY DEF Promise!Cardinality, Cardinality, Promise!IsFiniteSet, IsFiniteSet
  <1>2. \A S, R : Promise!Listed(S, R) = Listed(S, R)
    <2>1. \A S, R, x : Promise!Rank(S, R, x) = Rank(S, R, x)
      BY <1>1 DEF Promise!Rank, Rank
    <2>2. ASSUME NEW S, NEW R, NEW k PROVE Promise!Place(S, R, k) = Place(S, R, k)
      <3>1. {y \in S : Promise!Rank(S, R, y) = k} = {y \in S : Rank(S, R, y) = k}
        BY <2>1
      <3> QED
        BY <3>1, Zenon DEF Promise!Place, Place
    <2> QED
      BY <1>1, <2>2 DEF Promise!Listed, Listed
  <1>3. \A a : (Promise!Fatal(a) <=> Fatal(a)) /\ Promise!TaskOf(a) = TaskOf(a)
    BY DEF Promise!Fatal, Fatal, Promise!IsUnknown, IsUnknown, Promise!KernelName,
       KernelName,
           Promise!TaskOf, TaskOf, Promise!IsBarrier, IsBarrier, Promise!BarrierTask, BarrierTask,
           Promise!KernelTask, KernelTask, Promise!Task, Task, Promise!Unnamed, Unnamed
  <1>4. \A s : Promise!CoresOf(s) = CoresOf(s)
    BY DEF Promise!CoresOf, CoresOf
  <1>5. \A s, a : Promise!Targets(s, a) = Targets(s, a)
    BY <1>4 DEF Promise!Targets, Targets, Promise!IsBarrier, IsBarrier, Promise!IsKnown,
       IsKnown,
           Promise!KernelName, KernelName
  <1>6. \A s, t, n : Promise!ActionsFor(s, t, n) = ActionsFor(s, t, n)
    BY <1>5 DEF Promise!ActionsFor, ActionsFor
  <1>7. \A s : Promise!IndexOrder(s) = IndexOrder(s) /\ Promise!Reached(s) = Reached(s)
    BY <1>1, <1>3 DEF Promise!IndexOrder, IndexOrder, Promise!Reached, Reached
  <1>8. \A s, t, n : Promise!TasksUpTo(s, t, n) = TasksUpTo(s, t, n)
    BY <1>2, <1>3, <1>6, <1>7, Zenon
    DEF Promise!TasksUpTo, TasksUpTo, Promise!StartSync, StartSync, Promise!Task, Task
  <1>9. \A s, t : Promise!Program(s, t) = Program(s, t)
    BY <1>7, <1>8 DEF Promise!Program, Program
  <1>10. \A s : Promise!Survived(s) <=> Survived(s)
    BY <1>3 DEF Promise!Survived, Survived, Promise!Runnable, Runnable
  <1> QED
    BY <1>4, <1>9, <1>10 DEF Promise!Failing, Failing

\* The sync tasks a core has come to, in terms of its list: no fewer than the
\* meetings it has come to.
LEMMA SyncsComeFacts ==
  ASSUME Consistent, NEW t \in Cores
  PROVE  LET P == Program(scenario, t) IN
         /\ ran[t] \in 0 .. Len(P) /\ Len(P) \in Nat
         /\ Promise!SyncsCome(t) = SyncsWithin(P, IF ran[t] < Len(P) THEN ran[t] + 1 ELSE Len(P))
         /\ arrived[t] <= Promise!SyncsCome(t)
         /\ Promise!SyncsCome(t) \in Nat
  <1> DEFINE P == Program(scenario, t) n == IF ran[t] < Len(P) THEN ran[t] + 1 ELSE Len(P)
             tasks == [u \in Cores |-> Program(scenario, u)]
  <1>1. /\ TypeOK /\ MainPlace /\ QueuePlace(t) /\ ran[t] \in Nat /\ scenario \in Scenarios
    BY DEF Consistent, TypeOK
  <1>2. Len(P) \in Nat /\ DOMAIN P = 1 .. Len(P)
    BY <1>1, ProgramFacts
  <1>3. ran[t] <= Len(P)
    <2>1. Taken(t) \in Nat /\ ran[t] <= Taken(t) /\ Taken(t) <= Len(Submitted(t))
      BY <1>1, TakenFacts DEF QueuePlace
    <2>2. Len(Submitted(t)) <= Len(P) /\ Len(Submitted(t)) \in Nat
      BY <1>1, SubmittedFacts DEF IsPrefix
    <2> QED
      BY <1>1, <1>2, <2>1, <2>2
  <1>4. Promise!SyncsCome(t) = SyncsWithin(P, n)
    <2>1. tasks[t] = P
      OBVIOUS
    <2>2. {i \in DOMAIN P : i <= ran[t] + 1 /\ P[i].sync} = {i \in 1 .. n : P[i].sync}
      BY <1>1, <1>2, <1>3
    <2>3. \A S : Promise!Cardinality(S) = Cardinality(S)
      BY DEF Promise!Cardinality, Cardinality, Promise!IsFiniteSet, IsFiniteSet
    <2> HIDE DEF P
    <2> QED
      BY <2>1, <2>2, <2>3 DEF Promise!SyncsCome, SyncsWithin
  <1>5. arrived[t] <= SyncsWithin(P, n)
    <2>1. CASE ran[t] < Len(P)
      BY <2>1, ArrivedBound
    <2>2. CASE ~ ran[t] < Len(P)
      BY <2>2, MeetingFacts DEF SyncsOf
    <2> QED
      BY <2>1, <2>2
  <1>6. SyncsWithin(P, n) \in Nat
    <2>1. n \in Nat
      BY <1>1, <1>2
    <2> QED
      BY <2>1, SyncsType
  <1> QED
    BY <1>1, <1>2, <1>3, <1>4, <1>5, <1>6

\* When a worker goes on from its meeting, every core has come to its own.
LEMMA LeavesTogether ==
  ASSUME Consistent, [Next]_vars, NEW t \in Cores, InBarrier(t), bpc'[t] = "out", Worker(t)
  PROVE  /\ wpc[t] = "barrier" /\ wpc'[t] = "run" /\ task[t].sync /\ ran' = ran
         /\ \A u \in Cores : Promise!SyncsCome(u) >= Promise!SyncsCome(t)
  <1> DEFINE P == Program(scenario, t)
  <1>1. bpc \in [Cores -> Barrier!Labels] /\ arrived \in [Cores -> Nat]
        /\ passed \in [Cores -> Nat]
        /\ wpc \in [Cores -> WorkerLabels] /\ BarrierPlace(t) /\ ran[t] \in Nat
    BY DEF Consistent, TypeOK, Barrier!OneMeeting, Barrier!TypeOK
  <1>2. wpc[t] = "barrier" /\ wpc'[t] = "run" /\ ran' = ran /\ task[t].sync
    BY <1>1 DEF InBarrier, Goto, BarrierPlace
  <1>3. Barrier!Open(t) \/ Barrier!LeaveSpin(t)
    BY <1>1 DEF InBarrier, Barrier!Inside, Barrier!Arrive, Barrier!Flip,
       Barrier!ClearThere, Barrier!ClearGo,
       Barrier!Goto
  <1>4. /\ bpc[t] \notin {"out", "arrive"} /\ arrived' = arrived
        /\ passed'[t] = passed[t] + 1
    BY <1>1, <1>3 DEF Barrier!Open, Barrier!LeaveSpin, Barrier!Goto
  <1>5. passed[t] = SyncsWithin(P, ran[t] + 0)
    BY <1>1, <1>2 DEF BarrierPlace
  <1>6. ran[t] + 1 \in 1 .. Len(P) /\ Len(P) \in Nat /\ P[ran[t] + 1].sync
    BY <1>2, TaskFacts DEF Busy
  <1>7. Promise!SyncsCome(t) = SyncsWithin(P, ran[t] + 1)
    BY <1>1, <1>6, SyncsComeFacts
  <1>8. SyncsWithin(P, ran[t] + 1) = passed'[t]
    BY <1>1, <1>4, <1>5, <1>6, SyncsNext
  <1>10. BP!NoEarlyPass'
    BY ConsistentStep, EarlyPassNever, PTL
  <1>9. ASSUME NEW u \in Cores PROVE Promise!SyncsCome(u) >= Promise!SyncsCome(t)
    <2>1. passed'[t] <= arrived'[u]
      BY <1>10 DEF BP!NoEarlyPass
    <2>2. arrived[u] <= Promise!SyncsCome(u) /\ Promise!SyncsCome(u) \in Nat
          /\ arrived[u] \in Nat
      BY <1>1, SyncsComeFacts
    <2>3. Promise!SyncsCome(t) \in Nat
      BY SyncsComeFacts
    <2> QED
      BY <1>4, <1>7, <1>8, <2>1, <2>2, <2>3
  <1> QED
    BY <1>2, <1>9

\* A step of the runtime is a step of Replay or leaves what Replay sees alone:
\* a task begins when it is taken, or when its meeting ends, and ends with the
\* repeat loop; the process gives up where the scenario lets it; main reports
\* when all is done.
LEMMA StepIsReplayStep ==
  ASSUME Consistent, [Next]_vars
  PROVE  [Promise!Next]_(Promise!replay)
  <1> DEFINE running == [u \in Cores |-> wpc[u] \in {"run", "kernel"}]
             tasks   == [u \in Cores |-> Program(scenario, u)]
             outcome == CASE process = "running" -> "none"
                          [] process = "ended"   -> "reported"
                          [] OTHER               -> "gaveUp"
  <1>1. TypeOK /\ MainPlace /\ wpc \in [Cores -> WorkerLabels] /\ scenario \in Scenarios
        /\ ran \in [Cores -> Nat]
    BY DEF Consistent, TypeOK
  <1>2. ASSUME UNCHANGED <<scenario, ran, process>>, running' = running
        PROVE  UNCHANGED Promise!replay
    BY <1>2 DEF Promise!replay
  <1>3. CASE UNCHANGED vars
    <2>1. running' = running
      BY <1>3 DEF vars, workerVars
    <2> QED
      BY <1>2, <1>3, <2>1 DEF vars, workerVars
  <1>4. ASSUME process = "running", Promise!Step, scenario' = scenario PROVE Promise!Next
    BY <1>4 DEF Promise!Next
  <1>5. CASE Main
    <2>1. UNCHANGED <<scenario, ran>> /\ process = "running"
      BY <1>5, MainFrame DEF Main
    <2>2. running' = running
      <3>1. ASSUME NEW c \in Cores, Spawn(c) PROVE running' = running
        <4>1. StopPlace(c) /\ mpc = "spawn" /\ c \in todo
          BY <3>1 DEF Consistent, Spawn, Visit, IsNext
        <4>2. wpc[c] = "unborn" /\ wpc' = [wpc EXCEPT ![c] = "checkGo"]
          BY <3>1, <4>1 DEF StopPlace, Spawn
        <4> QED
          BY <1>1, <4>2
      <3>2. UNCHANGED wpc => running' = running
        OBVIOUS
      <3> HIDE DEF running
      <3> QED
        BY <1>5, <3>1, <3>2
        DEF Main, AddWatcher, FailWatcher, TakeAction, RunLock, RunPush, CallDone, ClearThreadGo, Join,
            Report, workerVars
    <2>3. CASE Report
      <3>1. \A t \in Cores : ran[t] = Len(Program(scenario, t))
        BY <2>3, AllRanAtReport DEF Report
      <3>2. Survived(scenario)
        <4>1. next = Len(scenario) + 1 /\ Len(scenario) \in Nat
              /\ DOMAIN scenario = 1 .. Len(scenario)
          BY <1>1, <2>3, MainFacts DEF Report, MainPlace
        <4> QED
          BY <1>1, <2>3, <4>1 DEF MainPlace, Report, Survived, Runnable
      <3>3. process' = "ended"
        BY <2>3 DEF Report
      <3>4. Promise!Report
        BY <2>1, <2>2, <3>1, <3>2, <3>3, PromiseSame DEF Promise!Report, Promise!Replaying
      <3> QED
        BY <1>4, <2>1, <3>4 DEF Promise!Step
    <2>4. CASE FailWatcher \/ (TakeAction /\ Fatal(scenario[next]))
      <3>1. process' \in {"exited", "aborted"}
        BY <2>4 DEF FailWatcher, TakeAction
      <3>2. ~ Survived(scenario)
        <4>1. CASE FailWatcher
          BY <4>1 DEF FailWatcher, Survived
        <4>2. CASE TakeAction /\ Fatal(scenario[next])
          <5>1. next \in DOMAIN scenario
            BY <1>1, <4>2, MainFacts DEF TakeAction, TypeOK
          <5> QED
            BY <4>2, <5>1 DEF Survived, Runnable
        <4> QED
          BY <2>4, <4>1, <4>2
      <3>3. Promise!GiveUp
        BY <2>1, <2>2, <3>1, <3>2, PromiseSame DEF Promise!GiveUp
      <3> QED
        BY <1>4, <2>1, <3>3 DEF Promise!Step
    <2>5. UNCHANGED process => UNCHANGED Promise!replay
      BY <1>2, <2>1, <2>2
    <2> QED
      BY <1>5, <2>3, <2>4, <2>5
      DEF Main, Spawn, AddWatcher, FailWatcher, TakeAction, RunLock, RunPush, CallDone, ClearThreadGo,
          Join
  <1>6. ASSUME NEW t \in Cores, Worker(t) PROVE [Promise!Next]_(Promise!replay)
    <2> DEFINE P == Program(scenario, t)
    <2>1. process = "running" /\ scenario' = scenario
      BY <1>6 DEF Worker
    <2>2. CASE LoadGo(t) \/ Drain(t) \/ TestQueue(t) \/ LockQueue(t) \/ EnterBarrier(t)
      <3>1. UNCHANGED <<ran, process>> /\ running' = running
        BY <1>1, <2>2 DEF LoadGo, Drain, TestQueue, LockQueue, EnterBarrier, Goto
      <3> QED
        BY <1>2, <2>1, <3>1
    <2>3. ASSUME ~ running[t], UNCHANGED <<ran, process>>, wpc' = [wpc EXCEPT ![t] = "run"],
                 ran[t] + 1 \in 1 .. Len(P), Len(P) \in Nat,
                 P[ran[t] + 1].sync => \A u \in Cores : Promise!SyncsCome(u) >= Promise!SyncsCome(t)
          PROVE  Promise!Next
      <3>1. running' = [running EXCEPT ![t] = TRUE]
        BY <1>1, <2>3
      <3>2. ran[t] < Len(P)
        BY <1>1, <2>3
      <3>3. Promise!Begin(t)
        BY <2>1, <2>3, <3>1, <3>2 DEF Promise!Begin, Promise!Current, Promise!Replaying
      <3> QED
        BY <1>4, <2>1, <3>3 DEF Promise!Step, Promise!Replaying
    <2>4. CASE PopTask(t)
      <3>1. wpc[t] = "pop" /\ ~ Busy(t) /\ UNCHANGED <<ran, process>>
            /\ wpc' = [wpc EXCEPT ![t] = IF Head(q[t]).sync THEN "sync" ELSE "run"]
        BY <2>4 DEF PopTask, Goto, Busy
      <3>2. Head(q[t]) = P[ran[t] + 1] /\ ran[t] + 1 \in 1 .. Len(P) /\ Len(P) \in Nat
        BY <3>1, TaskFacts
      <3>3. CASE Head(q[t]).sync
        BY <1>1, <1>2, <2>1, <3>1, <3>3
      <3>4. CASE ~ Head(q[t]).sync
        BY <1>1, <2>3, <3>1, <3>2, <3>4
      <3> QED
        BY <3>3, <3>4
    <2>5. CASE InBarrier(t)
      <3>1. wpc[t] = "barrier" /\ UNCHANGED <<ran, process>>
            /\ wpc' = [wpc EXCEPT ![t] = IF bpc'[t] = "out" THEN "run" ELSE "barrier"]
        BY <2>5 DEF InBarrier, Goto
      <3>2. CASE bpc'[t] # "out"
        BY <1>1, <1>2, <2>1, <3>1, <3>2
      <3>3. CASE bpc'[t] = "out"
        <4>1. \A u \in Cores : Promise!SyncsCome(u) >= Promise!SyncsCome(t)
          BY <1>6, <2>5, <3>3, LeavesTogether
        <4>2. ran[t] + 1 \in 1 .. Len(P) /\ Len(P) \in Nat
          BY <3>1, TaskFacts DEF Busy
        <4> QED
          BY <1>1, <2>3, <3>1, <3>3, <4>1, <4>2
      <3> QED
        BY <3>2, <3>3
    <2>6. CASE StartKernel(t)
      <3>1. task[t].kernel \in KnownKernels
        BY <2>6, TaskFacts DEF StartKernel, Busy, IsTask
      <3>2. UNCHANGED <<ran, process>> /\ running' = running
        BY <1>1, <2>6, <3>1 DEF StartKernel, Goto
      <3> QED
        BY <1>2, <2>1, <3>2
    <2>7. CASE FinishKernel(t)
      <3>1. UNCHANGED <<ran, process>> /\ running' = running
        BY <1>1, <2>7 DEF FinishKernel, Goto
      <3> QED
        BY <1>2, <2>1, <3>1
    <2>8. CASE FailKernel(t)
      <3>1. /\ wpc[t] = "kernel" /\ UNCHANGED <<ran, wpc>> /\ process' = "exited"
            /\ task[t].kernel \in Failing /\ Busy(t)
        BY <2>8 DEF FailKernel, Busy
      <3>2. task[t] = P[ran[t] + 1]
        BY <3>1, TaskFacts
      <3>3. task[t].repeat > 0
        <4>1. iteration[t] \in Nat /\ iteration[t] < task[t].repeat
          BY <1>1, <3>1 DEF Consistent, TypeOK, RecordPlace
        <4>2. task[t].repeat \in Int
          BY <3>1, TaskFacts DEF IsTask
        <4> QED
          BY <4>1, <4>2
      <3>4. Promise!GiveUp
        BY <3>1, <3>2, <3>3, PromiseSame
        DEF Promise!GiveUp, Promise!Replaying, Promise!Current, Promise!HasRounds
      <3> QED
        BY <1>4, <2>1, <3>4 DEF Promise!Step
    <2>9. CASE EndTask(t)
      <3>1. /\ wpc[t] = "run" /\ ran' = [ran EXCEPT ![t] = @ + 1] /\ UNCHANGED process
            /\ wpc' = [wpc EXCEPT ![t] = "checkGo"]
        BY <2>9 DEF EndTask, Goto
      <3>3. running' = [running EXCEPT ![t] = FALSE]
        <4>1. ASSUME NEW u \in Cores
              PROVE  (wpc'[u] \in {"run", "kernel"}) = IF u = t THEN FALSE ELSE wpc[u] \in {"run", "kernel"}
          <5>1. CASE u = t
            <6>1. wpc'[u] = "checkGo"
              BY <1>1, <3>1, <5>1
            <6>2. ("checkGo" \in {"run", "kernel"}) = FALSE
              OBVIOUS
            <6> QED
              BY <5>1, <6>1, <6>2
          <5>2. CASE u # t
            BY <1>1, <3>1, <5>2
          <5> QED
            BY <5>1, <5>2
        <4> QED
          BY <4>1, Zenon
      <3>2. Promise!End(t)
        BY <3>1, <3>3 DEF Promise!End
      <3> QED
        BY <1>4, <2>1, <3>2 DEF Promise!Step, Promise!Replaying
    <2> QED
      BY <1>6, <2>2, <2>4, <2>5, <2>6, <2>7, <2>8, <2>9 DEF Worker
  <1> QED
    BY <1>3, <1>5, <1>6 DEF Next, Over

\* The runtime starts as Replay does.
LEMMA ReplayAtStart == Init => Promise!Init
  <1> SUFFICES ASSUME Init PROVE Promise!Init
    OBVIOUS
  <1>1. CoresOf(scenario) = Cores /\ scenario \in Scenarios
    BY CoresAssumption DEF Init
  <1>2. [t \in Cores |-> wpc[t] \in {"run", "kernel"}] = [t \in Cores |-> FALSE]
    <2>1. \A t \in Cores : (wpc[t] \in {"run", "kernel"}) = FALSE
      <3>1. \A t \in Cores : wpc[t] = "unborn"
        BY DEF Init
      <3>2. ("unborn" \in {"run", "kernel"}) = FALSE
        OBVIOUS
      <3> QED
        BY <3>1, <3>2
    <2> QED
      BY <2>1, Zenon
  <1>3. [t \in Cores |-> Program(scenario, t)] = [t \in Promise!CoresOf(scenario) |-> Promise!Program(scenario, t)]
    BY <1>1, PromiseSame
  <1>4. Promise!CoresOf(scenario) = Cores
    BY <1>1, PromiseSame
  <1> QED
    BY <1>1, <1>2, <1>3, <1>4 DEF Init, Promise!Init

(* The runtime does what Replay promises, for any scenarios, cores and     *)
(* watchers.                                                               *)
THEOREM RuntimeIsReplay == Spec => ImplementsReplay
  <1>1. Consistent /\ [Next]_vars => [Promise!Next]_(Promise!replay)
    BY StepIsReplayStep
  <1> QED
    BY <1>1, ReplayAtStart, RuntimeInvariant, PTL DEF Spec, ImplementsReplay, Promise!Spec

===============================================================================
