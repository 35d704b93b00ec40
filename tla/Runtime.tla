------------------------------- MODULE Runtime --------------------------------
(***************************************************************************)
(* The replay of a scenario: the main thread (main, Runtime::Runtime,      *)
(* addWatcher, run and done) and one worker thread per core                *)
(* (Runtime::work), with the barrier of module SpinBarrier between them.   *)
(*                                                                         *)
(* A step is what one thread does between two points where another thread  *)
(* can see or change what it works on: the loads and stores of a `go`      *)
(* flag, a look at a queue, the taking and the release of a queue's mutex, *)
(* an access to the barrier, the start and the end of a kernel.            *)
(***************************************************************************)
EXTENDS Scenario

CONSTANTS
  Cores,          \* the cores of the scenarios
  NumWatchers,    \* how many watchers the scenario asks for on each core
  MaxSyncs        \* no core has more sync tasks than this in any scenario

ASSUME CoresAssumption ==
  /\ IsFiniteSet(Cores) /\ Cores # {} /\ Cores \subseteq Nat
  /\ \A s \in Scenarios : CoresOf(s) = Cores
ASSUME WatchersAssumption == NumWatchers \in Nat /\ (Unwatchable # {} => NumWatchers # 0)

ASSUME SyncsAssumption ==
  /\ MaxSyncs \in Nat \ {0}
  /\ \A s \in Scenarios, t \in Cores : SyncsOf(Program(s, t)) <= MaxSyncs

-------------------------------------------------------------------------------
VARIABLES
  scenario,    \* the scenario being replayed; never changes
  mpc,         \* where main is
  next,        \* the action main is at
  todo,        \* the cores main's innermost loop has still to visit
  process,     \* "running", or how the process ended
  q,           \* q[t]: the queue of core t
  m,           \* m[t]: who holds the mutex of q[t]
  threadGo,    \* threadGo[t]: the `go` flag of the Thread of core t
  watchers,    \* watchers[t]: how many watchers core t has
  samples,     \* samples[t][w]: the names watcher w of core t has entries for
  wpc,         \* wpc[t]: where the worker of core t is
  task,        \* task[t]: the task it took last
  iteration,   \* iteration[t]: how often it has run that task
  ran,         \* history: how many tasks worker t is done with
  there, go, current, localCurrent, bpc, arrived, passed   \* see SpinBarrier

barrierVars == <<there, go, current, localCurrent, bpc, arrived, passed>>
mainVars    == <<mpc, next, todo>>
workerVars  == <<wpc, task, iteration, ran>>
watchVars   == <<watchers, samples>>
vars == <<scenario, mainVars, process, q, m, threadGo, watchVars, workerVars, barrierVars>>

Barrier == INSTANCE SpinBarrier WITH
  Threads  <- Cores,
  syncs    <- [t \in Cores |-> SyncsOf(Program(scenario, t))]

Init ==
  /\ scenario \in Scenarios
  /\ mpc = "spawn" /\ next = 1 /\ todo = Cores
  /\ process = "running"
  /\ q = [t \in Cores |-> <<StartSync>>]
  /\ m = [t \in Cores |-> "free"]
  /\ threadGo = [t \in Cores |-> 1]
  /\ watchers = [t \in Cores |-> 0]
  /\ samples = [t \in Cores |-> [w \in 1 .. NumWatchers |-> <<>>]]
  /\ wpc = [t \in Cores |-> "unborn"]
  /\ task = [t \in Cores |-> StartSync]
  /\ iteration = [t \in Cores |-> 0]
  /\ ran = [t \in Cores |-> 0]
  /\ Barrier!BarrierInit

-------------------------------------------------------------------------------
(* The main thread.  Its loops over the map of threads, or the set of      *)
(* cores, take the cores in ascending order.                               *)

\* Core c is the one the loop visits next.
IsNext(c) == c \in todo /\ \A d \in todo : c <= d

\* A loop over the cores at label `mpc` visits core c and goes on with the
\* others, or with `after` when there is none left.
Visit(c, after, todoAfter) ==
  /\ IsNext(c)
  /\ mpc' = IF todo = {c} THEN after ELSE mpc
  /\ todo' = IF todo = {c} THEN todoAfter ELSE todo \ {c}

-------------------------------------------------------------------------------
(***************************************************************************)
(* Slips an edit of the main thread could make, each to be put in the      *)
(* place of the action below that it misspells.                            *)
(***************************************************************************)

\* addWatcher is called once too often.
AddWatcherOneMore(c) ==
  /\ mpc = "watch"
  /\ Visit(c, IF watchers[c] = NumWatchers THEN "submit" ELSE "watch", Cores)
  /\ mpc' = "submit" => scenario \notin Unwatchable
  /\ watchers' = [watchers EXCEPT ![c] = @ + 1]
  /\ UNCHANGED <<next, process, q, m, threadGo, samples, workerVars, barrierVars>>

\* main submits when the first watcher is attached, and forgets the others.
AddWatcherOnce(c) ==
  /\ mpc = "watch"
  /\ Visit(c, "submit", Cores)
  /\ mpc' = "submit" => scenario \notin Unwatchable
  /\ watchers' = [watchers EXCEPT ![c] = @ + 1]
  /\ UNCHANGED <<next, process, q, m, threadGo, samples, workerVars, barrierVars>>

\* push_front instead of push_back
RunPushFront(c) ==
  /\ mpc = "push" /\ IsNext(c)
  /\ q' = [q EXCEPT ![c] = <<TaskOf(scenario[next])>> \o @]
  /\ m' = [m EXCEPT ![c] = "free"]
  /\ mpc' = IF todo = {c} THEN "submit" ELSE "lock"
  /\ next' = IF todo = {c} THEN next + 1 ELSE next
  /\ todo' = todo \ {c}
  /\ UNCHANGED <<process, threadGo, watchVars, workerVars, barrierVars>>

\* The mutex is locked by hand and not unlocked.
RunPushKeepsLock(c) ==
  /\ mpc = "push" /\ IsNext(c)
  /\ q' = [q EXCEPT ![c] = Append(@, TaskOf(scenario[next]))]
  /\ mpc' = IF todo = {c} THEN "submit" ELSE "lock"
  /\ next' = IF todo = {c} THEN next + 1 ELSE next
  /\ todo' = todo \ {c}
  /\ UNCHANGED <<m, process, threadGo, watchVars, workerVars, barrierVars>>

\* done joins the threads but never told them to stop.
ClearThreadGoForgotten(c) ==
  /\ mpc = "clear"
  /\ Visit(c, "join", Cores)
  /\ UNCHANGED <<next, process, q, m, threadGo, watchVars, workerVars, barrierVars>>

\* detach instead of join
JoinNoWait(c) ==
  /\ mpc = "join"
  /\ Visit(c, "report", {})
  /\ UNCHANGED <<next, process, q, m, threadGo, watchVars, workerVars, barrierVars>>

-------------------------------------------------------------------------------
(* What main does.                                                         *)

\* threads[cpuId].t = thread(...): the second loop of initThreads
Spawn(c) ==
  /\ mpc = "spawn"
  /\ Visit(c, IF NumWatchers = 0 THEN "submit" ELSE "watch", Cores)
  /\ wpc' = [wpc EXCEPT ![c] = "checkGo"]
  /\ UNCHANGED <<next, process, q, m, threadGo, watchVars, task, iteration, ran, barrierVars>>

\* One round of addWatcher's loop; main calls addWatcher NumWatchers times, and
\* never comes past a watcher it does not survive.
AddWatcher(c) ==
  /\ mpc = "watch"
  /\ Visit(c, IF watchers[c] + 1 = NumWatchers THEN "submit" ELSE "watch", Cores)
  /\ mpc' = "submit" => scenario \notin Unwatchable
  /\ watchers' = [watchers EXCEPT ![c] = @ + 1]
  /\ UNCHANGED <<next, process, q, m, threadGo, samples, workerVars, barrierVars>>

\* The constructor of a watcher exits, its key has none and what is added is no
\* watcher, or its argument does not convert.
FailWatcher ==
  /\ mpc = "watch"
  /\ scenario \in Unwatchable
  /\ process' \in {"exited", "aborted"}
  /\ UNCHANGED <<mainVars, q, m, threadGo, watchVars, workerVars, barrierVars>>

\* The switch of main's loop over the actions, up to the calls of run.
TakeAction ==
  /\ mpc = "submit"
  /\ next <= Len(scenario)
  /\ LET a == scenario[next] IN
     IF Fatal(a)
     THEN /\ process' = IF IsUnknown(a) THEN "exited" ELSE "aborted"
          /\ UNCHANGED mainVars
     ELSE /\ mpc' = IF Targets(scenario, a) = {} THEN "submit" ELSE "lock"
          /\ next' = IF Targets(scenario, a) = {} THEN next + 1 ELSE next
          /\ todo' = Targets(scenario, a)
          /\ UNCHANGED process
  /\ UNCHANGED <<q, m, threadGo, watchVars, workerVars, barrierVars>>

\* Runtime::run: lock_guard<mutex> guard(t.m)
RunLock(c) ==
  /\ mpc = "lock" /\ IsNext(c)
  /\ m[c] = "free"
  /\ m' = [m EXCEPT ![c] = "main"]
  /\ mpc' = "push"
  /\ UNCHANGED <<next, todo, process, q, threadGo, watchVars, workerVars, barrierVars>>

\* Runtime::run: t.q.push_back(code), the end of the guard's scope
RunPush(c) ==
  /\ mpc = "push" /\ IsNext(c)
  /\ q' = [q EXCEPT ![c] = Append(@, TaskOf(scenario[next]))]
  /\ m' = [m EXCEPT ![c] = "free"]
  /\ mpc' = IF todo = {c} THEN "submit" ELSE "lock"
  /\ next' = IF todo = {c} THEN next + 1 ELSE next
  /\ todo' = todo \ {c}
  /\ UNCHANGED <<process, threadGo, watchVars, workerVars, barrierVars>>

\* The loop over the actions ends, and done begins.
CallDone ==
  /\ mpc = "submit"
  /\ next > Len(scenario)
  /\ mpc' = "clear" /\ todo' = Cores
  /\ UNCHANGED <<next, process, q, m, threadGo, watchVars, workerVars, barrierVars>>

\* done: the loop that clears every `go` before the first join
ClearThreadGo(c) ==
  /\ mpc = "clear"
  /\ Visit(c, "join", Cores)
  /\ threadGo' = [threadGo EXCEPT ![c] = 0]
  /\ UNCHANGED <<next, process, q, m, watchVars, workerVars, barrierVars>>

\* done: t.join() returns
Join(c) ==
  /\ mpc = "join"
  /\ wpc[c] = "exited"
  /\ Visit(c, "report", {})
  /\ UNCHANGED <<next, process, q, m, threadGo, watchVars, workerVars, barrierVars>>

\* done: headers and summarize read every watcher and delete it; main returns
Report ==
  /\ mpc = "report"
  /\ process' = "ended"
  /\ UNCHANGED <<mainVars, q, m, threadGo, watchVars, workerVars, barrierVars>>

Main ==
  /\ process = "running"
  /\ \/ \E c \in Cores :
          \/ Spawn(c)
          \/ AddWatcher(c)
          \/ RunLock(c)
          \/ RunPush(c)
          \/ ClearThreadGo(c)
          \/ Join(c)
     \/ FailWatcher
     \/ TakeAction
     \/ CallDone
     \/ Report
  /\ UNCHANGED scenario

-------------------------------------------------------------------------------
(* A worker thread, Runtime::work.                                         *)

Goto(t, label) == wpc' = [wpc EXCEPT ![t] = label]

\* myQueue.empty() is called without the mutex.  While main is inside
\* push_back, it may see the new end of the queue already.
SeesTask(t) == q[t] # <<>> \/ m[t] = "main"
SeesNone(t) == q[t] = <<>>

(***************************************************************************)
(* Slips an edit of the worker could make.                                 *)
(***************************************************************************)

\* while (thread.go), with what is left in the queue forgotten
LoadGoOnly(t) ==
  /\ wpc[t] = "checkGo"
  /\ Goto(t, IF threadGo[t] = 1 THEN "test" ELSE "exited")
  /\ UNCHANGED <<q, m, task, iteration, ran, samples, process, barrierVars>>

\* The inner test of the queue is dropped.
TestQueueDropped(t) ==
  /\ wpc[t] = "test"
  /\ Goto(t, "lock")
  /\ UNCHANGED <<q, m, task, iteration, ran, samples, process, barrierVars>>

\* The test of task->sync is dropped.
PopTaskAlwaysSync(t) ==
  /\ wpc[t] = "pop"
  /\ task' = [task EXCEPT ![t] = Head(q[t])]
  /\ q' = [q EXCEPT ![t] = Tail(@)]
  /\ m' = [m EXCEPT ![t] = "free"]
  /\ iteration' = [iteration EXCEPT ![t] = 0]
  /\ Goto(t, "sync")
  /\ UNCHANGED <<ran, samples, process, barrierVars>>

\* The test of task->sync is inverted.
PopTaskInverted(t) ==
  /\ wpc[t] = "pop"
  /\ task' = [task EXCEPT ![t] = Head(q[t])]
  /\ q' = [q EXCEPT ![t] = Tail(@)]
  /\ m' = [m EXCEPT ![t] = "free"]
  /\ iteration' = [iteration EXCEPT ![t] = 0]
  /\ Goto(t, IF Head(q[t]).sync THEN "run" ELSE "sync")
  /\ UNCHANGED <<ran, samples, process, barrierVars>>

\* i <= task->repeat
StartKernelOneMore(t) ==
  /\ wpc[t] = "run"
  /\ iteration[t] <= task[t].repeat
  /\ Goto(t, "kernel")
  /\ UNCHANGED <<q, m, task, iteration, ran, samples, process, barrierVars>>

-------------------------------------------------------------------------------
(* What a worker does.                                                     *)

\* while (thread.go || ...
LoadGo(t) ==
  /\ wpc[t] = "checkGo"
  /\ Goto(t, IF threadGo[t] = 1 THEN "test" ELSE "drain")
  /\ UNCHANGED <<q, m, task, iteration, ran, samples, process, barrierVars>>

\* ... || !myQueue.empty())
Drain(t) ==
  /\ wpc[t] = "drain"
  /\ \/ SeesTask(t) /\ Goto(t, "test")
     \/ SeesNone(t) /\ Goto(t, "exited")
  /\ UNCHANGED <<q, m, task, iteration, ran, samples, process, barrierVars>>

\* if (!myQueue.empty())
TestQueue(t) ==
  /\ wpc[t] = "test"
  /\ \/ SeesTask(t) /\ Goto(t, "lock")
     \/ SeesNone(t) /\ Goto(t, "checkGo")
  /\ UNCHANGED <<q, m, task, iteration, ran, samples, process, barrierVars>>

\* unique_lock<mutex> guard(thread.m)
LockQueue(t) ==
  /\ wpc[t] = "lock"
  /\ m[t] = "free"
  /\ m' = [m EXCEPT ![t] = "worker"]
  /\ Goto(t, "pop")
  /\ UNCHANGED <<q, task, iteration, ran, samples, process, barrierVars>>

\* front, pop_front, guard.unlock() and the test of task->sync
PopTask(t) ==
  /\ wpc[t] = "pop"
  /\ task' = [task EXCEPT ![t] = Head(q[t])]
  /\ q' = [q EXCEPT ![t] = Tail(@)]
  /\ m' = [m EXCEPT ![t] = "free"]
  /\ iteration' = [iteration EXCEPT ![t] = 0]
  /\ Goto(t, IF Head(q[t]).sync THEN "sync" ELSE "run")
  /\ UNCHANGED <<ran, samples, process, barrierVars>>

\* The barrier of a sync task: entered with the load of `current` ...
EnterBarrier(t) ==
  /\ wpc[t] = "sync"
  /\ Barrier!LoadCurrent(t)
  /\ Goto(t, "barrier")
  /\ UNCHANGED <<q, m, task, iteration, ran, samples, process>>

\* ... and left when its gate is open.
InBarrier(t) ==
  /\ wpc[t] = "barrier"
  /\ Barrier!Inside(t)
  /\ Goto(t, IF bpc'[t] = "out" THEN "run" ELSE "barrier")
  /\ UNCHANGED <<q, m, task, iteration, ran, samples, process>>

\* One more round of the repeat loop: before, and the kernel begins.
StartKernel(t) ==
  /\ wpc[t] = "run"
  /\ iteration[t] < task[t].repeat
  /\ IF task[t].kernel \in KnownKernels
     THEN Goto(t, "kernel") /\ UNCHANGED process
     ELSE process' = "exited" /\ UNCHANGED wpc
  /\ UNCHANGED <<q, m, task, iteration, ran, samples, barrierVars>>

\* The kernel returns, and each watcher's after adds an entry.
FinishKernel(t) ==
  /\ wpc[t] = "kernel"
  /\ samples' = IF Measured(task[t])
                THEN [samples EXCEPT ![t] = [w \in 1 .. NumWatchers |->
                        IF w <= watchers[t] THEN Append(@[w], task[t].name) ELSE @[w]]]
                ELSE samples
  /\ iteration' = [iteration EXCEPT ![t] = @ + 1]
  /\ Goto(t, "run")
  /\ UNCHANGED <<q, m, task, ran, process, barrierVars>>

\* The kernel gives up with exit(EXIT_FAILURE).
FailKernel(t) ==
  /\ wpc[t] = "kernel"
  /\ task[t].kernel \in Failing
  /\ process' = "exited"
  /\ UNCHANGED <<q, m, wpc, task, iteration, ran, samples, barrierVars>>

\* The repeat loop ends: delete task
EndTask(t) ==
  /\ wpc[t] = "run"
  /\ iteration[t] >= task[t].repeat
  /\ ran' = [ran EXCEPT ![t] = @ + 1]
  /\ Goto(t, "checkGo")
  /\ UNCHANGED <<q, m, task, iteration, samples, process, barrierVars>>

Worker(t) ==
  /\ process = "running"
  /\ \/ LoadGo(t)
     \/ Drain(t)
     \/ TestQueue(t)
     \/ LockQueue(t)
     \/ PopTask(t)
     \/ EnterBarrier(t)
     \/ InBarrier(t)
     \/ StartKernel(t)
     \/ FinishKernel(t)
     \/ FailKernel(t)
     \/ EndTask(t)
  /\ UNCHANGED <<scenario, mainVars, threadGo, watchers>>

-------------------------------------------------------------------------------
\* When the process is over nothing moves any more.
Over == process # "running" /\ UNCHANGED vars

Next == Main \/ (\E t \in Cores : Worker(t)) \/ Over

Spec == Init /\ [][Next]_vars

\* The operating system runs main and every worker, and a thread that waits
\* for a mutex held for a few instructions gets it.
FairSpec == Spec /\ WF_vars(Main) /\ \A t \in Cores : WF_vars(Worker(t))

-------------------------------------------------------------------------------
MainLabels == {"spawn", "watch", "submit", "lock", "push", "clear", "join", "report"}
WorkerLabels == {"unborn", "checkGo", "drain", "test", "lock", "pop", "sync",
                 "barrier", "run", "kernel", "exited"}

AllTasks ==
  UNION {{Program(s, t)[i] : i \in DOMAIN Program(s, t)} : s \in Scenarios, t \in Cores}

(* Every variable has its type; main's place in the scenario and the       *)
(* numbers of watchers stay in range.                                      *)
TypeOK ==
  /\ scenario \in Scenarios
  /\ mpc \in MainLabels
  /\ next \in 1 .. Len(scenario) + 1
  /\ todo \subseteq Cores
  /\ process \in {"running", "ended", "exited", "aborted"}
  /\ q \in [Cores -> Seq(AllTasks)]
  /\ m \in [Cores -> {"free", "main", "worker"}]
  /\ threadGo \in [Cores -> {0, 1}]
  /\ watchers \in [Cores -> 0 .. NumWatchers]
  /\ samples \in [Cores -> [1 .. NumWatchers -> Seq({tk.name : tk \in AllTasks})]]
  /\ wpc \in [Cores -> WorkerLabels]
  /\ task \in [Cores -> AllTasks]
  /\ iteration \in [Cores -> Nat]
  /\ ran \in [Cores -> Nat]

\* The tasks main has given core t so far, and those worker t has taken.
Given(t) == IF mpc \in {"lock", "push"} /\ t \notin todo THEN next ELSE next - 1
Submitted(t) == TasksUpTo(scenario, t, Given(t))

Busy(t) == wpc[t] \in {"sync", "barrier", "run", "kernel"}
InHand(t) == IF Busy(t) THEN <<task[t]>> ELSE <<>>
Taken(t) == ran[t] + Len(InHand(t))

(* A worker decides to take a task on an unlocked look at its queue; when  *)
(* it gets the mutex there is one, and the task it takes exists.           *)
PopNonEmpty == \A t \in Cores : wpc[t] = "pop" => q[t] # <<>>

(* Tasks run in the order of the scenario, each once: what main has given  *)
(* a core is what its worker is done with, has in hand or has to come to.  *)
TasksConserved ==
  \A t \in Cores :
    Submitted(t) = SubSeq(Submitted(t), 1, ran[t]) \o InHand(t) \o q[t]

(* done() prints its report only after every submitted task has run: no    *)
(* worker leaves its loop with a task still, or about to be, in its queue. *)
NoTaskLost == mpc = "report" => \A t \in Cores : ran[t] = Len(Program(scenario, t))

(* What a sync task is for: once a worker is past its k-th sync task,      *)
(* every worker is done with all that precedes its own k-th one, so data   *)
(* written there may be used after.                                        *)
HandOff ==
  \A t, u \in Cores : passed[t] <= SyncsOf(Program(scenario, u))
                       /\ ran[u] >= BeforeSync(Program(scenario, u), passed[t])

(* No measured kernel begins or ends while main attaches watchers, so each *)
(* after has had its before and all watchers of a core have one entry for  *)
(* each run: summarize indexes all of them with the keys of the first.     *)
NoUnwatchedRun ==
  \A t \in Cores : wpc[t] = "kernel" /\ Measured(task[t]) => watchers[t] = NumWatchers

\* The names of the measured rounds among the given ones of a task list.
RunsAmong(tasks, rounds) ==
  LET runs == Listed({p \in rounds : Measured(tasks[p[1]])}, RoundOrder(tasks)) IN
  [k \in DOMAIN runs |-> tasks[runs[k][1]].name]

\* The names of the measured runs of a task list, in order.
Runs(tasks) == RunsAmong(tasks, RoundsOf(tasks))

(* When done() reports, every watcher has one entry for every run of every *)
(* measured kernel of its core, in the scenario's order.                   *)
ReportComplete ==
  mpc = "report" =>
    \A t \in Cores, w \in 1 .. NumWatchers :
      samples[t][w] = Runs(Program(scenario, t))

-------------------------------------------------------------------------------
(***************************************************************************)
(* The inductive invariant: what every place of main and of a worker says  *)
(* about the queues, their locks, the watchers, the barrier and the        *)
(* records of the watchers.                                                *)
(***************************************************************************)

\* What main has come past, it survived; where it is in its loops.
MainPlace ==
  /\ mpc \notin {"spawn", "watch"} => scenario \notin Unwatchable
  /\ \A i \in 1 .. next - 1 : ~ Fatal(scenario[i])
  /\ mpc \in {"spawn", "watch"} => next = 1
  /\ mpc \in {"spawn", "watch", "lock", "push", "clear", "join"} => todo # {}
  /\ mpc \in {"lock", "push"} =>
       /\ next <= Len(scenario) /\ ~ Fatal(scenario[next])
       /\ todo \subseteq Targets(scenario, scenario[next])
  /\ mpc \in {"clear", "join", "report"} => next = Len(scenario) + 1

\* The queue of core t has what main has given it and its worker not taken yet.
QueuePlace(t) ==
  /\ Taken(t) <= Len(Submitted(t))
  /\ q[t] = SubSeq(Submitted(t), Taken(t) + 1, Len(Submitted(t)))
  /\ Busy(t) => task[t] = Submitted(t)[Taken(t)]

\* Who has the lock, and what a worker that wants it, or has it, will find.
LockPlace(t) ==
  /\ m[t] = "main" <=> mpc = "push" /\ IsNext(t)
  /\ m[t] = "worker" <=> wpc[t] = "pop"
  /\ wpc[t] = "lock" => SeesTask(t)
  /\ wpc[t] = "pop" => q[t] # <<>>

\* A worker is told to stop after the last task, and stops with an empty queue.
StopPlace(t) ==
  /\ wpc[t] = "unborn" <=> mpc = "spawn" /\ t \in todo
  /\ threadGo[t] = 0 => mpc \in {"clear", "join", "report"}
  /\ wpc[t] \in {"drain", "exited"} => threadGo[t] = 0
  /\ wpc[t] = "exited" => q[t] = <<>>
  /\ mpc = "report" \/ (mpc = "join" /\ t \notin todo) => wpc[t] = "exited"

\* All watchers are there once main has left the loop that attaches them.
WatchPlace ==
  \E k \in 0 .. NumWatchers : \A t \in Cores :
    watchers[t] = CASE mpc = "spawn" -> 0
                    [] mpc = "watch" -> IF t \in todo THEN k - 1 ELSE k
                    [] OTHER         -> NumWatchers

\* Worker t has passed the meetings of the tasks it has begun, and come to the
\* one of the task it is about to begin.
BarrierPlace(t) ==
  LET begun == ran[t] + (IF wpc[t] \in {"run", "kernel"} THEN 1 ELSE 0) IN
  /\ bpc[t] = "out" <=> wpc[t] # "barrier"
  /\ wpc[t] \in {"sync", "barrier"} => task[t].sync
  /\ wpc[t] \in {"run", "kernel"} => iteration[t] \in Nat
  /\ passed[t] = SyncsWithin(Program(scenario, t), begun)
  /\ arrived[t] = passed[t] + (IF bpc[t] \in {"out", "arrive"} THEN 0 ELSE 1)

\* The rounds that worker t has run.
RoundsDone(t) ==
  {p \in RoundsOf(Program(scenario, t)) :
     p[1] <= ran[t] \/ (Busy(t) /\ p[1] = ran[t] + 1 /\ p[2] <= iteration[t])}

\* Each watcher of core t has an entry for each of them that is measured.
RecordPlace(t) ==
  /\ wpc[t] \in {"sync", "barrier"} => iteration[t] = 0
  /\ wpc[t] = "kernel" => iteration[t] < task[t].repeat
  /\ \A w \in 1 .. NumWatchers :
       samples[t][w] = RunsAmong(Program(scenario, t), RoundsDone(t))

(* Main, each queue with its lock, each worker, the watchers and the       *)
(* barrier are where the others' places say: what any of them may rely on  *)
(* when it goes on without asking the others.                              *)
Consistent ==
  /\ TypeOK
  /\ MainPlace
  /\ WatchPlace
  /\ \A t \in Cores :
       QueuePlace(t) /\ LockPlace(t) /\ StopPlace(t) /\ BarrierPlace(t) /\ RecordPlace(t)
  /\ Barrier!OneMeeting

-------------------------------------------------------------------------------
(* The barrier as the runtime uses it is the barrier of SpinBarrier, each  *)
(* worker meeting the others once for each sync task of its queue.         *)
ImplementsBarrier == Barrier!Spec

(* The runtime does what Replay promises, with everything that is between  *)
(* the scenario and its kernels left out.                                  *)
Promise == INSTANCE Replay WITH
  tasks   <- [t \in Cores |-> Program(scenario, t)],
  running <- [t \in Cores |-> wpc[t] \in {"run", "kernel"}],
  outcome <- CASE process = "running" -> "none"
               [] process = "ended"   -> "reported"
               [] OTHER               -> "gaveUp"
ImplementsReplay == Promise!Spec

(* A scenario with a balanced number of sync tasks runs to its report,     *)
(* unless one of its kernels fails.                                        *)
Reports ==
  \/ process = "ended"
  \/ process = "exited" /\ \E t \in Cores : task[t].kernel \in Failing
BalancedEnds == Balanced(scenario) /\ Survived(scenario) ~> Reports

(* A scenario one core of which has more sync tasks than another never     *)
(* gets to its report: the worker spins for ever, and done() waits for it. *)
UnbalancedNeverReports == ~ Balanced(scenario) => mpc # "report"

(* Sync tasks never leave the workers of a balanced scenario waiting for   *)
(* each other, or for one that has left: while main waits for them in      *)
(* done(), there is one that can go on, or all have left.                  *)
NeverHangs ==
  Balanced(scenario) /\ mpc = "join" =>
    \/ \A t \in Cores : wpc[t] = "exited"
    \/ \E t \in Cores : wpc[t] # "exited" /\ ~ Barrier!Waits(t)

(* Main submits without waiting for any kernel to end: it comes to the     *)
(* joins of done(), or to the watcher or the action it gives up at, in     *)
(* every scenario.                                                         *)
MainGetsThrough == <>(mpc = "join" \/ process \in {"exited", "aborted"})

===============================================================================
