------------------------------- MODULE Scenario -------------------------------
(***************************************************************************)
(* Scenarios as main reads them: lists of actions, and the tasks each core *)
(* gets for them.  Nothing here changes while a scenario is replayed.      *)
(***************************************************************************)
EXTENDS Integers, Sequences, FiniteSets

CONSTANTS
  Scenarios,      \* the action lists the tool is run with
  Unwatchable,    \* those whose watchers section main does not get through
  KnownKernels    \* the keys of Runtime::kernels_

\* What an action node says: a map has a flag and a count, as its conversions to
\* bool and int leave them.
IsAction(a) ==
  \/ a.node \in {"scalar", "malformed"}
  \/ a.node = "map" /\ a.sync \in BOOLEAN /\ a.repeat \in Int

ASSUME KernelsAssumption == "dummy" \in KnownKernels
ASSUME ScenariosAssumption ==
  \A s \in Scenarios :
    s \in Seq({s[i] : i \in DOMAIN s}) /\ \A i \in DOMAIN s : IsAction(s[i])

-------------------------------------------------------------------------------
(* The three kinds of action node the switch of main tells apart.  Of the  *)
(* parameters of a kernel only the arrays are kept, by name and in order.  *)
Map(core, kernel, args, sync, repeat, name) ==
  [node |-> "map", core |-> core, kernel |-> kernel, args |-> args, sync |-> sync,
   repeat |-> repeat, name |-> name]
Scalar(text) == [node |-> "scalar", text |-> text]
Malformed == [node |-> "malformed"]

Unnamed == "unnamed"   \* the name of an action without a `name` key

\* The cores of a scenario are those its kernels are placed on.
CoresOf(s) == {s[i].core : i \in {j \in DOMAIN s : s[j].node = "map"}}

-------------------------------------------------------------------------------
Task(kernel, args, sync, repeat, name) ==
  [kernel |-> kernel, args |-> args, sync |-> sync, repeat |-> repeat, name |-> name]

StartSync   == Task("dummy", <<>>, TRUE, 1, "start_sync")
BarrierTask == Task("dummy", <<>>, TRUE, 1, "dummy")

\* 'void' is a nicer alias for 'dummy'.
KernelName(a) == IF a.kernel = "void" THEN "dummy" ELSE a.kernel

KernelTask(a) ==
  Task(KernelName(a), a.args, a.sync, a.repeat, IF a.name = Unnamed THEN KernelName(a) ELSE a.name)

IsBarrier(a) == a.node = "scalar" /\ a.text = "barrier"
IsKnown(a)   == a.node = "map" /\ KernelName(a) \in KnownKernels
IsUnknown(a) == a.node = "map" /\ KernelName(a) \notin KnownKernels

\* The actions main does not survive.
Fatal(a) == IsUnknown(a) \/ a.node = "malformed"

\* The cores an action of scenario s gives a task to, and that task.
Targets(s, a) == IF IsBarrier(a) THEN CoresOf(s) ELSE IF IsKnown(a) THEN {a.core} ELSE {}
TaskOf(a)     == IF IsBarrier(a) THEN BarrierTask ELSE KernelTask(a)

\* The elements of a finite set in the order of relation R, as a sequence: the
\* k-th is the one that k elements, itself included, come up to.  (SetToSortSeq
\* without recursion, so that it can be reasoned about.)
Rank(S, R, x) == Cardinality({y \in S : <<y, x>> \in R})
Place(S, R, k) == CHOOSE x \in {y \in S : Rank(S, R, y) = k} : TRUE
Listed(S, R) == [k \in 1 .. Cardinality(S) |-> Place(S, R, k)]

\* The tasks core t gets from the constructor and the first n actions of s.
IndexOrder(s) == {e \in (DOMAIN s) \X (DOMAIN s) : e[1] <= e[2]}
ActionsFor(s, t, n) == {i \in 1 .. n : t \in Targets(s, s[i])}
TasksUpTo(s, t, n) ==
  LET forT == Listed(ActionsFor(s, t, n), IndexOrder(s)) IN
  <<StartSync>> \o [k \in DOMAIN forT |-> TaskOf(s[forT[k]])]

\* How many actions main gets through.
Reached(s) == Cardinality({i \in DOMAIN s : \A j \in 1 .. i : ~ Fatal(s[j])})

\* All the tasks core t gets.
Program(s, t) == TasksUpTo(s, t, Reached(s))

\* The kernels that end the process when their data is not what they need:
\* dpotrf, on a matrix that is not positive definite.
Failing == {"dpotrf"}

\* The tasks no watcher is told of, by kernel name.
Unmeasured == {"dummy", "init_blas_bloc", "init_symmetric", "init_array"}
Measured(tk) == tk.kernel \notin Unmeasured

\* The repeat loop of a task has a round, so that its kernel is run at all.
HasRounds(tk) == tk.repeat > 0

\* The rounds of the repeat loop for the tasks of a list: <<i, j>> is the j-th
\* round of the i-th task.
RoundsOf(tasks)   == UNION {{i} \X (1 .. tasks[i].repeat) : i \in DOMAIN tasks}
NotAfter(p, r)    == p[1] < r[1] \/ (p[1] = r[1] /\ p[2] <= r[2])
RoundOrder(tasks) == {e \in RoundsOf(tasks) \X RoundsOf(tasks) : NotAfter(e[1], e[2])}

\* The tasks of a list as the repeat loop runs them, each as often as it says.
Rounds(tasks) ==
  LET rounds == Listed(RoundsOf(tasks), RoundOrder(tasks)) IN
  [k \in DOMAIN rounds |-> tasks[rounds[k][1]]]

-------------------------------------------------------------------------------
\* The sync tasks among the first n tasks of a list, and among all.
SyncsWithin(tasks, n) == Cardinality({i \in 1 .. n : tasks[i].sync})
SyncsOf(tasks) == SyncsWithin(tasks, Len(tasks))

\* How many tasks come before the k-th sync task of a task list.
BeforeSync(tasks, k) == Cardinality({i \in DOMAIN tasks : SyncsWithin(tasks, i) < k})

\* All cores have the same number of sync tasks.
Balanced(s) ==
  \A t, u \in CoresOf(s) : SyncsOf(Program(s, t)) = SyncsOf(Program(s, u))

\* Main gets through all the actions of the scenario, and through all of it.
Runnable(s) == \A i \in DOMAIN s : ~ Fatal(s[i])
Survived(s) == Runnable(s) /\ s \notin Unwatchable

===============================================================================
