# A specification of replay_tool

replay_tool reads a scenario (a YAML file), starts one worker thread per core
the scenario uses, gives each worker its kernels in the scenario's order, lets
workers start some of them at the same time, and reports what the watchers
measured. This directory holds TLA+ modules that model it, the TLC runs that
check them on small instances, and proofs TLAPS checks for all instances.

## The system

| component | code | state | operations |
|---|---|---|---|
| start barrier | `Runtime::work` 253-265, `runtime.hpp` 78-81 | `there[2]`, `go[2]`, `current` (atomics) | the way through it before a task with `sync` |
| worker loop | `Runtime::work` 231-309 | `task`, `i`, `localCurrent` on the stack | look at `go` and the queue, pop, meet, repeat a kernel, delete |
| queues | `Runtime::run`, `struct Thread` | per core: deque `q`, mutex `m` | push under the mutex; pop under it; `empty()` without it |
| start-up, shutdown | ctor, `initThreads`, `addWatcher`, `done` | `threads`, per core: `go`, `watchers_` | create, attach, stop, join, report |
| scenario interpretation | `main` | `actions`, `cores`, `dataMap` | declare cores, turn actions into tasks, give up |
| watchers, report | `AbstractWatcher` and its classes | `watchMap_`: name to entries | `before`, `after`, `keys`, `size`, `summarize` |
| flop counts | `runtime.hpp` 203-256 | none | arithmetic |
| kernels | `Kernels*.cpp` | arrays of `dataMap` | initialise, copy, BLAS calls |
| parameters | `kernel.hpp`, `kernel.cpp` | `Value` of each parameter | `createParam`, `getNthParam` |
| generators | `scripts/*.rb` | none | write scenarios |

The main thread and the workers share, per core, the queue with its mutex, the
`go` flag and the list of watchers; the workers share the barrier among
themselves and, through pointers in the tasks, the arrays of the scenario. Main
writes `go` and the queues and waits for the workers only in `done`. There are
no messages, no timeouts and nothing persistent. What is hard is concurrency:

- the barrier spins on two slots that are used again and again, with a count,
  a gate and a `current` index that are three separate atomics;
- the worker polls the queue without the mutex that protects it;
- shutdown relies on the order of two reads in one `while` condition;
- watchers are attached while the workers already run;
- a scenario with uneven sync tasks hangs; a bad one ends the process with the
  workers in the middle of a kernel;
- arrays are handed from core to core with nothing but barriers in between;
- kernels find their arrays by rank in an untyped list, free blocks with a size
  that is not the one they were allocated with, and reckon it in `int`;
- the report takes names and line counts from one list and reads all others
  with them.

What makes each component correct: the barrier lets nobody go on before all
have come, and lets everybody go on then. The queues lose, repeat and reorder
nothing, and nobody pops an empty one. The worker loop ends when, and only when,
it is told to and its queue is empty. Start-up attaches all watchers before
anything measured runs; shutdown reports after everything has run. Main gets
through any scenario without the workers' help. A watcher has one entry for each
run, and the report prints each entry once under its own name. The arrays a
kernel uses are allocated, large enough and nobody else's meanwhile. A
generator's scenarios are balanced, and they hand data over across a barrier.

## The modules

**Rendezvous** is the promise of a sync task: threads arrive at and pass their
meetings, and nobody passes the k-th before everybody has arrived at the k-th.

**SpinBarrier** is the barrier of `Runtime::work`. `bpc[t]` is the place of
thread `t` in it:

| action | code (`src/src/runtime.cpp`) |
|---|---|
| `LoadCurrent` | 255, the load of `current` |
| `Arrive` | 256-257, the increment of `there`, the test on `position` |
| `Flip`, `ClearThere`, `ClearGo`, `Open` | 258, 259, 260, 261, by the last arriver |
| `LeaveSpin` | 263, the load of `go` that ends the loop |

Lines 258-260 read `current` before they write; each is one step. `OnlyReleaser`
justifies that: nobody else is in the barrier's code then but spinning
on a gate that is closed. The steps interleave in one order for all threads.
The atomics are what makes this right: the read-modify-write operations on
`there` and the release store and acquire load of `go` order everything before
a meeting before everything after it, and all other accesses are sequentially
consistent. `arrived` and `passed` are history variables. `syncs`, the number of
sync tasks of each thread, is chosen in `Init` and never changes, so a run covers
all balanced and unbalanced combinations.

**Scenario** has the vocabulary of `main`: the kinds of action node, the tasks an
action gives its cores (`Targets`, `TaskOf`), and what a core gets from a whole
scenario (`Program`). A task keeps the kernel's name, the arrays among its
parameters, the sync flag, the repeat count and the name. Other parameters and
`flush` are left out.

**Replay** is the promise of the whole tool, with no threads, queues, locks or
barriers: each core runs its tasks one after another; it begins its k-th sync
task when every core has come to its own k-th one; the report follows when all
tasks are done, unless there is a watcher or an action main does not survive, or a
kernel that fails. `Runtime` implements it, with `running[t]` for a worker between
the barrier and the end of its task.

**Arrays** runs `Replay` with an eye on the arrays of the data section, which the
tasks of different cores share by pointer. An init kernel frees, allocates and
fills its array and stores the pointer at its end (`BeginKernel`, `EndKernel`);
the others read and write by position of the argument (`WrittenArg`). A task whose
repeat count is not positive runs no kernel, so it uses, frees and fills nothing
(`HasRounds`). Because
`Runtime` implements `Replay`, whatever order the threads can bring about is an
order `Arrays` goes through. A task's repeated rounds are one step here.
`OrderedByMeetings` says of the programs alone, by their sync tasks, that no core
writes between two meetings what another uses there (`Separated`), and that each array is filled
before it is used (`Supplied`); nothing in it depends on the schedule.

**Generators** has each script of `scripts/` as an operator that gives the action
list it writes. How many cores or nodes a machine has is a parameter, so that a
few of them can be checked and the proofs are about any number; the core
numbering of each machine is as in `util-generation.rb`. A loop of a script that
adds the same number of actions in each round is `InTurn`, its blocks one after
another. `uniq` and the difference of lists (`Uniq`, `Minus`) give the cores in
numeric order here, which changes no core's program: they list dummies on
different cores.

**Runtime** is the whole replay, main and workers, over `Scenario`, with
`SpinBarrier` as an instance. Main's place is `mpc`, a worker's `wpc[t]`:

| action | code |
|---|---|
| `Init` | the first loop of `initThreads` (each queue has its `start_sync`) |
| `Spawn` | its second loop: a `std::thread` starts |
| `AddWatcher` | one round of the loop of `addWatcher` |
| `FailWatcher` | main does not survive a watcher (`main.cpp` 86-109, `runtime.cpp` 166-193): it exits in the constructor for papi, follows a null pointer or gets an exception |
| `TakeAction` | the `switch` of `main` (`main.cpp` 119-182) |
| `RunLock`, `RunPush` | `Runtime::run`: the guard, `push_back` and the unlock |
| `CallDone`, `ClearThreadGo`, `Join`, `Report` | the end of the loop, and `done` |
| `LoadGo`, `Drain`, `TestQueue` | `while (go || !empty())`, `if (!empty())` (247-248) |
| `LockQueue`, `PopTask` | 249-253 |
| `EnterBarrier`, `InBarrier` | 253-265, steps of `SpinBarrier` |
| `StartKernel`, `FinishKernel`, `EndTask` | the repeat loop (281-304), `delete` (305) |
| `FailKernel` | `exit` in `kernel_dpotrf` (`KernelsBlas.cpp` 196-205) |
| `Over` | the process is over; nothing moves |

`empty()` races with `push_back`. `SeesTask` and `SeesNone` say what a worker may
see: while main is in `push_back` (between `RunLock` and `RunPush`) a look at an
empty queue may see either; a look at a queue with tasks sees them, because the
race can only be on the deque's end position and both its values differ from the
start position. The load of `go` in every round keeps the compiler from hoisting
the look out of the loop.

The list of watchers is appended to while workers iterate over it for
`start_sync`. No call is made for a dummy task, so the outcome of that race does
not matter as long as nothing measured runs then: `NoUnwatchedRun` is that
condition.

Here a watcher is a number. `Unwatchable` is the set of scenarios with a watchers
section main does not get through: in these it fails at any of the watchers, on any of
the cores, with the workers already running, and never comes to its first action. What
makes a section one of these is in **Watchers** (`NoSize`, `BadCounters`), where each core has the
same section and `FailKey` the same outcome.

What a kernel computes is left out, but for `dpotrf`, which may end the process.
`exit` and `std::terminate` end everything in one step; what workers do while
static objects are destroyed is undefined and left out. A worker
that finds no kernel would end the process too (`StartKernel`); main's own check
makes this unreachable, so that branch is never taken. `Runtime::run` also checks
that the core is declared, which `CoresAssumption` makes true as `main` does.

**Watchers** is one core's watchers, from the watchers section of a scenario to
the lines of the report. `Runtime` says that a watcher's `before` and `after` come
in pairs and only around measured rounds; here they have contents. The core's
tasks come from `Scenario` (`Rounds` of its `Program`), one round after another.

| action | code |
|---|---|
| `SkipKey`, `AddWatcher`, `FailKey` | one round of main's loop over the keys (`main.cpp` 85-115) with the watcher's constructor; `FailKey` is a null pointer followed, or the `exit` of the constructor for papi |
| `StartRound` | the round begins: the name is measured, or no call is made (`runtime.cpp` 281-290) |
| `CallBefore`, `CallAfter` | one watcher's `before` or `after` (289-292, 300-304) |
| `RunKernel` | the kernel (294-299), with any of `Durations` |
| `Report` | `headers` and `summarize` (26-50) |

The section is read before any task here, though workers already run then: only
`start_sync` tasks do, by `NoUnwatchedRun`, and these make no calls. `clock` goes on by one
with each call of a watcher and by more in a kernel, so an entry that counts
somebody else's kernel is too long by more than an entry may be. A PAPI counter
counts the clock's ticks; `zero` is when it was last at zero. The start of the counters and each
`PAPI_read_counters` set it to zero, as PAPI's own description of that call has it. So
`before` reads what was counted in the gap since the last `after`, `after` what was counted
since `before`, and the entry is the second less the first (`runtime.cpp` 119). The calls
are taken to succeed where a failure is only logged. `Indeterminate` is what
`valuesBefore_` holds before anything is stored there. `watchMap` is kept by
name, and `InOrder` is the order in which a `std::map` is gone through: that of
`StringOrder`, which may be any linear order of the names. `rows` has a block of lines
for each name, and a line the values of each watcher. The four columns
all reports share are left out.

**Params** has `createParam`, `getParamKind` with the `StringSwitch` it is built
from, `isa` and `dyn_cast_or_null` as far as they are used, and `getNthParam`.
A node of the file is a record of what is written there, and `Readable` says which
conversions yaml-cpp makes without an exception.

**Flops** has the formulas of the flops watchers, times six so that they stay
integers, and beside them the multiplications and additions of the textbook
loops, counted as the cardinality of their index sets.

**Kernels** is a machine that calls kernels one after another, in any order, on
any of the lists of parameters. `InitArray`, `InitBlasBloc` and `InitDpotrfBlock`
free, allocate and fill; `CopyArray`, `BlasKernel` and `Dpotrf` use. A pointer is
the number of bytes it points to, none for null, with the cells as far as they
are known: after a library call they are not (`WorkOn`). `fate` is how the process ends: an exception
while the data section is read, an assert, a null pointer followed, a block's end
overrun, the `exit` of `kernel_dpotrf`. `INT_MAX` and `SIZE_MAX` are the greatest
numbers of their types. A size may be negative: then the loops do nothing, and
what is converted to `size_t` becomes very large. A product that
overflows is undefined; `Products` has the two outcomes builds have, the wrapped
value and the one of a wider register. It then becomes a `size_t`
(`AsSize`). `Dpotrf` includes the `make_symmetric_positive_definite` that the
runtime calls before it. It leaves the cells unknown, so a second round of dpotrf on
the same block may fail, which it may in the program.

`made` and `sound` are history. `sound` says that every call so far has kept to
the contract the code silently has: sizes are not negative, an array is initialised as long as it is
used, initialised again only with as many elements, its bytes fit in an `int`
where the code reckons them in one, and memory suffices. `InBounds` and
`FreedWhole` say that this contract is enough: no block is left, and each is as
long as what its last init kernel filled and is freed with that size. They do not hold without it, as one sees by
dropping `sound`.

**MCSpinBarrier**, **MCRuntime**, **MCReplay**, **MCKernels**, **MCWatchers** give
the constants their values.
**SpinBarrierProofs**, **ScenarioProofs**, **RuntimeProofs**, **RuntimeRefines**,
**ArraysProofs**, **GeneratorsProofs**, **KernelsProofs** and **WatchersProofs** have the theorems, and no definitions of their own but those a proof needs.

In the modules of the code, the definitions marked as slips are
deliberately wrong variants of single actions or operators. Nothing refers to
them; put in the place of the right one, each makes a property fail, which is how
the properties were tested.

## What is checked

| run | question | result |
|---|---|---|
| `barrier_safety` | is the reuse of the slots safe? 4 threads, each with 1 to 3 sync tasks | holds, 1455 states up to symmetry |
| `barrier_live` | is it a rendezvous, and do all common meetings take place? 3 threads, 1 to 3 each | holds |
| `runtime_safety` | tasks conserved and in order, no empty pop, no task lost, hand-off, complete measurements, unbalanced scenarios never report; 2 cores, 2 watchers, 9 scenarios | holds, 23349 states |
| `runtime_three` | hand-offs with 3 cores and two rounds; do the workers of a balanced scenario ever all wait at the barrier? no deadlock | holds, 151349 states |
| `runtime_live` | `SpinBarrier` and `Replay` implemented; balanced scenarios end; main gets through; 2 cores, 1 watcher, 9 scenarios | holds, 21347 states |
| `sync_action` | does the `sync` action of `scenarii/test.yml` make the cores meet? | **violated** |
| `generated` | 16 scenarios of all generators: no array used by two cores at once if one writes it, none used before it is filled, the meetings alone see to both (`Separated`, `OrderedByMeetings`), all replayed to the end | holds, 30247 states |
| `bandwidth_brunch` | do the bandwidth generator's barriers separate its rounds on brunch? | **violated** |
| `kernels` | do kernels work on the arrays they are given, within their blocks; is what is freed what was allocated; is dpotrf's matrix fit for it; are operations reckoned as they are done? | holds, 64966 states |
| `naive_dgemm` | does `kernel_naive_dgemm` compute c + a * b? | **violated** |
| `flops_comment` | does the dpotrf watcher reckon what the comments' formulas give? | **violated** |
| `watchers` | does each entry measure its own round, a counter's less the gap before it; when is the report whole, when does it read past an end; does it fit its header? | holds, 11193 states |

`sync_action` is a disagreement between the scenarios and the program:
`scenarii/test.yml` line 62 has the action `sync`, three generators define a
helper that writes it (none of them calls it), and `main` knows only `barrier` and skips any other word silently.

`bandwidth_brunch` is a disagreement within a generator. Each round ends with
sync dummies on the first core of every node and on one more core of the source
node, its first plus one; a comment calls that a barrier. On brunch, nodes 0 to
4 begin at cores 0 to 4, so the extra core is the first core of another node and
gets two dummies where the others get one (for any source but the last). From
then on the cores are in different rounds: in the run, one frees and refills the
array `b` while another copies it. In the end that core waits for a meeting that
nobody else comes to. idkat and brunch-cod have nodes one core apart too. On
idchire nodes are eight cores apart and all is well, which `generated` shows.

`naive_dgemm` is a fault in a kernel: its three loops step through blocks of 64,
but hand `a`, `b` and `c` themselves to `naive_dgemm` each time. Up to one block
that is the product (`NaiveWithinBlock`). Above, the first products
are added again for each block there is, and the rest of `c` is never touched. The run
fills three tiles of three rows, with blocks of two, and calls the kernel on them. When it
returns the first product of the top-left cell has been added eight times, the one
with indices 1, 1, 1 once, and those with an index 2 not at all. `Returned`
asks for what a disagreement with a comment should rest on: arrays that were filled, and a call that
comes to its end. The number of
operations is right all the same (`NaiveCounts`), so the watcher's flops are those
the kernel does, of a smaller working set.

`flops_comment` is about `fmuls_potrf` and `fadds_potrf`, which differ from the formulas in the
comments below them in two ways. `1/3` and `1/6` are quotients of ints, which are 0; and they
are added to the last factor of a product, where the comments add them to the product of the
others, so exact quotients alone would not mend them. The
comments' formulas are what the loops do. As the code stands it is off
by n/6 in all, little but for a tile of 1: in the run a dpotrf of size 1, on an array that was filled,
returns, and is reckoned with 5/6 where the comments give 1. dtrsm and dsyrk are right
(`FlopsAsCounted`).

What `watchers` shows of the report is an equivalence, because the code does not
always get it right: the number of lines under every name is that of the first
name the first watcher has seen, in the order of strings, and that name may be one
nobody watches, such as `check_affinity`. The report is whole if and only if all
watched names ran that often (`ReportWhole`), and reads past the end of a vector
if and only if one of them ran less often (`PastEndOnly`).

Of the entries it shows how far each is its own round's (`EntriesSpan`). Those of
time and flops are the time of their kernel, and no more than the calls of the watchers
around it; sync's are from just before. Those of papi are not right. The first may be anything,
because it subtracts an array nobody has written. Each later one is the kernel's count
less that of the gap before it, since the kernel measured before: that of unmeasured kernels and
waiting at barriers included, so it may well be negative. It is off by just that: nothing
else gets in but the watchers' own calls. What the code means by its subtraction holds of
counters that go on counting when they are read, as `PAPI_read`'s do; `PAPI_read_counters`
is another call.

**Bounds.** Three meetings use each slot, then one of them again, with leftovers
of its first use: what a missing reset does wrong shows in the third meeting at
the latest. Four threads are a last arriver, a thread that has not come, one
that spins and a straggler of the meeting before. Two cores show all
interleavings of main with a worker and of two workers; the third core separates
the hand-off from one core to another from the meeting with a bystander. The
scenarios have each kind of action, sync flags on different cores in different
orders, an empty repeat, a named task, a kernel that may fail and watchers main does not survive.
Two watchers are enough for two to differ; `runtime_live` has one, as its
properties are not about what watchers record. For the generators, two or three cores have every
relation between cores the scripts can set up: the core that initialises for
itself, for a neighbour, for all others (the load scripts), and, with `Spread`,
both initialises for one and computes on what another initialised; the scripts
treat further cores alike until the numbering wraps to the next node. Repeat
counts are the scripts' own.

The kernels' numbers are scaled so that each limit lies between the sizes used:
an `int` of 8 bits with blocks of sizes 1, 2, 3, 4 and 6 has sizes whose bytes fit, whose
bytes overflow to a negative number (4, 16384 in the program) and whose bytes wrap
to a positive one that is too small (6), and one section has a size of -1. `Memory` is 300 bytes,
more than any size whose bytes fit in an `int` needs (288 are the bytes of the
largest block there is at all).
`BLOCK_SIZE` is 2 for 64 and `bump` 2 for 128, so there are tiles of one block, of
several whole ones and of one and a part. A cell is a quarter's multiple
(`Unit`), and the engine gives -3/4, 2/4, 3/4 in turn: of both signs, near the
ends of its range. The parameter lists have arrays in and out of order, one array
twice, an undeclared one, one of an unknown type and too few of
them. `MAX_EVENTS` is the real 4. Two watched and two other names,
in both orders, are enough for every way in which two lists can differ in length;
kernels take 10 or 30 ticks, more than all calls of three watchers.

`MaxSyncs` bounds the meetings of `SpinBarrier`, the only counter without a bound
of its own. In `Runtime` the scenario bounds every counter, and `MaxSyncs` is
any number that no core's sync tasks exceed (`SyncsAssumption`): for the finite
set of scenarios of a run there is one.

**Fairness.** Weak fairness of main and of each worker: each is a system thread,
each worker is alone on its core, and main waits only for a mutex a worker holds
for three statements. No fairness between outcomes of a racy look is assumed
beyond that: once main is out of `push_back` the look is not racy any more. In
`SpinBarrier`, weak fairness of each thread; in `Arrays`, that the replay as a
whole does not stop while some core or main can go on.

**Deadlock** is checked in `runtime_three` and `sync_action`, where all
scenarios are balanced. It is off where unbalanced ones are included, because a
worker that spins alone for ever is what the code does then;
`UnbalancedNeverReports` and `AllCommonMeetingsHeld` say exactly how far such a
scenario gets, and `NeverHangs` that balanced ones get stuck nowhere. It is off in `generated` and `watchers`, where nothing is left to do after the
report, and in `kernels`, where the process may have ended.

## What is proved

`SpinBarrierProofs` proves, for any finite non-empty `Threads` and any
`MaxSyncs > 0`, that `Spec` implies `[]TypeOK`, `[]NoEarlyPass`, `[]SlotFresh`,
`[]OnlyReleaser`, and that it implements `Rendezvous`. None of these is inductive:
that the gate is closed when a thread arrives depends on who has left the meeting
before. The strengthening is `OneMeeting`: there is one k such that the barrier is

- *gathering* for its k-th meeting: the current gate is closed, the count is the
  number of threads that spin on it and is not full, and every other thread has
  passed k meetings, or still spins on the other gate, which is open; or
- *releasing* its k-th meeting: one thread is on its way from `Flip` to `Open`
  and all others spin on the slot it closes the meeting of.

`MeetingArrive` is where the count matters: if the thread makes it full, the
spinning threads are all the others, by the cardinality of a subset. `MeetingOpen`
turns releasing k into gathering k + 1, where all the others are stragglers.
`WithinBudget` keeps k below `MaxSyncs`. The proofs use the library's facts on
finite sets and the two assumptions on the constants, nothing else.

**Runtime.** `RuntimeProofs` proves, for all cores, scenarios and numbers of
watchers that fulfil the assumptions, that `Spec` implies `[]` of every
invariant `runtime_safety` and `runtime_three` check. The assumptions are those of `Scenario` and
`Runtime`: a scenario is a finite list of actions of the kinds yaml-cpp can give,
`dummy` is a kernel (`main.cpp` 32), the cores are finitely many, at least one, and those main
declares, a watchers section main does not get through has a watcher, and no core has more than `MaxSyncs` sync tasks. None of the
properties is inductive; `Consistent` is, and it says for each place of each
thread what that thread may rely on:

| part | what it says | why it is needed |
|---|---|---|
| `MainPlace` | main has come only past watchers and actions it survives; its inner loops have a core to visit | at `done` the whole scenario is submitted |
| `QueuePlace` | the queue of a core is what `Submitted` has beyond what the worker has taken | order and completeness of the tasks |
| `LockPlace` | a mutex is held by main exactly in `push_back`, by a worker exactly in its pop; a worker that wants it has seen a task that nobody else can take | the unlocked look is good enough for the locked pop |
| `StopPlace` | `go` is cleared only after the last push; who has seen it cleared and the queue empty finds it empty for ever | the order of the two reads in the `while` |
| `WatchPlace` | the cores main has visited in this round of `addWatcher` have one watcher more than the others | all have all when it leaves the loop |
| `BarrierPlace` | a worker has passed as many meetings as it has begun sync tasks, and is inside the barrier exactly when it is at that line | ties the barrier's counts to the tasks |
| `RecordPlace` | each watcher has one entry for each measured round so far | the report |
| `OneMeeting` | the barrier's own invariant | the hand-off |

The theorems about the barrier are not proved again: `BP` is `SpinBarrierProofs` with the
cores for the threads and the sync tasks of the programs for `syncs`, and a step
of `Runtime` is a step of `SpinBarrier` or leaves it alone. While the workers run
nothing measured is in a queue before all watchers are there, because main
submits nothing while it attaches (`AllRunsWatched`). A worker is past its k-th
sync task only if everybody has come to the k-th one, so has run what precedes
it (`DataHandedOff`); a report needs all workers at the end of their programs and
out of the barrier, so all have met equally often (`NoReportUnbalanced`). A worker
at a closed gate waits for another that does not, which is still on its way or has passed
one meeting less than it has come to (`WaitedForFromMeeting`); if that one has left, it had
fewer sync tasks, so in a balanced scenario some worker can always go on
(`BalancedNeverHangs`): the part of `BalancedEnds` that needs no fairness.

`RuntimeRefines` has the two refinements. `BarrierIsSpinBarrier`: the initial
state is one of `SpinBarrier`, and each action of a worker maps to the action
of the same name there, the others to a stutter. `RuntimeIsReplay`: `running[t]` holds
between the barrier and the end of the task, `outcome` is read off `process`;
the last step out of the barrier, or the pop of a task without sync, is `Begin`,
`EndTask` is `End`, `Report`, the `exit`s and aborts of main and the `exit` of a worker are the outcomes, and
everything else stutters. That `Begin` is enabled for a sync task is `DataHandedOff`; that
`Report` finds all tasks done is `AllTasksRun`.

`ScenarioProofs` has the lemmas on what a core gets from a scenario: `TasksNext`
(the tasks of one more action are those of the actions before it, and one more
if it is for this core), `TasksGrow`, `ReachedBounds`, and what the count of sync tasks does
along a program (`SyncsNext`, `BeforeSyncBound`). They rest on `Listed`, the elements of a
finite set in a given order: `ListingSeq` says it is a sequence of them, and
`ListingExtended` that a new greatest element comes last. `Listed` is written
without recursion, as a choice by rank, because a recursive operator cannot be
reasoned about here; so are counts, as cardinalities.

**Arrays.** `ArraysProofs` proves of every scenario what `generated` checks of
those the scripts write: if its programs are `Separated`, `NoConflict` holds however the cores
are scheduled, and if they are `OrderedByMeetings`, so does `UsedReady`. The
argument is `Abreast`: no core has begun a sync task that another has not come
to. Of two cores that run at once each has then met as often as the other
(`RunningTogether`), so they are at tasks the programs already have between the same
meetings; and a task with fewer sync tasks up to it, on whichever core, is done
(`ComeIs`). `ReadyPlace` says that what a task done with has filled is ready but while
somebody renews it, which between the meetings of its use nobody may. An init with no round fills
nothing and supplies nothing, in the code, in `EndKernel` and in `Supplied` alike. The
condition is no assumption about scenarios: a scenario file may
break it, as that of `bandwidth_brunch` does, and it is proved of what the
scripts write otherwise (below). `BalancedGoesOn` needs `Balanced` instead: if
no core is in a kernel, one of those that have come to the fewest sync tasks may
go on, because those that are done have come to all of theirs and nobody has more.

**Generators.** `GeneratorsProofs` proves of every scenario the scripts write what
`generated` checks of sixteen: it is balanced, `Separated` and `Supplied`
(`ScriptsAreOrdered`). Hence every replay of such scenarios is
`OrderedByMeetings`, has no two cores at one array if one writes it and no array used
before it is filled (`ScriptsKeepApart`), and is never stuck (`ScriptsGoOn`). It is
proved for

| scripts | what is left open |
|---|---|
| `generate_scenario` | the machine, the kernel, local or remote, and the number of cores, on brunch at most the 96 it has |
| `_dtrsm`, `_mixed`, `_spread` | local or remote, and the number of cores, or of threads for each node |
| `_one_node_idchire` | the machine, the kernel, the repeat count, and which of the eight cores are local and which remote |
| `_load_*` | the source core or node, and the cores that copy |
| `_bandwidth` | the machine, the nodes and the source, if its second core is not another node's first; on idchire it never is, on the others only the last node's is not |

`FromScripts` says that all scenarios of a replay are of these and that the kernels
the scripts name are known, as they are to `main` (`main.cpp` 32-41). The bounds are
not there to ease the proof. With more than 96 cores on brunch `PhyCore` gives a core
twice, which then has two sync kernels where the others have one. Where nodes are one core apart, the second core of the source is the
first of the next node, and `bandwidth_brunch` shows what happens then.

The argument is by *stages*. `Program`, `SyncsWithin` and the meetings are about what
each core gets; a script is about one list of actions for all cores. A scenario is in
stages (`InStages`) if its actions can be numbered such that each core's sync
actions have the numbers 1 to `top`, each once, and any action of a core comes
after just those of them whose number is not above its own. Then the number of an
action is the number of meetings before it, whichever core it is for
(`StagedMeets`, by numbering a finite set), and `Separated` and `Supplied` follow from
conditions on the numbers alone (`StagedIsOrdered`). What remains is to number the
actions of each script:

| shape | scripts | stages |
|---|---|---|
| `MeetsOnce` | kernels that start together: the drivers, `_dtrsm`, `_spread`, `_one_node` | 0, and 1 for what is sync |
| `MixedStage` | two kernels on each core, one after the other | 0 for the fills, then 1 and 2 |
| `ThreeStages` | `_load_*`: fill, meet, copy | 0, 1 and 2, the barrier being for all cores |
| `InRounds` | `_bandwidth` | 0 for the first fill, then the round; its closing dummies belong to the next |

To tell which action is where, `InTurnIs` maps places in a list to blocks and places in
them (quotient and remainder, `SpotIs`), `JoinedIs` does so for lists put together, and
`InOrderOfIs` says that `Uniq` and `Minus` list each core once. On which core an array is
filled does not matter, but that this core comes to the meeting does: `SyncsOnce`
counts on each core the kernel it computes or the dummy it gets for having only
filled, never both. That no core is listed twice is the arithmetic of the numbering
(`PhyCoreIs`).

**Kernels.** `KernelsProofs` proves, for any data sections and parameter lists,
any `INT_MAX <= SIZE_MAX`, memory, block size and sequence of random numbers,
that `Spec` implies `[]` of all invariants the run checks. Assumed are the ranges
of these numbers, that a "number" of the data section fits in an `int` (`DataAssumption`) and that lists are sequences. The
inductive invariant `Kept` has `InBounds` and `FreedWhole` together, because each
needs the other: a kernel stays in its block since the block is as long as its
last init kernel filled it, and that is so since no call before ran out of one.
`FreedWhole` for the calls so far says nothing about the next free, unless it also says
what length each block has now. `LastCall` ties the history of the last call to the
parameters, which no call adds to or changes the kind of.

The steps come in two sorts, and each has a lemma. `RenewKeeps` is for the three
kernels that free, allocate and fill; what they have in common is that under the
contract the number of cells filled and the number of bytes agree, which
`TileBytes` shows of each build of an `int` product: one that fits is the same in
all. `WorkKeeps` is for the others; `ReachWithin` says that they reach over no more than
the contract gives them, with the block loops of `kernel_naive_dgemm` as the one case
that is not obvious. `BlockChange` and `CellsChange` say what an assignment to
an array leaves alone.

`ArgumentsAsWritten` is about ranks. The N-th array found is the one with N found before it,
and no two have the same rank (`RankIsUnique`); the arrays found are among those written;
if they are as many as written they are all of them, as a subset of a finite
set with its cardinality is the whole. `FlopsAreCounted` gets the counts of the loop
nests for every size without induction: exchanging the first two indices maps the triples with
i < j onto those with i > j, and the triples with i = j are pairs (`Triangles`).
`NaiveUpdatesAreCounted` maps the steps of the block loops, a block's start and a
place in the block, onto those of one loop by adding the two; quotient and
remainder are the way back (`StepsOfBlocks`), whether or not the size is a multiple of
the block's.

`MatrixIsFactorable` needs to know the cells, which `Kept` says nothing of. `KeptCells`
adds `CellsInRange`: the cells known of an array are its first ones, and those that
`init_blas_bloc` or `init_symmetric` made for n rows are between -1 and 1 but on the
diagonal of these n rows, which is above -1 and may have been bumped. `MadeSymmetric` says cell by cell
what `make_symmetric_positive_definite` makes of them, from which the result is symmetric
for any n (`IsSymmetric`), and for n up to `bump` each diagonal cell is above
`bump` - 1, and so above n - 1 others of less than 1 (`IsDominant`). `Dominant` asks for n - 1 times
each of the others and not for their sum, which is as much or more: a matrix that has it is
diagonally dominant, and the model lets dpotrf fail on any other.

**Watchers.** `WatchersProofs` proves, for any scenarios, watchers sections, counters, order of
the names and durations of the kernels, that `Spec` implies `[]` of all the
invariants `watchers` checks. Assumed are that a section is a finite map from names to lists,
that the order is linear, that durations are natural numbers and no counter has an empty
name. `EntriesSpan` is not inductive: it forgets what `before` has stored and which round
comes next. `Kept` adds

| part | what it says | why it is needed |
|---|---|---|
| `CallPlace` | between `before` and `after` there is a measured round at hand, and it is the last of those done once its kernel is; the clock is as many ticks past the kernel as watchers were told of it | the entry's upper end |
| `StorePlace` | while its `after` is due, a watcher has stored the tick of its own last `before`, or, if it is one of counters, what they had counted by then since its last `after`; counters were last at zero at the last call of the watcher | the entry's ends; without it a stale value would go unseen |
| `RecordPlace` | a watcher has exactly one entry for each round it was told of, under its name, in order, and each spans its round | the number of an entry is the number of a round |
| `ReportPlace` | the report is what the watchers had when it was made | the report's properties |

`RecordedNext` is the step that counts: an entry added under the name of the
round at hand is, among those of its name, the one with the number of this round
(`CountNext`), and all others keep theirs (`CountWithin`). At the report all watchers were
told of all rounds (`AllTold`), so `ReportIsWhole` and `PastTheEnd` are about how often each
name ran and nothing else: they say for every scenario exactly when the report
is right. `ListingWhole` of `ScenarioProofs`, that the list of a finite set in a linear order has all its
elements, is by ranks: they are as many as the elements and no two are the same.

**Only model-checked.** Everything that needs fairness (`AllCommonMeetingsHeld`,
`BalancedEnds`, `MainGetsThrough`, `AllReported`), which is out of the prover's
reach; of `BalancedEnds` and `AllReported` the part without fairness, that something can
always go on, is proved (`BalancedNeverHangs`, `ScriptsGoOn`). The disagreements with
docs and comments, which are about single inputs. What recursion or a fold computes cannot
be proved for every input: the library's induction theorems take an operator as a
parameter, which no installed prover can instantiate. So sums are stated as cardinalities
(`Updates`, `TrsmMuls`) or done without (`Dominant`). Where a claim can be stated as membership in a set, induction
over numbers is still possible: `SetInduction` is that form, got from the
well-foundedness of `<`, and `TasksAreTasks` and `TasksGrow` are proved with it.

## What is not modelled

All invariants the passing runs check are proved for every value of the
constants, and so are the refinements. Not modelled:

- a scenario without a kernel action (no cores; `done` then reads the first
  element of an empty map), missing keys of an action (an exception of yaml-cpp),
  and what `main` deletes after the report;
- static destruction during `exit` and what threads do meanwhile;
- `CycleWatcher`, which nothing creates, and PAPI calls that fail with nothing but a
  message;
- `flush_cache`, which allocates, fills and frees an array of its own, with no
  effect on anything modelled, and `readidi`, which is declared only;
- `check_affinity` and `Param::toString` (output only);
- of the LLVM headers all but what the program uses: the rest is instantiated by
  nobody or computes types at compile time;
- what the BLAS, LAPACK, hwloc, PAPI and yaml-cpp compute; the build files;
- the condition-variable barrier that is compiled out.
