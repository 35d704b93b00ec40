----------------------------- MODULE SpinBarrier ------------------------------
(***************************************************************************)
(* The barrier a worker goes through before a task whose `sync` flag is    *)
(* set (Runtime::work).  It spins on one of two slots, each an arrival     *)
(* counter `there` and a gate `go`; `current` says which slot the next     *)
(* meeting uses.  The thread that makes the count full turns to the other  *)
(* slot, clears it, and only then opens the gate the others spin on.       *)
(*                                                                         *)
(* Every access the code makes to an atomic is a step of its own, except   *)
(* that each of the three statements of the last arriver that read         *)
(* `current` before they write is one step: OnlyReleaser shows that nobody *)
(* else can touch the barrier meanwhile.                                   *)
(***************************************************************************)
EXTENDS Naturals, FiniteSets

CONSTANTS
  Threads,    \* the worker threads, one per core of the scenario
  MaxSyncs    \* no thread has more sync tasks than this

ASSUME ThreadsAssumption  == IsFiniteSet(Threads) /\ Threads # {}
ASSUME MaxSyncsAssumption == MaxSyncs \in Nat \ {0}

VARIABLES
  there,         \* there[s]: the threads counted at slot s
  go,            \* go[s]: 1 once slot s is open
  current,       \* the slot of the next meeting
  localCurrent,  \* localCurrent[t]: the slot thread t uses
  bpc,           \* bpc[t]: where thread t is in the barrier's code
  arrived,       \* history: the increments of a `there` by each thread
  passed,        \* history: the times each thread has left the barrier
  syncs          \* the sync tasks each thread's queue holds in all

barrierVars == <<there, go, current, localCurrent, bpc, arrived, passed>>
vars == <<barrierVars, syncs>>

MAX_THREADS == Cardinality(Threads)
Slots == 0 .. 1

Goto(t, label) == bpc' = [bpc EXCEPT ![t] = label]

-------------------------------------------------------------------------------
(***************************************************************************)
(* Slips an edit of the barrier could make.  No specification below uses   *)
(* them: each is to be put in the place of the definition it misspells, to *)
(* see that the properties tell the two apart.                             *)
(***************************************************************************)

\* The test forgets that there++ returns the count before the increment.
ArriveOneShort(t) ==
  LET position == there[localCurrent[t]] IN
  /\ bpc[t] = "arrive"
  /\ there' = [there EXCEPT ![localCurrent[t]] = @ + 1]
  /\ arrived' = [arrived EXCEPT ![t] = @ + 1]
  /\ Goto(t, IF position + 2 = MAX_THREADS THEN "flip" ELSE "spin")
  /\ UNCHANGED <<go, current, localCurrent, passed>>

\* The slot of the next meeting is left as it is.
FlipForgotten(t) ==
  /\ bpc[t] = "flip"
  /\ Goto(t, "clearThere")
  /\ UNCHANGED <<there, go, current, localCurrent, arrived, passed>>

\* The count of the next slot keeps the last use's arrivals.
ClearThereForgotten(t) ==
  /\ bpc[t] = "clearThere"
  /\ Goto(t, "clearGo")
  /\ UNCHANGED <<there, go, current, localCurrent, arrived, passed>>

\* The gate of the next slot stays open from its last use.
ClearGoForgotten(t) ==
  /\ bpc[t] = "clearGo"
  /\ Goto(t, "open")
  /\ UNCHANGED <<there, go, current, localCurrent, arrived, passed>>

-------------------------------------------------------------------------------
(* A barrier as the constructor leaves it. *)
BarrierInit ==
  /\ there = [s \in Slots |-> 0]
  /\ go = [s \in Slots |-> 0]
  /\ current = 0
  /\ localCurrent = [t \in Threads |-> 0]
  /\ bpc = [t \in Threads |-> "out"]
  /\ arrived = [t \in Threads |-> 0]
  /\ passed = [t \in Threads |-> 0]

\* int localCurrent = current.load(acquire)
LoadCurrent(t) ==
  /\ bpc[t] = "out"
  /\ localCurrent' = [localCurrent EXCEPT ![t] = current]
  /\ Goto(t, "arrive")
  /\ UNCHANGED <<there, go, current, arrived, passed>>

\* int position = there[localCurrent]++, and the test on position
Arrive(t) ==
  LET position == there[localCurrent[t]] IN
  /\ bpc[t] = "arrive"
  /\ there' = [there EXCEPT ![localCurrent[t]] = @ + 1]
  /\ arrived' = [arrived EXCEPT ![t] = @ + 1]
  /\ Goto(t, IF position + 1 = MAX_THREADS THEN "flip" ELSE "spin")
  /\ UNCHANGED <<go, current, localCurrent, passed>>

\* current.store(1 - current)
Flip(t) ==
  /\ bpc[t] = "flip"
  /\ current' = 1 - current
  /\ Goto(t, "clearThere")
  /\ UNCHANGED <<there, go, localCurrent, arrived, passed>>

\* there[current] = 0
ClearThere(t) ==
  /\ bpc[t] = "clearThere"
  /\ there' = [there EXCEPT ![current] = 0]
  /\ Goto(t, "clearGo")
  /\ UNCHANGED <<go, current, localCurrent, arrived, passed>>

\* go[current] = 0
ClearGo(t) ==
  /\ bpc[t] = "clearGo"
  /\ go' = [go EXCEPT ![current] = 0]
  /\ Goto(t, "open")
  /\ UNCHANGED <<there, current, localCurrent, arrived, passed>>

\* go[localCurrent].store(1, release); the last arriver does not spin
Open(t) ==
  /\ bpc[t] = "open"
  /\ go' = [go EXCEPT ![localCurrent[t]] = 1]
  /\ passed' = [passed EXCEPT ![t] = @ + 1]
  /\ Goto(t, "out")
  /\ UNCHANGED <<there, current, localCurrent, arrived>>

\* while (!go[localCurrent].load(acquire)); -- the load that ends the loop
LeaveSpin(t) ==
  /\ bpc[t] = "spin"
  /\ go[localCurrent[t]] = 1
  /\ passed' = [passed EXCEPT ![t] = @ + 1]
  /\ Goto(t, "out")
  /\ UNCHANGED <<there, go, current, localCurrent, arrived>>

\* A step of thread t inside the barrier's code.
Inside(t) ==
  \/ Arrive(t)
  \/ Flip(t)
  \/ ClearThere(t)
  \/ ClearGo(t)
  \/ Open(t)
  \/ LeaveSpin(t)

-------------------------------------------------------------------------------
(***************************************************************************)
(* The barrier on its own: each thread has some number of sync tasks to    *)
(* run, at least the "start_sync" one that initThreads queues, and starts  *)
(* the next one whenever it gets to it.                                    *)
(***************************************************************************)
Init ==
  /\ BarrierInit
  /\ syncs \in [Threads -> 1 .. MaxSyncs]

StartSyncTask(t) ==
  /\ arrived[t] < syncs[t]
  /\ LoadCurrent(t)

Next == \E t \in Threads : (StartSyncTask(t) \/ Inside(t)) /\ UNCHANGED syncs

Spec == Init /\ [][Next]_vars

\* The operating system runs every worker, which is alone on its core.
FairSpec ==
  /\ Spec
  /\ \A t \in Threads : WF_vars((StartSyncTask(t) \/ Inside(t)) /\ UNCHANGED syncs)

-------------------------------------------------------------------------------
Labels == {"out", "arrive", "flip", "clearThere", "clearGo", "open", "spin"}

\* Thread t spins on a gate that is not open.
Waits(t) == bpc[t] = "spin" /\ go[localCurrent[t]] = 0

\* Where only the last arriver goes.
ReleaseLabels == {"flip", "clearThere", "clearGo", "open"}

(* The counters stay in range: `there` never counts more threads than      *)
(* there are, so each slot is cleared before it is counted on again.       *)
TypeOK ==
  /\ there \in [Slots -> 0 .. MAX_THREADS]
  /\ go \in [Slots -> 0 .. 1]
  /\ current \in Slots
  /\ localCurrent \in [Threads -> Slots]
  /\ bpc \in [Threads -> Labels]
  /\ arrived \in [Threads -> Nat]
  /\ passed \in [Threads -> Nat]
  /\ syncs \in [Threads -> 1 .. MaxSyncs]

(* No thread leaves its k-th meeting before every thread has come to its   *)
(* own k-th meeting, however far the fast threads run ahead.               *)
NoEarlyPass == \A t, u \in Threads : passed[t] <= arrived[u]

(* The slot number a thread loaded is not stale when it counts itself      *)
(* there: the slot is still the current one, closed and not yet full.      *)
SlotFresh ==
  \A t \in Threads : bpc[t] = "arrive" =>
    /\ localCurrent[t] = current
    /\ go[current] = 0
    /\ there[current] < MAX_THREADS

(* While the last arriver turns the barrier over, every other thread spins *)
(* on the slot that is still closed: nobody can see the half-cleared one.  *)
OnlyReleaser ==
  \A t \in Threads : bpc[t] \in ReleaseLabels =>
    /\ go[localCurrent[t]] = 0
    /\ \A u \in Threads \ {t} : bpc[u] = "spin" /\ localCurrent[u] = localCurrent[t]

-------------------------------------------------------------------------------
(***************************************************************************)
(* The inductive invariant.  The barrier is always in its k-th meeting,    *)
(* for one k, and in one of two phases of it.                              *)
(***************************************************************************)

Counted(t) == bpc[t] = "spin" /\ localCurrent[t] = current

\* Threads gather at the current slot; stragglers of the meeting before may
\* still spin on the other one, whose gate is open.
Gathering(k) ==
  /\ go[current] = 0
  /\ there[current] = Cardinality({t \in Threads : Counted(t)})
  /\ there[current] < MAX_THREADS
  /\ \A t \in Threads :
       \/ bpc[t] = "out" /\ arrived[t] = k /\ passed[t] = k
       \/ /\ bpc[t] = "arrive" /\ localCurrent[t] = current
          /\ arrived[t] = k /\ passed[t] = k
       \/ Counted(t) /\ arrived[t] = k + 1 /\ passed[t] = k
       \/ /\ bpc[t] = "spin" /\ localCurrent[t] = 1 - current
          /\ go[1 - current] = 1
          /\ arrived[t] = k /\ passed[t] + 1 = k

\* Thread l came last and turns the barrier over; all others spin.
Releasing(l, k) ==
  LET s == localCurrent[l] IN
  /\ bpc[l] \in ReleaseLabels
  /\ go[s] = 0
  /\ \A u \in Threads \ {l} : bpc[u] = "spin" /\ localCurrent[u] = s
  /\ \A t \in Threads : arrived[t] = k + 1 /\ passed[t] = k
  /\ current = IF bpc[l] = "flip" THEN s ELSE 1 - s
  /\ bpc[l] \in {"clearGo", "open"} => there[1 - s] = 0
  /\ bpc[l] = "open" => go[1 - s] = 0

\* No thread starts a sync task it does not have.
WithinBudget ==
  \A t \in Threads :
    arrived[t] + (IF bpc[t] = "arrive" THEN 1 ELSE 0) <= syncs[t]

(* One meeting at a time: all threads are at the same meeting, or have not *)
(* yet left the one before, and one thread at most turns the barrier over. *)
OneMeeting ==
  /\ TypeOK
  /\ WithinBudget
  /\ \E k \in 0 .. MaxSyncs :
       Gathering(k) \/ \E l \in Threads : Releasing(l, k)

-------------------------------------------------------------------------------
(* The barrier implements its promise. *)
Promise == INSTANCE Rendezvous
ImplementsRendezvous == Promise!Spec

(* Every meeting all threads still have a task for takes place, and no     *)
(* other: each thread ends up having passed exactly as many meetings as    *)
(* the thread with the fewest sync tasks, and stays there.                 *)
FewestSyncs == CHOOSE n \in 1 .. MaxSyncs :
  /\ \E t \in Threads : syncs[t] = n
  /\ \A t \in Threads : n <= syncs[t]
AllCommonMeetingsHeld == <>[](\A t \in Threads : passed[t] = FewestSyncs)

===============================================================================
