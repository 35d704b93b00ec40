-------------------------------- MODULE Replay --------------------------------
(***************************************************************************)
(* What replaying a scenario promises, with no word on threads, queues,    *)
(* locks and barriers: each core runs its tasks one after another; a core  *)
(* begins its k-th sync task when every core is done with all that comes   *)
(* before its own k-th one; the report comes when all tasks are done.  A   *)
(* scenario with a watcher or an action main does not survive may break    *)
(* off anywhere, and any scenario in the middle of a kernel that fails.    *)
(***************************************************************************)
EXTENDS Scenario

VARIABLES
  scenario,   \* the scenario being replayed; never changes
  tasks,      \* tasks[t]: what core t has to run; never changes
  ran,        \* ran[t]: how many tasks core t is done with
  running,    \* running[t]: core t is in the middle of the next one
  outcome     \* "none" yet, "reported" or "gaveUp"

replay == <<scenario, tasks, ran, running, outcome>>

Replaying == DOMAIN tasks   \* the cores
Current(t) == tasks[t][ran[t] + 1]

\* How many sync tasks core t has come to: those it is past, and the one at hand.
SyncsCome(t) == Cardinality({i \in DOMAIN tasks[t] : i <= ran[t] + 1 /\ tasks[t][i].sync})

Init ==
  /\ scenario \in Scenarios
  /\ tasks = [t \in CoresOf(scenario) |-> Program(scenario, t)]
  /\ ran = [t \in CoresOf(scenario) |-> 0]
  /\ running = [t \in CoresOf(scenario) |-> FALSE]
  /\ outcome = "none"

Begin(t) ==
  /\ ~ running[t] /\ ran[t] < Len(tasks[t])
  /\ Current(t).sync => \A u \in Replaying : SyncsCome(u) >= SyncsCome(t)
  /\ running' = [running EXCEPT ![t] = TRUE]
  /\ UNCHANGED <<ran, outcome>>

End(t) ==
  /\ running[t]
  /\ running' = [running EXCEPT ![t] = FALSE]
  /\ ran' = [ran EXCEPT ![t] = @ + 1]
  /\ UNCHANGED outcome

Report ==
  /\ \A t \in Replaying : ran[t] = Len(tasks[t])
  /\ Survived(scenario)
  /\ outcome' = "reported"
  /\ UNCHANGED <<ran, running>>

GiveUp ==
  /\ \/ ~ Survived(scenario)
     \/ \E t \in Replaying :
          running[t] /\ HasRounds(Current(t)) /\ Current(t).kernel \in Failing
  /\ outcome' = "gaveUp"
  /\ UNCHANGED <<ran, running>>

Step == (\E t \in Replaying : Begin(t) \/ End(t)) \/ Report \/ GiveUp

Next == outcome = "none" /\ Step /\ UNCHANGED <<scenario, tasks>>

Spec == Init /\ [][Next]_replay

===============================================================================
