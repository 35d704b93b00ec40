-------------------------------- MODULE Arrays --------------------------------
(***************************************************************************)
(* The arrays of a scenario's data section while it is replayed.  A task   *)
(* holds pointers to parameters all cores share: an init kernel frees the  *)
(* array of its parameter, allocates and fills another and stores it; the  *)
(* other kernels read and write what the parameters point to.  Nothing but *)
(* the order the scenario asks for keeps two cores off the same array.     *)
(***************************************************************************)
EXTENDS Replay

VARIABLE ready   \* the arrays that are allocated and filled

vars == <<replay, ready>>

-------------------------------------------------------------------------------
\* The kernels that free and allocate the array they are given.
InitKernels == {"init_array", "init_blas_bloc", "init_symmetric"}

\* Which of its arrays a kernel writes, by position.
FirstWritten == InitKernels \cup {"copy", "dpotrf"}
WrittenArg ==
  [k \in FirstWritten \cup {"dtrsm", "dsyrk", "dgemm", "naive_dgemm"} |->
     CASE k \in FirstWritten -> 1
       [] k \in {"dtrsm", "dsyrk"} -> 2
       [] k \in {"dgemm", "naive_dgemm"} -> 3]

\* What the kernel of a task uses, writes, and frees to fill anew.
Uses(tk)   == IF HasRounds(tk) THEN {tk.args[i] : i \in DOMAIN tk.args} ELSE {}
Writes(tk) ==
  IF HasRounds(tk) /\ tk.kernel \in DOMAIN WrittenArg THEN {tk.args[WrittenArg[tk.kernel]]} ELSE {}
Renews(tk) == IF tk.kernel \in InitKernels THEN Writes(tk) ELSE {}

-------------------------------------------------------------------------------
(* What the programs of the cores must have, by the meetings alone.  P[t]  *)
(* is the program of core t.                                               *)

\* No core writes what another uses between the same two meetings.
Separated(P) ==
  \A t, u \in DOMAIN P : t # u =>
    \A i \in DOMAIN P[t], j \in DOMAIN P[u] :
      SyncsWithin(P[t], i) = SyncsWithin(P[u], j) => Writes(P[t][i]) \cap Uses(P[u][j]) = {}

\* What a task uses is filled before, by its own core or before a meeting that
\* both have.
Supplied(P) ==
  \A t \in DOMAIN P : \A i \in DOMAIN P[t] : \A a \in Uses(P[t][i]) \ Renews(P[t][i]) :
    \E u \in DOMAIN P : \E j \in DOMAIN P[u] :
      /\ a \in Renews(P[u][j])
      /\ SyncsWithin(P[u], j) < SyncsWithin(P[t], i) \/ (u = t /\ j < i)

-------------------------------------------------------------------------------
ArraysInit == Init /\ ready = {}

BeginKernel(t) == Begin(t) /\ ready' = ready \ Renews(Current(t))
EndKernel(t)   == End(t) /\ ready' = ready \cup Renews(Current(t))

ArraysNext ==
  /\ outcome = "none"
  /\ \/ \E t \in Replaying : BeginKernel(t) \/ EndKernel(t)
     \/ (Report \/ GiveUp) /\ UNCHANGED ready
  /\ UNCHANGED <<scenario, tasks>>

ArraysSpec == ArraysInit /\ [][ArraysNext]_vars

\* Each core goes on with its tasks, and main with its report.
FairArraysSpec ==
  /\ ArraysSpec
  /\ WF_vars(ArraysNext)

-------------------------------------------------------------------------------
(* No kernel writes, or frees, an array that a kernel on another core uses *)
(* at the same time.                                                       *)
NoConflict ==
  \A t, u \in Replaying :
    t # u /\ running[t] /\ running[u] => Writes(Current(t)) \cap Uses(Current(u)) = {}

(* A kernel other than an init runs only on arrays that some core has      *)
(* filled already, whichever core that was.                                *)
UsedReady ==
  \A t \in Replaying :
    running[t] => Uses(Current(t)) \ Renews(Current(t)) \subseteq ready

(* The programs the cores have been given are enough to know both by: the  *)
(* order of the tasks and the meetings between them keep the cores off     *)
(* each other's arrays, and each array is filled before its use.           *)
OrderedByMeetings == Separated(tasks) /\ Supplied(tasks)

(* Every scenario is replayed to its report, unless a factorisation fails: *)
(* no core is left waiting for a sync task that another does not have.     *)
AllReported == <>(outcome # "none")

===============================================================================
