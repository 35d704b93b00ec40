------------------------------ MODULE Rendezvous ------------------------------
(***************************************************************************)
(* What a sync task promises to a scenario's author, with no word on how:  *)
(* a set of threads meets again and again, and no thread goes on from its  *)
(* k-th meeting before every thread has come to its own k-th meeting.      *)
(*                                                                         *)
(* The runtime's spinning two-slot barrier (module SpinBarrier) implements *)
(* this specification.                                                     *)
(***************************************************************************)
EXTENDS Naturals

CONSTANT Threads

VARIABLES
  arrived,   \* arrived[t]: the meetings thread t has come to
  passed     \* passed[t]: the meetings thread t has gone on from

meetings == <<arrived, passed>>

Init ==
  /\ arrived = [t \in Threads |-> 0]
  /\ passed  = [t \in Threads |-> 0]

\* A thread between two meetings comes to the next one.
Arrive(t) ==
  /\ arrived[t] = passed[t]
  /\ arrived' = [arrived EXCEPT ![t] = @ + 1]
  /\ UNCHANGED passed

\* A thread goes on once nobody is missing from the meeting it came to.
Pass(t) ==
  /\ arrived[t] = passed[t] + 1
  /\ \A u \in Threads : arrived[t] <= arrived[u]
  /\ passed' = [passed EXCEPT ![t] = @ + 1]
  /\ UNCHANGED arrived

Next == \E t \in Threads : Arrive(t) \/ Pass(t)

Spec == Init /\ [][Next]_meetings

===============================================================================
