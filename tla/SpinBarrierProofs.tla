-------------------------- MODULE SpinBarrierProofs ---------------------------
(***************************************************************************)
(* The barrier for any number of threads and of sync tasks: the invariants *)
(* of SpinBarrier follow from OneMeeting, which every step preserves, and  *)
(* each step is a step of Rendezvous or leaves its meetings alone.         *)
(***************************************************************************)
EXTENDS SpinBarrier, FiniteSetTheorems, TLAPS

\* The thread count MAX_THREADS is a positive number.
LEMMA MaxThreadsType == MAX_THREADS \in Nat /\ MAX_THREADS > 0
  BY ThreadsAssumption, FS_CardinalityType, FS_EmptySet DEF MAX_THREADS

\* The number of threads in a part of Threads is a number, at most MAX_THREADS,
\* and equals it for Threads alone.
LEMMA PartOfThreads ==
  ASSUME NEW P, P \subseteq Threads
  PROVE  /\ IsFiniteSet(P)
         /\ Cardinality(P) \in Nat
         /\ Cardinality(P) <= MAX_THREADS
         /\ Cardinality(P) = MAX_THREADS => P = Threads
  BY ThreadsAssumption, FS_Subset, FS_CardinalityType DEF MAX_THREADS

-------------------------------------------------------------------------------
(* What OneMeeting says of every state. *)

\* In any phase, the thread that turns the barrier over is alone in doing so.
LEMMA OnlyReleaserFromMeeting == OneMeeting => OnlyReleaser
  <1> SUFFICES ASSUME OneMeeting,
                      NEW t \in Threads, bpc[t] \in ReleaseLabels
               PROVE  /\ go[localCurrent[t]] = 0
                      /\ \A u \in Threads \ {t} :
                           bpc[u] = "spin" /\ localCurrent[u] = localCurrent[t]
    BY DEF OnlyReleaser
  <1>1. PICK k \in 0 .. MaxSyncs : Gathering(k) \/ \E l \in Threads : Releasing(l, k)
    BY DEF OneMeeting
  <1>2. ~ Gathering(k)
    BY DEF Gathering, Counted, ReleaseLabels
  <1>3. PICK l \in Threads : Releasing(l, k)
    BY <1>1, <1>2
  <1>4. l = t
    BY <1>3 DEF Releasing, ReleaseLabels
  <1> QED
    BY <1>3, <1>4 DEF Releasing

\* A thread about to count itself is gathering at the current slot.
LEMMA SlotFreshFromMeeting == OneMeeting => SlotFresh
  <1> SUFFICES ASSUME OneMeeting, NEW t \in Threads, bpc[t] = "arrive"
               PROVE  /\ localCurrent[t] = current
                      /\ go[current] = 0
                      /\ there[current] < MAX_THREADS
    BY DEF SlotFresh
  <1>1. PICK k \in 0 .. MaxSyncs : Gathering(k) \/ \E l \in Threads : Releasing(l, k)
    BY DEF OneMeeting
  <1>2. ASSUME NEW l \in Threads, Releasing(l, k) PROVE FALSE
    BY <1>2 DEF Releasing, ReleaseLabels
  <1> QED
    BY <1>1, <1>2 DEF Gathering, Counted

\* A thread at a closed gate waits for one that does not, and that has passed the
\* meeting before if it is not in the barrier.
LEMMA WaitedForFromMeeting ==
  OneMeeting =>
    \A t \in Threads : Waits(t) =>
      \E u \in Threads : ~ Waits(u) /\ (bpc[u] = "out" => passed[u] + 1 = arrived[t])
  <1> SUFFICES ASSUME OneMeeting, NEW t \in Threads, Waits(t)
               PROVE  \E u \in Threads :
                        ~ Waits(u) /\ (bpc[u] = "out" => passed[u] + 1 = arrived[t])
    OBVIOUS
  <1>1. PICK k \in 0 .. MaxSyncs : Gathering(k) \/ \E l \in Threads : Releasing(l, k)
    BY DEF OneMeeting
  <1>2. CASE \E l \in Threads : Releasing(l, k)
    BY <1>2 DEF Releasing, ReleaseLabels, Waits
  <1>3. CASE Gathering(k)
    <2>1. arrived[t] = k + 1
      BY <1>3 DEF Gathering, Waits, OneMeeting, TypeOK, Slots
    <2>2. there[current] = Cardinality({u \in Threads : Counted(u)})
          /\ there[current] < MAX_THREADS
      BY <1>3 DEF Gathering
    <2>3. {u \in Threads : Counted(u)} # Threads
      BY <2>2, MaxThreadsType DEF MAX_THREADS
    <2>4. PICK u \in Threads : ~ Counted(u)
      BY <2>3
    <2>5. ~ Waits(u) /\ (bpc[u] = "out" => passed[u] = k)
      BY <1>3, <2>4 DEF Gathering, Waits
    <2> QED
      BY <2>1, <2>5
  <1> QED
    BY <1>1, <1>2, <1>3

\* All threads are within one meeting of each other.
LEMMA NoEarlyPassFromMeeting == OneMeeting => NoEarlyPass
  <1> SUFFICES ASSUME OneMeeting, NEW t \in Threads, NEW u \in Threads
               PROVE  passed[t] <= arrived[u]
    BY DEF NoEarlyPass
  <1>1. PICK k \in 0 .. MaxSyncs : Gathering(k) \/ \E l \in Threads : Releasing(l, k)
    BY DEF OneMeeting
  <1>2. k \in Nat /\ arrived[u] \in Nat /\ passed[t] \in Nat
    BY MaxSyncsAssumption DEF OneMeeting, TypeOK
  <1>3. CASE Gathering(k)
    <2>1. arrived[u] = k \/ arrived[u] = k + 1
      BY <1>3 DEF Gathering
    <2>2. passed[t] = k \/ passed[t] + 1 = k
      BY <1>3 DEF Gathering
    <2> QED
      BY <1>2, <2>1, <2>2
  <1>4. CASE \E l \in Threads : Releasing(l, k)
    BY <1>2, <1>4 DEF Releasing
  <1> QED
    BY <1>1, <1>3, <1>4

-------------------------------------------------------------------------------
(* OneMeeting is inductive. *)

\* A fresh barrier gathers for its first meeting.
LEMMA MeetingInit == Init => OneMeeting
  <1> SUFFICES ASSUME Init PROVE OneMeeting
    OBVIOUS
  <1>1. TypeOK
    BY MaxThreadsType DEF Init, BarrierInit, TypeOK, Slots, Labels
  <1>2. WithinBudget
    BY MaxSyncsAssumption DEF Init, BarrierInit, WithinBudget
  <1>3. {t \in Threads : Counted(t)} = {}
    BY DEF Init, BarrierInit, Counted
  <1>4. Gathering(0)
    BY <1>3, MaxThreadsType, FS_EmptySet DEF Init, BarrierInit, Gathering, Slots
  <1>5. 0 \in 0 .. MaxSyncs
    BY MaxSyncsAssumption
  <1> QED
    BY <1>1, <1>2, <1>4, <1>5 DEF OneMeeting

\* A step that leaves every variable alone keeps the meeting as it is.
LEMMA MeetingStutter == OneMeeting /\ UNCHANGED vars => OneMeeting'
  <1> SUFFICES ASSUME OneMeeting, UNCHANGED vars PROVE OneMeeting'
    OBVIOUS
  <1> USE DEF vars, barrierVars
  <1>1. TypeOK' /\ WithinBudget'
    BY DEF OneMeeting, TypeOK, WithinBudget
  <1>2. PICK k \in 0 .. MaxSyncs : Gathering(k) \/ \E l \in Threads : Releasing(l, k)
    BY DEF OneMeeting
  <1>3. CASE Gathering(k)
    <2>1. {t \in Threads : Counted(t)}' = {t \in Threads : Counted(t)}
      BY DEF Counted
    <2>2. Gathering(k)'
      BY <1>3, <2>1 DEF Gathering, Counted
    <2> QED
      BY <1>1, <2>2 DEF OneMeeting
  <1>4. ASSUME NEW l \in Threads, Releasing(l, k) PROVE Releasing(l, k)'
    BY <1>4 DEF Releasing
  <1> QED
    BY <1>1, <1>2, <1>3, <1>4 DEF OneMeeting

\* A thread loads the slot number while the others gather.
LEMMA MeetingStart ==
  ASSUME OneMeeting, NEW t \in Threads, StartSyncTask(t), UNCHANGED syncs
  PROVE  OneMeeting'
  <1> USE DEF StartSyncTask, LoadCurrent, Goto
  <1>1. PICK k \in 0 .. MaxSyncs : Gathering(k) \/ \E l \in Threads : Releasing(l, k)
    BY DEF OneMeeting
  <1>2. TypeOK'
    BY DEF OneMeeting, TypeOK, Labels
  <1>3. WithinBudget'
    BY MaxSyncsAssumption DEF OneMeeting, TypeOK, WithinBudget
  <1>4. Gathering(k)
    BY <1>1 DEF Releasing, ReleaseLabels
  <1>5. {u \in Threads : Counted(u)}' = {u \in Threads : Counted(u)}
    BY DEF Counted, OneMeeting, TypeOK
  <1>6. Gathering(k)'
    BY <1>4, <1>5 DEF Gathering, Counted, OneMeeting, TypeOK
  <1> QED
    BY <1>2, <1>3, <1>6 DEF OneMeeting

\* A thread counts itself, and is the last one or goes to spin.
LEMMA MeetingArrive ==
  ASSUME OneMeeting, NEW t \in Threads, Arrive(t), UNCHANGED syncs
  PROVE  OneMeeting'
  <1> DEFINE C == {u \in Threads : Counted(u)}
  <1>1. PICK k \in 0 .. MaxSyncs : Gathering(k) \/ \E l \in Threads : Releasing(l, k)
    BY DEF OneMeeting
  <1>2. Gathering(k)
    BY <1>1 DEF Releasing, ReleaseLabels, Arrive
  <1>3. /\ localCurrent[t] = current /\ go[current] = 0 /\ there[current] < MAX_THREADS
        /\ arrived[t] = k /\ passed[t] = k
    BY <1>2 DEF Gathering, Counted, Arrive
  <1>4. TypeOK'
    <2>1. there' \in [Slots -> 0 .. MAX_THREADS]
      BY <1>3, MaxThreadsType DEF OneMeeting, TypeOK, Arrive
    <2> QED
      BY <2>1 DEF OneMeeting, TypeOK, Arrive, Goto, Labels
  <1>5. WithinBudget'
    BY MaxSyncsAssumption DEF OneMeeting, TypeOK, WithinBudget, Arrive, Goto
  <1>6. t \notin C /\ C \subseteq Threads
    BY DEF Counted, Arrive
  <1>7. there[current] \in Nat /\ there[current] = Cardinality(C)
    BY <1>2, <1>6, PartOfThreads DEF Gathering
  <1>8. CASE there[current] + 1 = MAX_THREADS
    <2>1. Cardinality(C \cup {t}) = MAX_THREADS
      <3>1. IsFiniteSet(C)
        BY <1>6, PartOfThreads
      <3> HIDE DEF C
      <3>2. Cardinality(C \cup {t}) = Cardinality(C) + 1
        BY <1>6, <3>1, FS_AddElement
      <3> QED
        BY <1>7, <1>8, <3>2
    <2>2. C \cup {t} = Threads
      BY <1>6, <2>1, PartOfThreads
    <2>3. bpc' = [bpc EXCEPT ![t] = "flip"]
      BY <1>3, <1>8 DEF Arrive, Goto
    <2>4. \A u \in Threads \ {t} :
            /\ bpc[u] = "spin" /\ localCurrent[u] = current
            /\ arrived[u] = k + 1 /\ passed[u] = k
      <3> SUFFICES ASSUME NEW u \in Threads \ {t}
                   PROVE  /\ bpc[u] = "spin" /\ localCurrent[u] = current
                          /\ arrived[u] = k + 1 /\ passed[u] = k
        OBVIOUS
      <3>1. Counted(u)
        BY <2>2
      <3> QED
        BY <1>2, <3>1 DEF Gathering, Counted, OneMeeting, TypeOK, Slots
    <2>5. Releasing(t, k)'
      BY <1>3, <2>3, <2>4 DEF Releasing, ReleaseLabels, Arrive, OneMeeting, TypeOK
    <2> QED
      BY <1>4, <1>5, <2>5 DEF OneMeeting
  <1>9. CASE there[current] + 1 # MAX_THREADS
    <2>1. bpc' = [bpc EXCEPT ![t] = "spin"]
      BY <1>3, <1>9 DEF Arrive, Goto
    <2>2. C' = C \cup {t}
      BY <1>3, <2>1 DEF Counted, Arrive, OneMeeting, TypeOK
    <2>3. Cardinality(C') = Cardinality(C) + 1
      BY <1>6, <2>2, PartOfThreads, FS_AddElement
    <2>4. there'[current] = there[current] + 1 /\ current' = current
      BY <1>3 DEF Arrive, OneMeeting, TypeOK
    <2>5. /\ there'[current'] = Cardinality(C')
          /\ there'[current'] < MAX_THREADS
      BY <1>3, <1>7, <1>9, <2>3, <2>4, MaxThreadsType
    <2>6. \A u \in Threads :
            \/ bpc'[u] = "out" /\ arrived'[u] = k /\ passed'[u] = k
            \/ /\ bpc'[u] = "arrive" /\ localCurrent'[u] = current'
               /\ arrived'[u] = k /\ passed'[u] = k
            \/ Counted(u)' /\ arrived'[u] = k + 1 /\ passed'[u] = k
            \/ /\ bpc'[u] = "spin" /\ localCurrent'[u] = 1 - current'
               /\ go'[1 - current'] = 1
               /\ arrived'[u] = k /\ passed'[u] + 1 = k
      BY <1>2, <1>3, <2>1 DEF Gathering, Counted, Arrive, OneMeeting, TypeOK
    <2>7. Gathering(k)'
      BY <1>3, <2>5, <2>6 DEF Gathering, Arrive
    <2> QED
      BY <1>4, <1>5, <2>7 DEF OneMeeting
  <1> QED
    BY <1>8, <1>9

\* The statements of the thread that turns the barrier over, but the last.
LEMMA MeetingRelease ==
  ASSUME OneMeeting, NEW t \in Threads, Flip(t) \/ ClearThere(t) \/ ClearGo(t),
         UNCHANGED syncs
  PROVE  OneMeeting'
  <1>1. PICK k \in 0 .. MaxSyncs : Gathering(k) \/ \E l \in Threads : Releasing(l, k)
    BY DEF OneMeeting
  <1>2. bpc[t] \in {"flip", "clearThere", "clearGo"}
    BY DEF Flip, ClearThere, ClearGo
  <1>3. PICK l \in Threads : Releasing(l, k)
    BY <1>1, <1>2 DEF Gathering, Counted
  <1>4. l = t
    BY <1>2, <1>3 DEF Releasing
  <1>5. TypeOK
    BY DEF OneMeeting
  <1>6. TypeOK'
    BY <1>5, MaxThreadsType DEF TypeOK, Flip, ClearThere, ClearGo, Goto, Labels, Slots
  <1>7. WithinBudget'
    BY <1>5 DEF OneMeeting, TypeOK, WithinBudget, Flip, ClearThere, ClearGo, Goto
  <1>8. Releasing(t, k)'
    <2>1. CASE Flip(t)
      BY <1>3, <1>4, <1>5, <2>1 DEF Releasing, ReleaseLabels, Flip, Goto, TypeOK, Slots
    <2>2. CASE ClearThere(t)
      BY <1>3, <1>4, <1>5, <2>2 DEF Releasing, ReleaseLabels, ClearThere, Goto, TypeOK, Slots
    <2>3. CASE ClearGo(t)
      BY <1>3, <1>4, <1>5, <2>3 DEF Releasing, ReleaseLabels, ClearGo, Goto, TypeOK, Slots
    <2> QED
      BY <2>1, <2>2, <2>3
  <1> QED
    BY <1>6, <1>7, <1>8 DEF OneMeeting

\* The gate opens, and the next meeting begins at the other slot, where nobody
\* is yet.
LEMMA MeetingOpen ==
  ASSUME OneMeeting, NEW t \in Threads, Open(t), UNCHANGED syncs
  PROVE  OneMeeting'
  <1>1. PICK k \in 0 .. MaxSyncs : Gathering(k) \/ \E l \in Threads : Releasing(l, k)
    BY DEF OneMeeting
  <1>2. PICK l \in Threads : Releasing(l, k)
    BY <1>1 DEF Gathering, Counted, Open
  <1>3. l = t
    BY <1>2 DEF Releasing, Open
  <1>4. TypeOK
    BY DEF OneMeeting
  <1>5. TypeOK'
    BY <1>4 DEF TypeOK, Open, Goto, Labels, Slots
  <1>6. WithinBudget'
    BY <1>4 DEF OneMeeting, TypeOK, WithinBudget, Open, Goto
  <1>7. k + 1 \in 0 .. MaxSyncs
    <2>1. arrived[t] = k + 1 /\ bpc[t] = "open"
      BY <1>2 DEF Releasing, Open
    <2>2. arrived[t] + 0 <= syncs[t]
      BY <2>1 DEF OneMeeting, WithinBudget
    <2> QED
      BY <1>4, <2>1, <2>2, MaxSyncsAssumption DEF TypeOK
  <1> DEFINE s == localCurrent[t]
  <1>8. /\ s \in 0 .. 1 /\ current = 1 - s /\ current' = current
        /\ there' = there /\ localCurrent' = localCurrent /\ arrived' = arrived
        /\ there[1 - s] = 0
        /\ go' = [go EXCEPT ![s] = 1] /\ go[1 - s] = 0
    BY <1>2, <1>3, <1>4 DEF Releasing, Open, TypeOK, Slots
  <1>9. go'[current'] = 0 /\ go'[1 - current'] = 1
    BY <1>4, <1>8 DEF TypeOK, Slots
  <1>10. \A u \in Threads \ {t} :
           /\ bpc'[u] = "spin" /\ localCurrent'[u] = 1 - current'
           /\ arrived'[u] = k + 1 /\ passed'[u] + 1 = k + 1
    BY <1>2, <1>3, <1>4, <1>8 DEF Releasing, Open, Goto, TypeOK, Slots
  <1>11. bpc'[t] = "out" /\ arrived'[t] = k + 1 /\ passed'[t] = k + 1
    BY <1>2, <1>3, <1>4 DEF Releasing, Open, Goto, TypeOK
  <1>12. {u \in Threads : Counted(u)}' = {}
    BY <1>8, <1>10, <1>11 DEF Counted
  <1>13. Gathering(k + 1)'
    <2>1. there'[current'] = Cardinality({u \in Threads : Counted(u)}')
      BY <1>8, <1>12, FS_EmptySet
    <2>2. there'[current'] < MAX_THREADS
      BY <1>8, MaxThreadsType
    <2> QED
      BY <1>9, <1>10, <1>11, <2>1, <2>2 DEF Gathering
  <1> QED
    BY <1>5, <1>6, <1>7, <1>13 DEF OneMeeting

\* A thread of the meeting before sees its gate open and goes on.
LEMMA MeetingLeave ==
  ASSUME OneMeeting, NEW t \in Threads, LeaveSpin(t), UNCHANGED syncs
  PROVE  OneMeeting'
  <1>1. PICK k \in 0 .. MaxSyncs : Gathering(k) \/ \E l \in Threads : Releasing(l, k)
    BY DEF OneMeeting
  <1>2. ~ \E l \in Threads : Releasing(l, k)
    BY DEF Releasing, ReleaseLabels, LeaveSpin
  <1>3. Gathering(k)
    BY <1>1, <1>2
  <1>4. TypeOK
    BY DEF OneMeeting
  <1>5. TypeOK'
    BY <1>4 DEF TypeOK, LeaveSpin, Goto, Labels
  <1>6. WithinBudget'
    BY <1>4 DEF OneMeeting, TypeOK, WithinBudget, LeaveSpin, Goto
  <1>7. localCurrent[t] # current /\ arrived[t] = k /\ passed[t] + 1 = k
    BY <1>3 DEF Gathering, Counted, LeaveSpin
  <1>8. {u \in Threads : Counted(u)}' = {u \in Threads : Counted(u)}
    BY <1>4, <1>7 DEF Counted, LeaveSpin, Goto, TypeOK
  <1>9. Gathering(k)'
    BY <1>3, <1>4, <1>7, <1>8 DEF Gathering, Counted, LeaveSpin, Goto, TypeOK
  <1> QED
    BY <1>5, <1>6, <1>9 DEF OneMeeting

\* Every step of the barrier keeps OneMeeting.
LEMMA MeetingStep == OneMeeting /\ [Next]_vars => OneMeeting'
  <1> SUFFICES ASSUME OneMeeting, [Next]_vars PROVE OneMeeting'
    OBVIOUS
  <1>1. CASE UNCHANGED vars
    BY <1>1, MeetingStutter
  <1>2. ASSUME NEW t \in Threads, StartSyncTask(t) \/ Inside(t), UNCHANGED syncs
        PROVE  OneMeeting'
    BY <1>2, MeetingStart, MeetingArrive, MeetingRelease, MeetingOpen, MeetingLeave
       DEF Inside
  <1> QED
    BY <1>1, <1>2 DEF Next

-------------------------------------------------------------------------------
(* The barrier is always in one meeting: the inductive invariant of the    *)
(* slot, gate and count protocol of Runtime::work.                         *)
THEOREM MeetingInvariant == Spec => []OneMeeting
  BY MeetingInit, MeetingStep, PTL DEF Spec

(* The counters of the barrier stay in range: no slot counts more threads  *)
(* than there are, in however many meetings.                               *)
THEOREM TypeCorrect == Spec => []TypeOK
  <1>1. OneMeeting => TypeOK
    BY DEF OneMeeting
  <1> QED
    BY <1>1, MeetingInvariant, PTL

(* No thread runs its k-th sync task before all threads have come to their *)
(* k-th one.                                                               *)
THEOREM NoThreadPassesEarly == Spec => []NoEarlyPass
  BY MeetingInvariant, NoEarlyPassFromMeeting, PTL

(* The slot number a thread works with between its load of `current` and   *)
(* its increment of `there` is never stale.                                *)
THEOREM SlotsAreFresh == Spec => []SlotFresh
  BY MeetingInvariant, SlotFreshFromMeeting, PTL

(* The four statements of the last arriver are atomic to everyone else.    *)
THEOREM ReleaserAlone == Spec => []OnlyReleaser
  BY MeetingInvariant, OnlyReleaserFromMeeting, PTL

-------------------------------------------------------------------------------
(* The barrier implements Rendezvous. *)

\* Seen from its meetings, a step of the barrier is one of Rendezvous or none.
LEMMA StepIsRendezvousStep ==
  OneMeeting /\ [Next]_vars => [Promise!Next]_Promise!meetings
  <1> SUFFICES ASSUME OneMeeting, [Next]_vars
               PROVE  [Promise!Next]_Promise!meetings
    OBVIOUS
  <1> USE DEF Promise!meetings
  <1>1. CASE UNCHANGED vars
    BY <1>1 DEF vars, barrierVars
  <1>2. ASSUME NEW t \in Threads, StartSyncTask(t) \/ Inside(t)
        PROVE  [Promise!Next]_Promise!meetings
    <2>1. PICK k \in 0 .. MaxSyncs : Gathering(k) \/ \E l \in Threads : Releasing(l, k)
      BY DEF OneMeeting
    <2>2. k \in Nat /\ \A u \in Threads : arrived[u] \in Nat /\ passed[u] \in Nat
      BY MaxSyncsAssumption DEF OneMeeting, TypeOK
    <2>3. CASE StartSyncTask(t) \/ Flip(t) \/ ClearThere(t) \/ ClearGo(t)
      BY <2>3 DEF StartSyncTask, LoadCurrent, Flip, ClearThere, ClearGo
    <2>4. CASE Arrive(t)
      <3>1. Gathering(k)
        BY <2>1, <2>4 DEF Releasing, ReleaseLabels, Arrive
      <3>2. arrived[t] = passed[t]
        BY <2>4, <3>1 DEF Gathering, Counted, Arrive
      <3>3. Promise!Arrive(t)
        BY <2>4, <3>2 DEF Promise!Arrive, Arrive
      <3> QED
        BY <3>3 DEF Promise!Next
    <2>5. CASE Open(t)
      <3>1. \E l \in Threads : Releasing(l, k)
        BY <2>1, <2>5 DEF Gathering, Counted, Open
      <3>2. \A u \in Threads : arrived[u] = k + 1 /\ passed[u] = k
        BY <3>1 DEF Releasing
      <3>3. Promise!Pass(t)
        BY <2>2, <2>5, <3>2 DEF Promise!Pass, Open
      <3> QED
        BY <3>3 DEF Promise!Next
    <2>6. CASE LeaveSpin(t)
      <3>1. Gathering(k)
        BY <2>1, <2>6 DEF Releasing, ReleaseLabels, LeaveSpin
      <3>2. arrived[t] = k /\ passed[t] + 1 = k
        BY <2>6, <3>1 DEF Gathering, Counted, LeaveSpin
      <3>3. \A u \in Threads : k <= arrived[u]
        BY <2>2, <3>1 DEF Gathering
      <3>4. Promise!Pass(t)
        BY <2>2, <2>6, <3>2, <3>3 DEF Promise!Pass, LeaveSpin
      <3> QED
        BY <3>4 DEF Promise!Next
    <2> QED
      BY <1>2, <2>3, <2>4, <2>5, <2>6 DEF Inside
  <1> QED
    BY <1>1, <1>2 DEF Next

(* Whatever the number of threads and of sync tasks, the spinning barrier  *)
(* of Runtime::work is a rendezvous.                                       *)
THEOREM BarrierIsRendezvous == Spec => ImplementsRendezvous
  <1>1. Init => Promise!Init
    BY DEF Init, BarrierInit, Promise!Init
  <1> QED
    BY <1>1, MeetingInvariant, StepIsRendezvousStep, PTL
       DEF Spec, ImplementsRendezvous, Promise!Spec

===============================================================================
