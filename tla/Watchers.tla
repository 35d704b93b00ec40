------------------------------- MODULE Watchers -------------------------------
(***************************************************************************)
(* The watchers of one core, from the watchers section of a scenario to    *)
(* the lines of the report.  Module Runtime has the threads; here the core *)
(* runs its tasks one after another and the clock goes on: by one tick for *)
(* each call of a watcher, by more for a kernel.                           *)
(***************************************************************************)
EXTENDS Scenario, Flops

CONSTANTS
  Sections,     \* watchers sections: the list of names each key has
  IntParams,    \* the ints of the data section, by name
  Counters,     \* the counters PAPI knows
  Names,        \* the names of kernels, tasks and keys
  StringOrder,  \* the pairs of names of which the first is not after the second
  Durations,    \* how many ticks a kernel may take
  Indeterminate \* what uninitialised memory may hold

\* A section is a map from keys to lists.
ASSUME SectionsAssumption ==
  \A sec \in Sections :
    /\ IsFiniteSet(DOMAIN sec) /\ DOMAIN sec \subseteq Names
    /\ \A key \in DOMAIN sec : sec[key] \in Seq({sec[key][i] : i \in DOMAIN sec[key]})

\* The order of strings is a linear order.
ASSUME OrderAssumption ==
  /\ \A x, y \in Names : <<x, y>> \in StringOrder \/ <<y, x>> \in StringOrder
  /\ \A x, y \in Names : <<x, y>> \in StringOrder /\ <<y, x>> \in StringOrder => x = y
  /\ \A x, y, z \in Names :
       <<x, y>> \in StringOrder /\ <<y, z>> \in StringOrder => <<x, z>> \in StringOrder

\* No counter has the blank for its name; a kernel takes time.
ASSUME ValuesAssumption ==
  /\ \A x \in DOMAIN IntParams : IntParams[x] \in Int
  /\ "" \notin Counters
  /\ Durations \subseteq Nat /\ Indeterminate \subseteq Int

\* The tasks of the cores, as often as they repeat.
RoundsRun ==
  UNION {UNION {{Rounds(Program(s, t))[i] : i \in DOMAIN Rounds(Program(s, t))} :
                t \in CoresOf(s)} : s \in Scenarios}
ASSUME NamesAssumption == \A tk \in RoundsRun : tk.name \in Names

VARIABLES
  keys,      \* the keys of the section main has still to come to
  section,   \* the watchers section; never changes
  watchers,  \* the watchers of the core
  rounds,    \* what the core has still to run
  pc,        \* where it is, or how the process ended
  at,        \* the watcher whose before or after is next
  clock,
  done,      \* history: the measured rounds, with the ticks their kernels had
  header, rows   \* the report

vars == <<keys, section, watchers, rounds, pc, at, clock, done, header, rows>>

MAX_EVENTS == 4
WatchedKernels == {"naive_dgemm", "dgemm", "copy", "dtrsm", "dsyrk", "dpotrf"}

\* The order in which a map or a set of strings is iterated over.
InOrder(names) == Listed(names, StringOrder)

-------------------------------------------------------------------------------
\* A watcher: what it was constructed with; its entries by task name; what
\* before() has stored; when its counters were last at zero.
Watcher(kind, arg, stored) ==
  [kind |-> kind, arg |-> arg, watchMap |-> <<>>, stored |-> stored, zero |-> 0,
   started |-> FALSE]

FlopsKeys == [flops_dgemm |-> "dgemm", flops_dtrsm |-> "dtrsm", flops_dsyrk |-> "dsyrk",
              flops_dpotrf |-> "dpotrf"]
SizedKeys == DOMAIN FlopsKeys \cup {"size"}
KnownKeys == SizedKeys \cup {"papi", "time", "sync"}

\* The watchers the constructor for a key may make.
Constructed(key, params) ==
  CASE key = "papi"  -> {Watcher("papi", params, v) : v \in Indeterminate}
    [] key = "size"  -> {Watcher("size", IntParams[params[1]], 0)}
    [] key \in DOMAIN FlopsKeys ->
         {Watcher("flops", KernelFlops(FlopsKeys[key], IntParams[params[1]]), 0)}
    [] OTHER -> {Watcher(key, 0, 0)}

\* params.front() is not there, or names no int: main follows a null pointer.
NoSize(key, params) ==
  key \in SizedKeys /\ ~ (params # <<>> /\ params[1] \in DOMAIN IntParams)

\* Slip: as many counters as the scenario likes.
BadCountersAnyNumber(key, params) ==
  key = "papi" /\ \E i \in DOMAIN params : params[i] \notin Counters

\* The constructor for papi gives up.
BadCounters(key, params) ==
  key = "papi" /\ (Len(params) > MAX_EVENTS \/ \E i \in DOMAIN params : params[i] \notin Counters)

-------------------------------------------------------------------------------
\* Slip: the time is taken once.
BeforeOnce(w) ==
  CASE w.kind = "papi" /\ ~ w.started -> [w EXCEPT !.started = TRUE, !.zero = clock]
    [] w.kind = "papi" /\ w.started   -> [w EXCEPT !.stored = clock - w.zero, !.zero = clock]
    [] w.kind = "size"                -> w
    [] OTHER                          -> IF w.stored = 0 THEN [w EXCEPT !.stored = clock] ELSE w

\* before(): the first call on a PerfCtrWatcher only starts the counters; the later
\* ones read them, which sets them to zero.
Before(w) ==
  CASE w.kind = "papi" /\ ~ w.started -> [w EXCEPT !.started = TRUE, !.zero = clock]
    [] w.kind = "papi" /\ w.started   -> [w EXCEPT !.stored = clock - w.zero, !.zero = clock]
    [] w.kind = "size"                -> w
    [] OTHER                          -> [w EXCEPT !.stored = clock]

\* What after() records: of the counters, what they have counted since before()
\* less what before() has read.
Entry(w) ==
  CASE w.kind = "papi" -> (clock - w.zero) - w.stored
    [] w.kind = "size" -> w.arg
    [] w.kind = "sync" -> w.stored
    [] OTHER           -> clock - w.stored

\* watchMap_[name], which makes the list if there is none
Entries(w, name) == IF name \in DOMAIN w.watchMap THEN w.watchMap[name] ELSE <<>>

\* after(name): adds an entry, for which a PerfCtrWatcher reads its counters again.
After(w, name) ==
  [w EXCEPT
     !.watchMap = [x \in DOMAIN @ \cup {name} |->
                     IF x = name THEN Append(Entries(w, name), Entry(w)) ELSE @[x]],
     !.zero = IF w.kind = "papi" THEN clock ELSE @]

-------------------------------------------------------------------------------
\* Slip: the names nobody watches are reported too.
KeysOfAll(w) == InOrder(DOMAIN w.watchMap)

KeysOf(w) == InOrder(DOMAIN w.watchMap \cap WatchedKernels)

\* Slip: the size of the last list.
SizeOfLast(w) ==
  LET names == InOrder(DOMAIN w.watchMap) IN
  IF names = <<>> THEN 0 ELSE Len(w.watchMap[names[Len(names)]])

\* The size of the first list, whoever watches it.
SizeOf(w) ==
  LET names == InOrder(DOMAIN w.watchMap) IN
  IF names = <<>> THEN 0 ELSE Len(w.watchMap[names[1]])

\* The columns a watcher has in the header; one without a name is blank.
DataHeader(w) ==
  CASE w.kind = "papi"  -> [i \in 1 .. MAX_EVENTS |-> IF i <= Len(w.arg) THEN w.arg[i] ELSE ""]
    [] w.kind = "flops" -> <<"gflops">>
    [] w.kind = "size"  -> <<"size">>
    [] w.kind = "sync"  -> <<"cycle-sync">>
    [] w.kind = "time"  -> <<"time-ms">>

\* Slip: all MAX_EVENTS counters of an entry are printed.
DataEntryAllEvents(w, name, i) ==
  LET entry == IF i <= Len(w.watchMap[name]) THEN w.watchMap[name][i] ELSE "past the end" IN
  CASE w.kind = "papi"  -> [e \in 1 .. MAX_EVENTS |-> entry]
    [] w.kind = "flops" -> <<[flops |-> w.arg, time |-> entry]>>
    [] OTHER            -> <<entry>>

\* The values a watcher has in a line.
DataEntry(w, name, i) ==
  LET entry == IF i <= Len(w.watchMap[name]) THEN w.watchMap[name][i] ELSE "past the end" IN
  CASE w.kind = "papi"  -> [e \in 1 .. Len(w.arg) |-> entry]
    [] w.kind = "flops" -> <<[flops |-> w.arg, time |-> entry]>>
    [] OTHER            -> <<entry>>

\* A line of the report: the values of each watcher.
Row(name, i) ==
  [name |-> name, number |-> i, pastEnd |-> \E w \in DOMAIN watchers : i > Len(Entries(watchers[w], name)),
   values |-> [w \in DOMAIN watchers |-> DataEntry(watchers[w], name, i)]]

\* headers: the columns of each watcher.
Headers == [w \in DOMAIN watchers |-> DataHeader(watchers[w])]

\* summarize: the first watcher has the names, and the number of lines that there
\* are for each of them.
Summary ==
  IF watchers = <<>> THEN <<>>
  ELSE LET names == KeysOf(watchers[1]) IN
       [n \in DOMAIN names |-> [i \in 1 .. SizeOf(watchers[1]) |-> Row(names[n], i)]]

-------------------------------------------------------------------------------
Init ==
  /\ section \in Sections
  /\ keys = InOrder(DOMAIN section)
  /\ \E s \in Scenarios : \E t \in CoresOf(s) : rounds = Rounds(Program(s, t))
  /\ watchers = <<>> /\ pc = "attach" /\ at = 1 /\ clock = 1
  /\ done = <<>> /\ header = <<>> /\ rows = <<>>

report   == <<header, rows>>
coreVars == <<rounds, at, clock, done>>

\* main comes to the next key of the section ...
NextKey    == pc = "attach" /\ keys # <<>> /\ UNCHANGED <<section, coreVars, report>>
Key        == Head(keys)
KeyFails   == NoSize(Key, section[Key]) \/ BadCounters(Key, section[Key])

\* ... which it does not know, ...
SkipKey ==
  /\ NextKey /\ Key \notin KnownKeys
  /\ keys' = Tail(keys)
  /\ UNCHANGED <<watchers, pc>>

\* ... or adds a watcher for, ...
AddWatcher ==
  /\ NextKey /\ Key \in KnownKeys /\ ~ KeyFails
  /\ \E w \in Constructed(Key, section[Key]) : watchers' = Append(watchers, w)
  /\ keys' = Tail(keys)
  /\ UNCHANGED pc

\* ... or does not survive.
FailKey ==
  /\ NextKey /\ KeyFails
  /\ pc' = IF Key = "papi" THEN "exited" ELSE "crashed"
  /\ UNCHANGED <<keys, watchers>>

\* The first task the scenario's actions give the core starts.
Attached ==
  /\ pc = "attach" /\ keys = <<>>
  /\ pc' = "next"
  /\ UNCHANGED <<keys, section, watchers, coreVars, report>>

\* The round at hand is over.
NextRound == rounds' = Tail(rounds) /\ pc' = "next"

StartRound ==
  /\ pc = "next" /\ rounds # <<>>
  /\ pc' = IF Measured(Head(rounds)) /\ watchers # <<>> THEN "before" ELSE "kernel"
  /\ at' = 1
  /\ UNCHANGED <<keys, section, watchers, rounds, clock, done, report>>

CallBefore ==
  /\ pc = "before"
  /\ watchers' = [watchers EXCEPT ![at] = Before(@)]
  /\ at' = at + 1 /\ clock' = clock + 1
  /\ pc' = IF at = Len(watchers) THEN "kernel" ELSE "before"
  /\ UNCHANGED <<keys, section, rounds, done, report>>

RunKernel ==
  /\ pc = "kernel"
  /\ \E d \in Durations :
       /\ clock' = clock + d
       /\ done' = IF Measured(Head(rounds))
                  THEN Append(done, [name |-> Head(rounds).name, from |-> clock, to |-> clock + d])
                  ELSE done
  /\ at' = 1
  /\ IF Measured(Head(rounds)) /\ watchers # <<>>
     THEN pc' = "after" /\ UNCHANGED rounds
     ELSE NextRound
  /\ UNCHANGED <<keys, section, watchers, report>>

CallAfter ==
  /\ pc = "after"
  /\ watchers' = [watchers EXCEPT ![at] = After(@, Head(rounds).name)]
  /\ at' = at + 1 /\ clock' = clock + 1
  /\ IF at = Len(watchers) THEN NextRound ELSE UNCHANGED <<rounds, pc>>
  /\ UNCHANGED <<keys, section, done, report>>

Report ==
  /\ pc = "next" /\ rounds = <<>>
  /\ header' = Headers
  /\ rows' = Summary
  /\ pc' = "reported"
  /\ UNCHANGED <<keys, section, watchers, coreVars>>

Next ==
  \/ SkipKey \/ AddWatcher \/ FailKey \/ Attached
  \/ StartRound \/ CallBefore \/ RunKernel \/ CallAfter \/ Report

Spec == Init /\ [][Next]_vars

-------------------------------------------------------------------------------
Kinds == {"papi", "flops", "size", "time", "sync"}

\* A watcher of one of the five kinds.
IsWatcher(w) ==
  /\ w = [kind |-> w.kind, arg |-> w.arg, watchMap |-> w.watchMap, stored |-> w.stored,
          zero |-> w.zero, started |-> w.started]
  /\ w.kind \in Kinds
  /\ w.stored \in Int /\ w.zero \in Int /\ w.started \in BOOLEAN
  /\ w.kind = "size" => w.arg \in Int
  /\ w.kind = "papi" => Len(w.arg) \in 0 .. MAX_EVENTS /\ \A i \in 1 .. Len(w.arg) : w.arg[i] \in Counters

(* Everything main attached is a watcher it knows, with no more counters   *)
(* than the arrays of a PerfCtrWatcher have room for.                      *)
TypeOK ==
  /\ pc \in {"attach", "next", "before", "kernel", "after", "reported", "crashed", "exited"}
  /\ section \in Sections
  /\ keys \in Seq(DOMAIN section)
  /\ rounds \in Seq(RoundsRun)
  /\ done \in Seq([name : Names, from : Nat, to : Nat])
  /\ clock \in Nat /\ at \in 1 .. Len(watchers) + 1
  /\ watchers \in Seq({watchers[w] : w \in DOMAIN watchers})
  /\ \A w \in DOMAIN watchers : IsWatcher(watchers[w])

\* How many of the first n measured rounds have a name.
TimesWithin(name, n) == Cardinality({j \in 1 .. n : done[j].name = name})
Times(name) == TimesWithin(name, Len(done))

Seen     == {done[j].name : j \in DOMAIN done}
Reported == Seen \cap WatchedKernels
First    == InOrder(Seen)[1]

\* The ticks between the kernels of the j-th measured round and of the one before.
Gap(j) == done[j].from - done[j - 1].to

\* What an entry of watcher w for the j-th round may be: the time of the round's
\* kernel, and besides it no more than the calls of the watchers around it; that of
\* sync is from just before.  The counters' entries have the gap before the round
\* subtracted, as before() and after() each read what was counted since the other;
\* the first one subtracts what was never read and may be anything.
Spans(w, entry, j) ==
  LET kind  == watchers[w].kind
      took  == done[j].to - done[j].from
      calls == Len(watchers)
  IN /\ kind \in {"time", "flops"} => entry \in took .. took + calls
     /\ kind = "papi" /\ j # 1 => entry \in took - Gap(j) .. took - Gap(j) + 2 * calls
     /\ kind = "sync" => entry \in done[j].from - calls .. done[j].from - 1

(* Each entry is for a round that was, and the i-th under a name is that   *)
(* of the i-th round with this name.  A time measures its own round and    *)
(* nothing but it; a counter's entry is by just the gap before the round   *)
(* less than that, whatever ran in it.                                     *)
EntriesSpan ==
  \A w \in DOMAIN watchers :
    LET map == watchers[w].watchMap IN
    /\ \A name \in DOMAIN map : Len(map[name]) <= Times(name)
    /\ \A j \in DOMAIN done :
         LET name == done[j].name
             i    == TimesWithin(name, j)
         IN name \in DOMAIN map /\ i \in DOMAIN map[name] => Spans(w, map[name][i], j)

(* The report has each round of each watched name once, in the order they  *)
(* ran, if and only if all these names ran as often as the first of all    *)
(* names a watcher has seen, which need not be a watched one.              *)
ReportWhole ==
  LET names   == InOrder(Reported)
      printed == [n \in DOMAIN rows |->
                    [i \in DOMAIN rows[n] |-> <<rows[n][i].name, rows[n][i].number>>]]
      whole   == [n \in DOMAIN names |-> [i \in 1 .. Times(names[n]) |-> <<names[n], i>>]]
  IN pc = "reported" /\ watchers # <<>> =>
       (printed = whole <=> \A name \in Reported : Times(name) = Times(First))

(* The report reads past the end of a list if and only if a watched name   *)
(* ran less often than the first of all names.                             *)
PastEndOnly ==
  pc = "reported" /\ watchers # <<>> =>
    ((\E n \in DOMAIN rows : \E i \in DOMAIN rows[n] : rows[n][i].pastEnd)
       <=> \E name \in Reported : Times(name) < Times(First))

(* Each line of the report has a value of each watcher for each column     *)
(* that its header names, though the header has blanks for the counters    *)
(* not asked for.                                                          *)
HeaderFits ==
  \A n \in DOMAIN rows : \A i \in DOMAIN rows[n] :
    /\ DOMAIN rows[n][i].values = DOMAIN header
    /\ \A w \in DOMAIN header :
         Len(rows[n][i].values[w]) = Cardinality({c \in DOMAIN header[w] : header[w][c] # ""})

-------------------------------------------------------------------------------
(* What these rest on.                                                     *)

\* The calls come in their places.
CallPlace ==
  /\ pc = "attach" =>
       /\ done = <<>>
       /\ \A w \in DOMAIN watchers : DOMAIN watchers[w].watchMap = {}
  /\ pc \in {"before", "kernel", "after"} => rounds # <<>>
  /\ pc \in {"before", "after"} => Measured(Head(rounds)) /\ at \in DOMAIN watchers
  /\ pc = "kernel" /\ Measured(Head(rounds)) => at = Len(watchers) + 1
  /\ pc = "after" =>
       /\ done # <<>> /\ done[Len(done)].name = Head(rounds).name
       /\ clock = done[Len(done)].to + at - 1

\* How many rounds watcher w has been told of: all, or all but the one at hand.
Told(w) == IF pc = "after" /\ at <= w THEN Len(done) - 1 ELSE Len(done)

\* A watcher has one entry for each round it has been told of, under its name.
RecordPlace ==
  \A w \in DOMAIN watchers :
    LET map == watchers[w].watchMap IN
    /\ DOMAIN map = {done[j].name : j \in 1 .. Told(w)}
    /\ \A name \in DOMAIN map : map[name] \in Seq(Int) /\ Len(map[name]) = TimesWithin(name, Told(w))
    /\ \A j \in 1 .. Told(w) : Spans(w, map[done[j].name][TimesWithin(done[j].name, j)], j)

\* The tick of the last call of before() on watcher w, while its after() is due.
Due(w)    == \/ pc = "before" /\ w < at
             \/ pc = "kernel" /\ Measured(Head(rounds))
             \/ pc = "after" /\ at <= w
BeganAt(w) == IF pc = "after" THEN done[Len(done)].from - (Len(watchers) + 1 - w) ELSE clock - (at - w)
\* The tick of the last call of after() on it.
EndedAt(w) == done[Told(w)].to + (w - 1)

\* What before() has stored is what after() is going to need, and the counters were
\* last at zero at the last call.
StorePlace ==
  \A w \in DOMAIN watchers :
    /\ watchers[w].kind = "papi" /\ (done # <<>> \/ Due(w)) => watchers[w].started
    /\ Due(w) /\ watchers[w].kind \in {"time", "flops", "sync"} => watchers[w].stored = BeganAt(w)
    /\ watchers[w].kind = "papi" =>
         /\ Due(w) => watchers[w].zero = BeganAt(w)
         /\ Due(w) /\ Told(w) # 0 => watchers[w].stored = BeganAt(w) - EndedAt(w)
         /\ ~ Due(w) /\ Told(w) # 0 => watchers[w].zero = EndedAt(w)

\* The report is what the watchers had, and nothing happens after it.
ReportPlace ==
  IF pc = "reported" THEN header = Headers /\ rows = Summary ELSE header = <<>> /\ rows = <<>>

(* The inductive invariant.                                                *)
Kept == TypeOK /\ CallPlace /\ RecordPlace /\ StorePlace /\ ReportPlace

===============================================================================
