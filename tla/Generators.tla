------------------------------ MODULE Generators ------------------------------
(***************************************************************************)
(* The action lists the generators of scripts/ write.  Sizes that a script *)
(* fixes for a machine (how many cores, nodes, threads) are parameters;    *)
(* names of arrays are a letter, or a letter and a core.                   *)
(***************************************************************************)
EXTENDS Scenario

CreateAction(kernel, core, repeat, sync, args) == Map(core, kernel, args, sync, repeat, Unnamed)

\* Slip: create_action("dummy", c, 1, false, false)
DummiesUnsynced(cores) == [i \in DOMAIN cores |-> CreateAction("dummy", cores[i], 1, FALSE, <<>>)]

\* "setup a barrier": one sync dummy on each of a list of cores
Dummies(cores) == [i \in DOMAIN cores |-> CreateAction("dummy", cores[i], 1, TRUE, <<>>)]

\* What an each loop adds: one block of w actions after another.
InTurn(w, blocks) ==
  [k \in 1 .. w * Len(blocks) |-> blocks[1 + ((k - 1) \div w)][1 + ((k - 1) % w)]]

\* list.uniq, and list - other, up to order: actions on different cores commute.
CoresIn(list) == {list[i] : i \in DOMAIN list}
InOrderOf(cores) == Listed(cores, {e \in cores \X cores : e[1] <= e[2]})
Uniq(list) == InOrderOf(CoresIn(list))
Minus(list, other) == InOrderOf(CoresIn(list) \ CoresIn(other))

-------------------------------------------------------------------------------
(* util-generation.rb *)

\* The i-th core in the order of the nodes.
PhyCore(machine, i) == IF machine = "brunch" THEN ((i * 4) % 96) + (i \div 24) ELSE i

FirstCore(machine, node) == IF machine = "idchire" THEN node * 8 ELSE node

NextNodeCore(machine, i) ==
  CASE machine = "brunch"  -> (PhyCore(machine, i) + 1) % 96
    [] machine = "idchire" -> (PhyCore(machine, i) + 8) % 192
    [] machine = "idkat"   -> (PhyCore(machine, i) + 8) % 48
    [] OTHER               -> i

\* One init action per array of a core's kernel, on core `on`.
InitBlocks(init, on, args, core) ==
  [i \in DOMAIN args |-> CreateAction(init, on, 1, FALSE, <<<<args[i], core>>>>)]

\* Slip: create_action(..., false, false, ...): the kernels do not start together
ComputeUnsynced(kernel, args, core, repeat) ==
  CreateAction(kernel, core, repeat, FALSE, [i \in DOMAIN args |-> <<args[i], core>>])

Compute(kernel, args, core, repeat) ==
  CreateAction(kernel, core, repeat, TRUE, [i \in DOMAIN args |-> <<args[i], core>>])

\* The loops of both over a list of cores, each with its arrays initialised on
\* the core of the same place in another list.
Inits(init, args, actual, initCore) ==
  InTurn(Len(args), [i \in DOMAIN actual |-> InitBlocks(init, initCore[i], args, actual[i])])
Computes(kernel, args, actual, repeat) ==
  [i \in DOMAIN actual |-> Compute(kernel, args, actual[i], repeat)]

\* Kernels that start together on all the cores of a list, after the arrays of
\* the i-th were initialised on the i-th core of another list.
TogetherOn(kernel, init, args, actual, initCore, repeat) ==
  Inits(init, args, actual, initCore) \o Computes(kernel, args, actual, repeat)
  \o Dummies(Minus(initCore, actual))

\* generate_scenario; with shiftInit the next node initialises.
KernelScenario(machine, kernel, init, args, cores, shiftInit, repeat) ==
  LET actual == [i \in DOMAIN cores |-> PhyCore(machine, cores[i])]
      next == [i \in DOMAIN cores |-> NextNodeCore(machine, cores[i])]
  IN  TogetherOn(kernel, init, args, actual, IF shiftInit THEN next ELSE actual, repeat)

\* The cores 0 .. n - 1, as the drivers list them.
FirstCores(n) == [i \in 1 .. n |-> i - 1]

\* generate_scenario.rb, for the first n cores
ArgsOf ==
  [naive_dgemm |-> <<"a", "b", "c">>, dgemm |-> <<"a", "b", "c">>, dtrsm |-> <<"a", "b">>,
   dsyrk |-> <<"a", "b">>, dpotrf |-> <<"a">>]
Driver(machine, kernel, n, remote) ==
  KernelScenario(machine, kernel, IF kernel = "dpotrf" THEN "init_symmetric" ELSE "init_blas_bloc",
                 ArgsOf[kernel], FirstCores(n), remote, 200)

\* generate_scenario_dtrsm.rb
Dtrsm(n, remote) ==
  KernelScenario("brunch", "dtrsm", "init_blas_bloc", ArgsOf["dtrsm"], FirstCores(n), remote, 50)

\* generate_scenario_spread.rb, with i + 1 threads on each node
Spread(i, remote) ==
  LET cores == FirstCores((i + 1) * 4)
      next == [sid \in DOMAIN cores |-> (cores[sid] + 1) % 96]
  IN  TogetherOn("dgemm", "init_blas_bloc", ArgsOf["dgemm"], cores, IF remote THEN next ELSE cores, 50)

\* generate_scenario_mixed.rb: two kernels on each core
Mixed(n) ==
  InTurn(5, [i \in 1 .. n |->
    LET c == PhyCore("brunch", i - 1) IN
    InitBlocks("init_blas_bloc", c, ArgsOf["dgemm"], c)
    \o <<Compute("dtrsm", ArgsOf["dtrsm"], c, 50), Compute("dgemm", ArgsOf["dgemm"], c, 50)>>])

-------------------------------------------------------------------------------
\* generate_scenario_one_node_idchire.rb: some cores local, some remote
OneNode(machine, kernel, args, local, remote, repeat) ==
  LET actual(cores) == [i \in DOMAIN cores |-> PhyCore(machine, cores[i])]
      next(cores) == [i \in DOMAIN cores |-> NextNodeCore(machine, cores[i])]
  IN  Inits("init_blas_bloc", args, actual(local), actual(local))
      \o Computes(kernel, args, actual(local), repeat)
      \o Inits("init_blas_bloc", args, actual(remote), next(remote))
      \o Computes(kernel, args, actual(remote), repeat)
      \o Dummies(Minus(actual(local) \o next(remote), actual(local) \o actual(remote)))

-------------------------------------------------------------------------------
InitArray(core, array) == CreateAction("init_array", core, 1, FALSE, <<array>>)
CopyArray(core, sync, a, b) == CreateAction("copy", core, 10, sync, <<a, b>>)

\* Slip: the barrier at the end of a round is dropped.
BandwidthRoundsRunOn(machine, nodes, src) ==
  LET first(n) == FirstCore(machine, n)
      coreUsed == [i \in DOMAIN nodes |-> first(nodes[i])] \o <<first(src) + 1>>
      core(dest) == IF src = dest THEN first(dest) + 1 ELSE first(dest)
      round(dest) == <<InitArray(core(dest), <<"b">>), CopyArray(core(dest), FALSE, <<"a">>, <<"b">>)>>
  IN  <<InitArray(first(src), <<"a">>)>> \o Dummies(coreUsed)
      \o InTurn(2, [i \in DOMAIN nodes |-> round(nodes[i])])

\* generate_scenario_bandwidth.rb: from node src to each node in turn
Bandwidth(machine, nodes, src) ==
  LET first(n) == FirstCore(machine, n)
      coreUsed == [i \in DOMAIN nodes |-> first(nodes[i])] \o <<first(src) + 1>>
      core(dest) == IF src = dest THEN first(dest) + 1 ELSE first(dest)
      round(dest) == <<InitArray(core(dest), <<"b">>), CopyArray(core(dest), FALSE, <<"a">>, <<"b">>)>>
                     \o Dummies(coreUsed)
  IN  <<InitArray(first(src), <<"a">>)>> \o Dummies(coreUsed)
      \o InTurn(2 + Len(coreUsed), [i \in DOMAIN nodes |-> round(nodes[i])])

\* The initialisation the load generators share: a's from one core, b's local.
LoadInit(src, cores) ==
  InTurn(2, [i \in DOMAIN cores |->
               <<InitArray(src, <<"a", cores[i]>>), InitArray(cores[i], <<"b", cores[i]>>)>>])
LoadCopies(src, cores) ==
  [i \in DOMAIN cores |-> CopyArray(cores[i], TRUE, <<"a", cores[i]>>, <<"b", cores[i]>>)]
  \o Dummies(Minus(<<src>>, cores))

\* generate_scenario_load_node_brunch.rb
LoadNodeBrunch(src, cores) ==
  LoadInit(src, cores) \o Dummies(Uniq(<<src>> \o cores)) \o LoadCopies(src, cores)

\* generate_scenario_load_node_idchire.rb, with cores 0 .. d
LoadNodeIdchire(src, cores) ==
  LoadInit(src * 8, cores) \o <<Scalar("barrier")>> \o LoadCopies(src * 8, cores)

\* generate_scenario_load_output_link.rb
LoadOutputLink(cores) ==
  LoadInit(0, cores) \o Dummies(Uniq(<<0>> \o cores)) \o LoadCopies(0, cores)

===============================================================================
