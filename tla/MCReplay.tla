------------------------------- MODULE MCReplay -------------------------------
(***************************************************************************)
(* Scenarios of the generators, on the first few cores or nodes of each    *)
(* machine, replayed with an eye on their arrays.                          *)
(***************************************************************************)
EXTENDS Arrays, Generators

MCAllKernels == {"dummy", "init_blas_bloc", "naive_dgemm", "dgemm", "dtrsm", "dsyrk", "dpotrf",
                 "init_symmetric", "init_array", "copy", "check_affinity"}

MCKernelScenarios == {
  Driver("brunch", "dgemm", 2, FALSE), Driver("brunch", "dtrsm", 2, TRUE),
  Driver("idchire", "dpotrf", 3, TRUE), Driver("idkat", "dsyrk", 2, TRUE),
  Dtrsm(2, TRUE), Spread(0, TRUE), Mixed(2),
  OneNode("idchire", "dgemm", ArgsOf["dgemm"], <<0>>, <<1>>, 50),
  OneNode("brunch", "dtrsm", ArgsOf["dtrsm"], <<>>, <<0, 1>>, 50)
}

MCLoadScenarios == {
  LoadNodeBrunch(0, <<0, 4, 8>>), LoadNodeBrunch(1, <<0, 4>>),
  LoadNodeIdchire(0, <<0, 1, 2>>), LoadNodeIdchire(1, <<0, 1>>),
  LoadOutputLink(<<8, 9>>)
}

MCBandwidthIdchire == {Bandwidth("idchire", <<0, 1, 2>>, src) : src \in 0 .. 2}

MCGenerated == MCKernelScenarios \cup MCLoadScenarios \cup MCBandwidthIdchire

\* On brunch the nodes are 0 to 4 and begin at cores 0 to 4.
MCBandwidthBrunch == {Bandwidth("brunch", <<0, 1, 2, 3, 4>>, 0)}

===============================================================================
