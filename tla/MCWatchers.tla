------------------------------ MODULE MCWatchers ------------------------------
(***************************************************************************)
(* Watchers over one core's tasks: names that run equally often, or not,   *)
(* with one before all others that nobody watches; and sections main takes *)
(* to the end or gives up at.                                              *)
(***************************************************************************)
EXTENDS Watchers

MCKernels == {"dummy", "init_array", "copy", "dgemm", "check_affinity"}

Run(kernel, repeat, name) == Map(1, kernel, <<>>, FALSE, repeat, name)

MCScenarios == {
  <<Run("init_array", 1, Unnamed), Run("copy", 2, Unnamed), Run("dgemm", 2, Unnamed)>>,
  <<Run("dgemm", 1, Unnamed), Run("copy", 1, "dgemm"), Run("copy", 2, Unnamed)>>,
  <<Run("copy", 3, "again"), Run("dgemm", 1, Unnamed)>>,
  <<Run("check_affinity", 1, Unnamed), Run("copy", 2, Unnamed), Run("check_affinity", 0, Unnamed)>>,
  <<Run("copy", 2, Unnamed), Run("dgemm", 1, Unnamed), Run("copy", 1, "same")>>,
  <<Run("copy", 1, "last")>>,
  <<Run("init_array", 1, Unnamed), Scalar("barrier")>>
}

MCSections == {
  [time |-> <<"toto">>, flops_dgemm |-> <<"bs">>, papi |-> <<"cycles", "misses">>],
  [sync |-> <<>>, size |-> <<"bs">>, bogus |-> <<>>],
  [papi |-> <<"cycles">>, flops_dtrsm |-> <<"bs">>],
  [flops_dsyrk |-> <<"bs">>, flops_dpotrf |-> <<"bs">>],
  [bogus |-> <<"bs">>],
  [papi |-> <<"cycles", "cycles", "cycles", "cycles", "misses">>],
  [papi |-> <<"cycles", "unheard">>, time |-> <<>>],
  [flops_dgemm |-> <<"a">>, time |-> <<>>],
  [size |-> <<>>]
}

MCAlphabet == <<"again", "bogus", "check_affinity", "copy", "dgemm", "dummy", "flops_dgemm",
                "flops_dpotrf", "flops_dsyrk", "flops_dtrsm", "init_array", "last", "papi",
                "same", "size", "start_sync", "sync", "time">>

MCNames       == {MCAlphabet[i] : i \in DOMAIN MCAlphabet}
MCStringOrder == {<<MCAlphabet[p[1]], MCAlphabet[p[2]]>> :
                    p \in {q \in (DOMAIN MCAlphabet) \X (DOMAIN MCAlphabet) : q[1] <= q[2]}}

MCIntParams == [bs |-> 3]

===============================================================================
