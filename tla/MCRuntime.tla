------------------------------ MODULE MCRuntime -------------------------------
(***************************************************************************)
(* Runtime over the scenarios that bring its interesting cases about.      *)
(***************************************************************************)
EXTENDS Runtime

Init1(c) == Map(c, "init_array", <<<<"a">>>>, FALSE, 1, Unnamed)
Copy(c, sync, repeat) == Map(c, "copy", <<<<"a">>, <<"b">>>>, sync, repeat, Unnamed)
Void(c, sync) == Map(c, "void", <<>>, sync, 1, Unnamed)

MCKernels == {"dummy", "init_array", "copy", "dpotrf"}

\* Every core has the same number of sync tasks.
MCBalanced == {
  \* init on core 1, compute on core 2 after the barrier
  <<Init1(1), Scalar("barrier"), Copy(2, FALSE, 2)>>,
  \* two sync tasks in a row, meant to start together
  <<Copy(1, TRUE, 1), Void(2, TRUE), Scalar("barrier"), Map(2, "copy", <<>>, FALSE, 1, "second")>>,
  \* a task that runs nothing, and a scalar main does not know
  <<Copy(1, FALSE, 0), Scalar("sync"), Copy(2, FALSE, 1), Void(2, FALSE)>>,
  \* a kernel that may give up
  <<Map(2, "dpotrf", <<>>, TRUE, 2, Unnamed), Copy(1, TRUE, 1)>>
}

\* Sync tasks on one core only, and actions that end the process.
MCUnbalanced == {
  <<Copy(1, TRUE, 1), Copy(2, FALSE, 1)>>,
  <<Void(1, TRUE), Void(2, FALSE), Scalar("barrier"), Copy(2, FALSE, 1)>>
}
MCFatal == {
  <<Copy(1, FALSE, 1), Map(2, "bogus", <<>>, FALSE, 1, Unnamed)>>,
  <<Void(2, FALSE), Malformed, Void(1, TRUE)>>
}
\* Two copies that meet, to be watched by what main does not survive.
MCUnwatchable == {<<Copy(1, TRUE, 1), Copy(2, TRUE, 1)>>}
MCAll == MCBalanced \cup MCUnbalanced \cup MCFatal \cup MCUnwatchable
MCCores == {1, 2}

\* Three cores: a core that is only in the barriers, and a ring of copies.
MCThreeCores == {1, 3, 8}
MCThree == {
  <<Void(1, TRUE), Init1(3), Void(8, TRUE), Void(3, TRUE), Copy(8, FALSE, 1)>>,
  <<Init1(1), Scalar("barrier"), Copy(3, FALSE, 1), Void(8, FALSE), Scalar("barrier"),
    Copy(1, FALSE, 1)>>
}

\* The scenario of scenarii/test.yml, with one array on each core for its three.
MCTestYml == {
  <<Init1(1), Init1(5), Scalar("sync"), Copy(1, TRUE, 2), Copy(5, TRUE, 2)>>
}
MCTestYmlCores == {1, 5}

(* A scenario's `sync` action makes all its cores meet, as `barrier` does: *)
(* when the replay ends each worker has been through the barrier once for  *)
(* the start, once for each such action and once for each of its own sync  *)
(* tasks.                                                                  *)
SyncActionsMeet ==
  process = "ended" =>
    \A t \in Cores :
      passed[t] = 1 + Cardinality({i \in DOMAIN scenario :
        LET a == scenario[i] IN
        \/ a.node = "scalar" /\ a.text \in {"sync", "barrier"}
        \/ a.node = "map" /\ a.core = t /\ a.sync})

===============================================================================
