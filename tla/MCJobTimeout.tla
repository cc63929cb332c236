---------------------------- MODULE MCJobTimeout ----------------------------
(***************************************************************************)
(* Two services that conflict with each other and are ordered in a cycle:  *)
(* their start jobs can wait for each other, and only the job timeouts end *)
(* them.                                                                   *)
(***************************************************************************)
EXTENDS JobEngine, TLC

CONSTANTS x, y

NoPairs == {}
XY == {x, y}
Cycle == {<<x, y>>, <<y, x>>}
X_Conflicts_Y == {<<x, y>>}

States == [u \in XY |-> {"inactive", "activating", "active", "failed"}]

Of(jobs, anchor) == [jobs |-> jobs, anchor |-> anchor, mode |-> "replace", client |-> FALSE]

CycleTransactions ==
  { Of((x :> "start") @@ (y :> "stop"), x),
    Of((y :> "start"), y),
    Of((x :> "start"), x),
    Of((y :> "restart"), y),
    Of((y :> "nop"), y) }
=============================================================================
