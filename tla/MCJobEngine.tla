---------------------------- MODULE MCJobEngine ----------------------------
(***************************************************************************)
(* Two services: b requires a and is ordered after it.  The transactions   *)
(* are closed under that requirement, as the ones built by core/transaction.c are. *)
(***************************************************************************)
EXTENDS JobEngine, TLC

CONSTANTS a, b

NoPairs == {}
AB == {a, b}
A_Before_B == {<<a, b>>}
B_Requires_A == {<<b, a>>}

ServiceStates ==
  [u \in AB |-> {"inactive", "activating", "active", "reloading", "deactivating", "failed"}]

Of(jobs, anchor, mode) == [jobs |-> jobs, anchor |-> anchor, mode |-> mode, client |-> FALSE]

ServiceTransactions ==
  { Of((a :> "start"), a, "fail"),
    Of((a :> "start"), a, "isolate"),
    Of((a :> "nop"), a, "replace"),
    Of((b :> "start") @@ (a :> "start"), b, "replace"),
    Of((b :> "restart") @@ (a :> "start"), b, "replace"),
    Of((b :> "stop"), b, "replace"),
    Of((b :> "reload"), b, "replace"),
    Of((b :> "start"), b, "ignore-dependencies"),
    Of((a :> "stop") @@ (b :> "stop"), a, "replace"),
    Of((a :> "restart") @@ (b :> "restart"), a, "replace-irreversibly") }

ASSUME TransactionsClosed == \A tr \in Transactions : Closed(tr)
=============================================================================
