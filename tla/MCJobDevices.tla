---------------------------- MODULE MCJobDevices ----------------------------
(***************************************************************************)
(* A device d, a mount m bound to it and a service s that requires the     *)
(* device and has Requisite= on the mount; start order d, m, s.  Device    *)
(* jobs can be collected, mount jobs can be put off.                       *)
(***************************************************************************)
EXTENDS JobEngine, TLC

CONSTANTS d, m, s

NoPairs == {}
DMS == {d, m, s}
D_M_S == {<<d, m>>, <<d, s>>, <<m, s>>}
S_Requires_D == {<<s, d>>}
S_Requisite_M == {<<s, m>>}
M_BindsTo_D == {<<m, d>>}

DeviceStates ==
  (d :> {"inactive", "activating", "active"}) @@
  (m :> {"inactive", "activating", "active", "failed"}) @@
  (s :> {"inactive", "active", "deactivating", "maintenance"})

Of(jobs, anchor, mode, client) ==
  [jobs |-> jobs, anchor |-> anchor, mode |-> mode, client |-> client]

DeviceTransactions ==
  { Of((d :> "start"), d, "replace", TRUE),
    Of((m :> "start") @@ (d :> "start"), m, "replace", FALSE),
    Of((s :> "start") @@ (d :> "start") @@ (m :> "verify"), s, "replace", FALSE),
    Of((s :> "restart") @@ (d :> "start") @@ (m :> "verify"), s, "fail", FALSE),
    Of((m :> "stop") @@ (s :> "stop"), m, "flush", FALSE) }

ASSUME TransactionsClosed == \A tr \in Transactions : Closed(tr)
=============================================================================
