----------------------------- MODULE JobEngine -----------------------------
(***************************************************************************)
(* The job engine of the service manager: installed jobs, the run queue,   *)
(* running a job on its unit, the propagation of a unit's state changes to *)
(* its job, the failing of dependent jobs, job timeouts, cancellation,     *)
(* collection and daemon-reload (core/job.c, core/unit.c, core/manager.c). *)
(*                                                                         *)
(* The manager is single threaded but re-entrant: finishing a job fails    *)
(* other jobs, a state change requests new ones, and starting a unit may   *)
(* change its state before the call returns.  The C call stack is the      *)
(* variable `stack' (innermost call first); events of the event loop are   *)
(* taken only when it is empty.                                            *)
(***************************************************************************)
EXTENDS JobType, Sequences, FiniteSets

CONSTANTS
  Units,              \* the loaded units
  None,               \* no unit, no job
  Before,             \* the pairs <<a, b>> such that a is ordered Before= b
  Requires, Requisite, BindsTo,  \* pairs <<u, v>>: u has this dependency on v
  Conflicts,          \* pairs <<u, v>>: u has Conflicts=v
  OnFailure,          \* the units with OnFailure= or OnSuccess= dependencies
  StatesOf,           \* the active states that a unit of this unit's type can have
  GcUnits,            \* units of a type with gc_jobs set (devices)
  Throttled,          \* units whose start may be put off: mounts, swaps
  JobTimeout,         \* units with a finite JobTimeoutSec=
  JobRunningTimeout,  \* units with a finite JobRunningTimeoutSec=
  IgnoreOnIsolate,    \* units with IgnoreOnIsolate=
  Transactions,       \* the transactions that may be applied (see TransactionsAssumption)
  MaxRequests         \* bound on the number of transactions applied

JobMode == {"fail", "replace", "replace-irreversibly", "isolate", "flush",
            "ignore-dependencies"}

Job == [type : MergingTypes, state : {"waiting", "running"}, irreversible : BOOLEAN,
        ignore_order : BOOLEAN, ref : BOOLEAN, ran : BOOLEAN]

ASSUME UnitsAssumption == IsFiniteSet(Units) /\ None \notin Units \cup Job
ASSUME RelationsAssumption ==
  /\ \A R \in {Before, Requires, Requisite, BindsTo, Conflicts} : R \subseteq Units \X Units
  /\ \A u \in Units : <<u, u>> \notin Before
ASSUME SetsAssumption ==
  \A S \in {OnFailure, GcUnits, Throttled, JobTimeout, JobRunningTimeout, IgnoreOnIsolate} :
     S \subseteq Units
ASSUME StatesOfAssumption ==
  /\ StatesOf \in [Units -> SUBSET UnitActiveState]
  /\ \A u \in Units : {"inactive", "active"} \subseteq StatesOf[u]
\* A transaction ready to be applied: the merged type for each of its units, its
\* anchor, its mode and whether a bus client holds on to the anchor job.
ASSUME TransactionsAssumption ==
  \A tr \in Transactions :
     /\ DOMAIN tr.jobs \subseteq Units
     /\ tr.jobs \in [DOMAIN tr.jobs -> TransactionTypes]
     /\ tr.anchor \in DOMAIN tr.jobs
     /\ tr.mode \in JobMode
     /\ tr.client \in BOOLEAN
ASSUME MaxRequestsAssumption == MaxRequests \in Nat

VARIABLES
  ustate,     \* unit_active_state() of each unit
  job,        \* u->job, or None
  nop,        \* the units with a nop_job: it is queued as long as it is installed
  runq,       \* the units whose job is in the run queue
  armed,      \* the units whose job has a timer event source
  n_running,  \* m->n_running_jobs
  saved,      \* the unit whose job id job_perform_on_unit() keeps, while it is valid
  stack,      \* the frames of the calls in progress, innermost first
  requests,   \* the number of transactions that may still be applied
  held,       \* history: jobs that returned to waiting because of -EAGAIN
  unmet,      \* history: the jobs that were installed when a unit they need did not
              \* come up, with the result of that unit's job
  stale       \* history: units asked to reload that have not begun to since

engine == <<job, nop, runq, armed, n_running, saved, held, unmet, stale>>
vars == <<ustate, engine, stack, requests>>

\* What unit_start(), unit_stop() and unit_reload() return, and the check of a verify job.
Code == {"ok", "EAGAIN", "EALREADY", "ECOMM", "EBADR", "ENOEXEC", "EPROTO",
         "EOPNOTSUPP", "ENOLINK", "ESTALE", "EIO"}

Unmet == [unit : Units, needs : Units, type : MergingTypes, result : JobResult]

Frame ==
       [op : {"fail"}, unit : Units, todo : SUBSET Units]
  \cup [op : {"request", "tail"}, unit : Units]
  \cup [op : {"notify"}, unit : Units, os : UnitActiveState, reload_failure : BOOLEAN]
  \cup [op : {"return"}, unit : Units, code : Code]

TypeOK ==
  /\ ustate \in [Units -> UnitActiveState]
  /\ job \in [Units -> Job \cup {None}]
  /\ nop \subseteq Units
  /\ runq \subseteq Units
  /\ armed \subseteq Units
  /\ n_running \in Int
  /\ saved \in Units \cup {None}
  /\ stack \in Seq(Frame)
  /\ requests \in 0..MaxRequests
  /\ held \subseteq Units
  /\ unmet \subseteq Unmet
  /\ stale \subseteq Units

Init ==
  /\ ustate \in [Units -> {"inactive", "active"}]
  /\ job = [u \in Units |-> None]
  /\ nop = {} /\ runq = {} /\ armed = {} /\ n_running = 0
  /\ saved = None /\ stack = <<>> /\ requests = MaxRequests
  /\ held = {} /\ unmet = {} /\ stale = {}

-----------------------------------------------------------------------------
(* Dependencies and ordering *)

Neighbours(u) == {v \in Units : <<u, v>> \in Before \/ <<v, u>> \in Before}

PROPAGATE_START_FAILURE(v) ==
  {u \in Units : <<u, v>> \in Requires \cup Requisite \cup BindsTo}
PROPAGATE_STOP_FAILURE(v) == {u \in Units : <<u, v>> \in Conflicts}
PROPAGATE_INACTIVE_START_AS_FAILURE(v) == {u \in Units : <<u, v>> \in Requisite}

Installed == {u \in Units : job[u] # None}
Waiting(u) == job[u] # None /\ job[u].state = "waiting"
Running(u) == job[u] # None /\ job[u].state = "running"

\* Both units have a job and the order of execution puts v's job before u's.
Blocks(v, u) ==
  /\ job[u] # None
  /\ job[v] # None
  /\ \/ <<v, u>> \in Before /\ job_compare(job[v], job[u]) < 0
     \/ <<u, v>> \in Before /\ job_compare(job[u], job[v]) > 0

job_is_runnable(u) == job[u].ignore_order \/ \A v \in Units : ~Blocks(v, u)

\* Mutant: the order of the jobs is not looked at.
job_may_gc_unordered(u) == u \in GcUnits /\ job[u] # None /\ ~job[u].ref

job_may_gc(u) ==
  /\ u \in GcUnits
  /\ job[u] # None
  /\ ~job[u].ref
  /\ \A v \in Units : ~Blocks(u, v)

unit_verify_deps(u) ==
  \A v \in Units : <<u, v>> \in BindsTo /\ <<v, u>> \in Before =>
                      UNIT_IS_ACTIVE_OR_RELOADING(ustate[v])

-----------------------------------------------------------------------------
(* Applying a transaction: transaction_drop_redundant, transaction_is_destructive
   and transaction_apply *)

\* The units of the transaction that are left when its redundant jobs are dropped.
Kept(tr) ==
  {u \in DOMAIN tr.jobs :
     \/ u = tr.anchor
     \/ ~job_type_is_redundant(tr.jobs[u], ustate[u])
     \/ job[u] # None /\ job_type_is_conflicting(tr.jobs[u], job[u].type)}

transaction_is_destructive(tr) ==
  \E u \in Kept(tr) : /\ job[u] # None
                      /\ tr.mode = "fail" \/ job[u].irreversible
                      /\ job_type_is_conflicting(job[u].type, tr.jobs[u])

\* What core/transaction.c makes of the requirements: whoever needs a unit that is
\* stopped is stopped with it; whoever is started, other than without its
\* dependencies, has the units it needs in the transaction; and when jobs are isolated
\* away, no job stays without those of the units it needs.
Closed(tr) ==
  \A v \in Units : \A u \in PROPAGATE_START_FAILURE(v) :
    LET stops(w) == w \in DOMAIN tr.jobs /\ tr.jobs[w] = "stop"
        takes(w) == w \in DOMAIN tr.jobs /\ tr.jobs[w] # "nop"
    IN  /\ stops(v) => stops(u)
        /\ /\ tr.mode # "ignore-dependencies"
           /\ u \in DOMAIN tr.jobs /\ tr.jobs[u] \in {"start", "restart"}
           => takes(v) /\ ~stops(v)
        /\ /\ tr.mode \in {"isolate", "flush"}
           /\ u \in DOMAIN tr.jobs \cup IgnoreOnIsolate
           => stops(u) \/ takes(v) \/ v \in IgnoreOnIsolate

job_new(tr, u) ==
  [type |-> tr.jobs[u], state |-> "waiting",
   irreversible |-> tr.mode = "replace-irreversibly",
   ignore_order |-> tr.mode = "ignore-dependencies",
   ref |-> tr.client /\ u = tr.anchor, ran |-> FALSE]

\* Mutant: a running job also absorbs a reload.
allows_any_late_merge(t) == TRUE

job_type_allows_late_merge(t) == t # "reload"

\* A running job absorbs the new one only if it does all that the new one asks for.
LateMerge(u, t) ==
  job_type_allows_late_merge(t) /\ job_type_is_superset(job[u].type, t)

job_merge_into_installed(j, new, s) ==
  [j EXCEPT !.type = job_type_merge_and_collapse(j.type, new.type, s),
            !.irreversible = @ \/ new.irreversible,
            !.ignore_order = @ \/ new.ignore_order,
            !.ref = @ \/ new.ref]

\* The job in u's slot after job_install() of u's job of the transaction.
job_install(tr, u) ==
  IF job[u] = None \/ job_type_is_conflicting(job[u].type, tr.jobs[u])
  THEN job_new(tr, u)
  ELSE LET j == job_merge_into_installed(job[u], job_new(tr, u), ustate[u])
       IN  IF Waiting(u) \/ LateMerge(u, tr.jobs[u])
           THEN j ELSE [j EXCEPT !.state = "waiting"]

\* The dependents that wait for a unit that now does not come up.
Lost(S, result, newjob) ==
  {[unit |-> p[1], needs |-> p[2], type |-> newjob[p[1]].type, result |-> result] :
     p \in {q \in Units \X S : q[1] \in PROPAGATE_START_FAILURE(q[2]) /\ newjob[q[1]] # None}}

\* manager_add_job(), from the transaction's redundant jobs being dropped on.  Jobs
\* that are replaced or isolated away are cancelled without failing their dependents.
manager_add_job(tr, rest) ==
  LET D == Kept(tr)
      J == {u \in D : tr.jobs[u] # "nop"}
      isolated(S) == IF tr.mode \in {"isolate", "flush"}
                     THEN (S \ D) \ IgnoreOnIsolate ELSE {}
      replaced == {u \in J : job[u] # None /\ job_type_is_conflicting(job[u].type, tr.jobs[u])}
      gone == isolated(Installed) \cup replaced
      queued == J \cup UNION {Neighbours(u) : u \in gone \cup isolated(nop)}
      down == {u \in gone : /\ job[u].type \in {"start", "verify"}
                            /\ ~job[u].ignore_order
                            /\ ~UNIT_IS_ACTIVE_OR_RELOADING(ustate[u])}
  IN  /\ requests > 0
      /\ requests' = requests - 1
      /\ ~transaction_is_destructive(tr)
      /\ job' = [u \in Units |-> IF u \in J THEN job_install(tr, u)
                                 ELSE IF u \in gone THEN None ELSE job[u]]
      /\ nop' = (nop \ isolated(nop)) \cup (D \ J)
      /\ runq' = {u \in runq \cup queued : job'[u] # None}
      /\ armed' = (armed \ gone) \cup (J \cap JobTimeout)
      /\ n_running' = n_running -
           Cardinality({u \in Units : Running(u) /\ (u \in gone \/ job'[u].state = "waiting")})
      /\ saved' = IF saved \in gone THEN None ELSE saved
      /\ stack' = rest
      /\ held' = {u \in held : job'[u] # None /\ u \notin queued}
      /\ unmet' = {x \in unmet : x.unit \notin gone /\ ~(x.needs \in J /\ tr.jobs[x.needs] # "stop")}
                  \cup Lost({v \in down : v \notin J \/ tr.jobs[v] = "stop"}, "canceled", job')
      /\ stale' = (stale \ gone) \cup
           {u \in J : tr.jobs[u] = "reload" /\ UNIT_IS_ACTIVE_OR_RELOADING(ustate[u])}
      /\ UNCHANGED ustate
-----------------------------------------------------------------------------
(* Finishing a job *)

\* Mutant: only the result "failed" is propagated, not a timeout or a cancellation.
FailTargets_failed_only(u, t, result, recursive) ==
  IF recursive /\ result = "failed" /\ t \in {"start", "verify"}
  THEN PROPAGATE_START_FAILURE(u) ELSE {}

\* The units whose start jobs job_finish_and_invalidate() fails, given the job's type.
FailTargets(u, t, result, recursive) ==
  IF ~recursive THEN {}
  ELSE IF result # "done"
  THEN CASE t \in {"start", "verify"} -> PROPAGATE_START_FAILURE(u)
         [] t = "stop"                -> PROPAGATE_STOP_FAILURE(u)
         [] OTHER                     -> {}
  ELSE IF t \in {"start", "reload"} /\ ~UNIT_IS_ACTIVE_OR_RELOADING(ustate[u])
  THEN PROPAGATE_INACTIVE_START_AS_FAILURE(u) ELSE {}

FailFrame(u, S)  == IF S = {} THEN <<>> ELSE <<[op |-> "fail", unit |-> u, todo |-> S]>>
RequestFrame(u)  == <<[op |-> "request", unit |-> u]>>
TailFrame(u)     == <<[op |-> "tail", unit |-> u]>>

\* OnFailure= of a job that timed out or failed because of a dependency.
OnFailureFrame(u, result) ==
  IF result \in {"timeout", "dependency"} /\ u \in OnFailure THEN RequestFrame(u) ELSE <<>>

\* Mutant: the count is not taken back.
StayCounted(u) == n_running

\* job_set_state() on a job that waits again, or that is uninstalled.
LeaveRunning(u) == IF Running(u) THEN n_running - 1 ELSE n_running

\* Mutant: the return for a patched restart comes before the loops that look at the
\* jobs of the units ordered against this one.
PatchRestart_returns_early(u, rest) ==
  /\ job' = [job EXCEPT ![u].type = "start", ![u].state = "waiting"]
  /\ runq' = runq \cup {u}
  /\ held' = held \ {u}
  /\ n_running' = LeaveRunning(u)
  /\ saved' = IF rest = <<>> THEN None ELSE saved
  /\ stack' = rest
  /\ UNCHANGED <<nop, armed, unmet, stale>>

\* A finished restart job becomes a start job, under the same id.
PatchRestart(u, rest) ==
  /\ job' = [job EXCEPT ![u].type = "start", ![u].state = "waiting"]
  /\ runq' = runq \cup {u}
  /\ held' = held \ {u}
  /\ n_running' = LeaveRunning(u)
  /\ saved' = IF rest = <<>> THEN None ELSE saved
  /\ stack' = TailFrame(u) \o rest
  /\ UNCHANGED <<nop, armed, unmet, stale>>

\* job_uninstall() and job_free(), then the calls that are still to be made.
Uninstall(u, result, recursive, rest) ==
  LET t == job[u].type
      down == /\ ~UNIT_IS_ACTIVE_OR_RELOADING(ustate[u])
              /\ ~job[u].ignore_order
              /\ t \in {"start", "verify"} /\ result # "done"
  IN  /\ job' = [job EXCEPT ![u] = None]
      /\ runq' = runq \ {u}
      /\ held' = held \ {u}
      /\ armed' = armed \ {u}
      /\ n_running' = LeaveRunning(u)
      /\ saved' = IF saved = u \/ rest = <<>> THEN None ELSE saved
      /\ stack' = FailFrame(u, FailTargets(u, t, result, recursive))
                  \o OnFailureFrame(u, result) \o TailFrame(u) \o rest
      /\ unmet' = {x \in unmet : x.unit # u} \cup (IF down THEN Lost({u}, result, job') ELSE {})
      /\ stale' = IF result = "done" THEN stale ELSE stale \ {u}
      /\ UNCHANGED nop

job_finish_and_invalidate(u, result, recursive, rest) ==
  /\ IF result = "done" /\ job[u].type = "restart"
     THEN PatchRestart(u, rest)
     ELSE Uninstall(u, result, recursive, rest)
  /\ UNCHANGED <<ustate, requests>>

\* A nop job has no effect on its unit: it only ends.
FinishNop(u, result) ==
  /\ stack = <<>>
  /\ u \in nop
  /\ nop' = nop \ {u}
  /\ stack' = OnFailureFrame(u, result) \o TailFrame(u)
  /\ UNCHANGED <<ustate, job, runq, armed, n_running, saved, held, unmet, stale, requests>>

\* One turn of the loop of job_fail_dependencies().
job_fail_dependencies ==
  /\ stack # <<>> /\ Head(stack).op = "fail"
  /\ \E v \in Head(stack).todo :
       LET rest == FailFrame(Head(stack).unit, Head(stack).todo \ {v}) \o Tail(stack)
       IN  IF job[v] # None /\ job[v].type \in {"start", "verify"}
           THEN job_finish_and_invalidate(v, "dependency", TRUE, rest)
           ELSE stack' = rest /\ UNCHANGED <<ustate, engine, requests>>

\* Mutant: the jobs of units ordered before this one are not looked at.
QueueAfter ==
  /\ stack # <<>> /\ Head(stack).op = "tail"
  /\ LET S == {v \in Installed : <<Head(stack).unit, v>> \in Before}
     IN  runq' = runq \cup S /\ held' = held \ S
  /\ stack' = Tail(stack)
  /\ UNCHANGED <<ustate, job, nop, armed, n_running, saved, unmet, stale, requests>>

\* The loops at the end of job_finish_and_invalidate(): the jobs of all units
\* ordered against this one are looked at again.
QueueNeighbours ==
  /\ stack # <<>> /\ Head(stack).op = "tail"
  /\ LET S == Neighbours(Head(stack).unit) \cap Installed
     IN  runq' = runq \cup S /\ held' = held \ S
  /\ stack' = Tail(stack)
  /\ UNCHANGED <<ustate, job, nop, armed, n_running, saved, unmet, stale, requests>>

\* unit_start_on_failure(), retroactively_start_dependencies() and
\* retroactively_stop_dependencies(): any number of further transactions.
RequestMore ==
  /\ stack # <<>> /\ Head(stack).op = "request"
  /\ \E tr \in Transactions : manager_add_job(tr, stack)

RequestNoMore ==
  /\ stack # <<>> /\ Head(stack).op = "request"
  /\ stack' = Tail(stack)
  /\ UNCHANGED <<ustate, engine, requests>>

-----------------------------------------------------------------------------
(* The state of a unit changes *)

NotifyFrame(u, reload_failure) ==
  [op |-> "notify", unit |-> u, os |-> ustate[u], reload_failure |-> reload_failure]

\* u enters state ns: what that makes of the history variables.
Enter(u, ns) ==
  /\ ustate' = [ustate EXCEPT ![u] = ns]
  /\ unmet' = IF UNIT_IS_ACTIVE_OR_RELOADING(ns) THEN {x \in unmet : x.needs # u} ELSE unmet

\* The unit type's code reports a new state on its own: a process exits, a device
\* appears, a unit timeout elapses.
UnitChanges(u, ns, reload_failure) ==
  /\ stack = <<>>
  /\ Enter(u, ns)
  /\ stale' = IF UNIT_IS_ACTIVE_OR_RELOADING(ns) THEN stale ELSE stale \ {u}
  /\ stack' = <<NotifyFrame(u, reload_failure)>>
  /\ UNCHANGED <<job, nop, runq, armed, n_running, saved, held, requests>>

\* unit_process_job(): the result with which state ns ends the unit's job, or None.
ProcessResult(u, ns, reload_failure) ==
  LET t == job[u].type
      ended == IF ns = "failed" THEN "failed" ELSE "done"
  IN  CASE t \in {"start", "verify"} ->
             IF UNIT_IS_ACTIVE_OR_RELOADING(ns) THEN "done"
             ELSE IF Running(u) /\ UNIT_IS_INACTIVE_OR_FAILED(ns) THEN ended
             ELSE None
        [] t = "reload" ->
             IF ~Running(u) THEN None
             ELSE IF ns = "active" THEN (IF reload_failure THEN "failed" ELSE "done")
             ELSE IF UNIT_IS_INACTIVE_OR_FAILED(ns) THEN ended
             ELSE None
        [] OTHER ->
             IF UNIT_IS_INACTIVE_OR_FAILED(ns) THEN "done"
             ELSE IF Running(u) /\ ns # "deactivating" THEN "failed"
             ELSE None

\* The state change was not asked for by the unit's job.
Unexpected(u, ns) ==
  \/ job[u] = None
  \/ /\ Running(u)
     /\ CASE job[u].type \in {"start", "verify"} ->
               ~UNIT_IS_ACTIVE_OR_ACTIVATING(ns)
          [] job[u].type = "reload" -> ns \notin {"active", "activating", "reloading"}
          [] OTHER ->
               ~UNIT_IS_INACTIVE_OR_DEACTIVATING(ns)

\* unit_notify() goes on to request jobs for units that depend on this one.
NotifyRequests(u, os, ns) ==
  \/ /\ Unexpected(u, ns)
     /\ \/ UNIT_IS_INACTIVE_OR_FAILED(os) /\ UNIT_IS_ACTIVE_OR_ACTIVATING(ns)
        \/ UNIT_IS_ACTIVE_OR_ACTIVATING(os) /\ UNIT_IS_INACTIVE_OR_DEACTIVATING(ns)
  \/ u \in OnFailure /\ ns # os /\ ns = "failed"
  \/ u \in OnFailure /\ ns = "inactive" /\ os \notin {"failed", "inactive", "maintenance"}

\* unit_process_job() on a job that waits: another try.
Requeue(u) == IF Waiting(u) THEN runq \cup {u} ELSE runq

unit_notify ==
  /\ stack # <<>> /\ Head(stack).op = "notify"
  /\ LET u    == Head(stack).unit
         ns   == ustate[u]
         rest == (IF NotifyRequests(u, Head(stack).os, ns) THEN RequestFrame(u) ELSE <<>>)
                 \o Tail(stack)
         res  == IF job[u] = None THEN None
                 ELSE ProcessResult(u, ns, Head(stack).reload_failure)
     IN  IF res # None
         THEN job_finish_and_invalidate(u, res, TRUE, rest)
         ELSE /\ runq' = Requeue(u)
              /\ held' = held \ {u}
              /\ stack' = rest
              /\ UNCHANGED <<ustate, job, nop, armed, n_running, saved, unmet, stale, requests>>
-----------------------------------------------------------------------------
(* Running a job *)

\* The ways in which an operation of the unit type may answer: the state it leaves
\* the unit in, whether it reports that state before it returns, and its return code.
Silently(u, codes) ==
  {[ns |-> ustate[u], notify |-> FALSE, reload_failure |-> FALSE, code |-> c] : c \in codes}
Reporting(states, codes) ==
  {[ns |-> s, notify |-> TRUE, reload_failure |-> FALSE, code |-> c] : s \in states, c \in codes}

\* The start operation of the unit type, reached when all checks have passed: "ok"
\* without a report is a unit that is only waited for, or one that is starting already;
\* a start limit that was hit enters the failed state and then returns an error.
TypeStart(u) ==
  Silently(u, {"ok", "EIO"}) \cup
  (IF ustate[u] \in {"activating", "deactivating"} THEN Silently(u, {"EAGAIN"}) ELSE {}) \cup
  (IF ustate[u] # "deactivating"
   THEN Reporting({"activating", "active", "inactive", "failed"}, {"ok"})
        \cup Reporting({"failed"}, {"EIO"})
   ELSE {})

unit_start(u) ==
  (IF u \in Throttled THEN Silently(u, {"EAGAIN"}) ELSE {}) \cup
  (CASE UNIT_IS_ACTIVE_OR_RELOADING(ustate[u]) -> Silently(u, {"EALREADY"})
     [] ustate[u] = "maintenance"              -> Silently(u, {"EAGAIN"})
     [] OTHER ->
          Silently(u, {"EIO", "ESTALE", "EOPNOTSUPP"}
                      \cup (IF ustate[u] # "activating" THEN {"ECOMM", "EPROTO"} ELSE {}))
          \cup (IF unit_verify_deps(u) THEN TypeStart(u) ELSE Silently(u, {"ENOLINK"})))

\* A socket that is still starting begins to stop and yet returns -EAGAIN.
unit_stop(u) ==
  IF UNIT_IS_INACTIVE_OR_FAILED(ustate[u]) THEN Silently(u, {"EALREADY"})
  ELSE Silently(u, {"ok", "EIO"})
       \cup Reporting({"deactivating", "inactive", "failed"}, {"ok"})
       \cup (IF ustate[u] = "activating" THEN Reporting({"deactivating"}, {"EAGAIN"}) ELSE {})

\* A unit without a reload operation reports its unchanged state.
unit_reload(u) ==
  Silently(u, {"EIO", "EBADR"}) \cup
  (CASE ustate[u] = "reloading" -> Silently(u, {"EAGAIN"})
     [] ustate[u] = "active"    ->
          Reporting({"active", "reloading", "deactivating"}, {"ok"}) \cup
          {[ns |-> "active", notify |-> TRUE, reload_failure |-> TRUE, code |-> "ok"]}
     [] OTHER                   -> Silently(u, {"ENOEXEC"}))

\* JOB_VERIFY_ACTIVE looks at the unit, and does nothing to it.
verify_active(u) ==
  Silently(u, {CASE UNIT_IS_ACTIVE_OR_RELOADING(ustate[u]) -> "EALREADY"
                 [] ustate[u] = "activating"               -> "EAGAIN"
                 [] OTHER                                  -> "EBADR"})

job_perform_on_unit(u) ==
  CASE job[u].type = "start"               -> unit_start(u)
    [] job[u].type \in {"stop", "restart"} -> unit_stop(u)
    [] job[u].type = "reload"              -> unit_reload(u)
    [] OTHER                               -> verify_active(u)

\* job_run_and_invalidate() on a job that has no reason to run yet, or any more.
SkipJob(u) ==
  /\ stack = <<>> /\ u \in runq
  /\ ~Waiting(u) \/ ~job_is_runnable(u)
  /\ runq' = runq \ {u}
  /\ UNCHANGED <<ustate, job, nop, armed, n_running, saved, stack, held, unmet, stale, requests>>

\* job_run_and_invalidate() up to the operation of the unit type: the job counts as
\* running from before the call, and its id is kept across it.
RunJob(u) ==
  /\ stack = <<>> /\ u \in runq
  /\ Waiting(u) /\ job_is_runnable(u)
  /\ runq' = runq \ {u}
  /\ job' = [job EXCEPT ![u].state = "running", ![u].ran = TRUE]
  /\ n_running' = n_running + 1
  /\ armed' = IF u \in JobRunningTimeout THEN armed \cup {u} ELSE armed
  /\ saved' = u
  /\ \E a \in job_perform_on_unit(u) :
       /\ a.ns \in StatesOf[u]
       /\ Enter(u, a.ns)
       /\ stale' = IF \/ job[u].type = "reload" /\ a.code = "ok"
                      \/ ~UNIT_IS_ACTIVE_OR_RELOADING(a.ns)
                   THEN stale \ {u} ELSE stale
       /\ stack' = (IF a.notify THEN <<NotifyFrame(u, a.reload_failure)>> ELSE <<>>)
                   \o <<[op |-> "return", unit |-> u, code |-> a.code]>>
  /\ UNCHANGED <<nop, held, requests>>

ResultOf(code) ==
  CASE code \in {"EALREADY", "ECOMM"} -> "done"
    [] code = "EBADR"      -> "skipped"
    [] code = "ENOEXEC"    -> "invalid"
    [] code = "EPROTO"     -> "assert"
    [] code = "EOPNOTSUPP" -> "unsupported"
    [] code = "ENOLINK"    -> "dependency"
    [] code = "ESTALE"     -> "once"
    [] OTHER               -> "failed"

\* The rest of job_run_and_invalidate(), if the job that was run is still installed.
ReturnFromUnit ==
  /\ stack # <<>> /\ Head(stack).op = "return"
  /\ LET u == Head(stack).unit
         code == Head(stack).code
     IN  IF saved = None \/ code = "ok"
         THEN /\ stack' = Tail(stack)
              /\ saved' = None
              /\ UNCHANGED <<ustate, job, nop, runq, armed, n_running, held, unmet, stale, requests>>
         ELSE IF code = "EAGAIN"
         THEN /\ job' = [job EXCEPT ![u].state = "waiting"]
              /\ n_running' = LeaveRunning(u)
              /\ held' = IF u \in runq THEN held ELSE held \cup {u}
              /\ stack' = Tail(stack)
              /\ saved' = None
              /\ UNCHANGED <<ustate, nop, runq, armed, unmet, stale, requests>>
         ELSE job_finish_and_invalidate(u, ResultOf(code), TRUE, Tail(stack))

-----------------------------------------------------------------------------
(* The other events *)

\* The mount table's rate limit ends, or another swap on the device changes state.
ThrottleEnds ==
  /\ stack = <<>>
  /\ Throttled \cap Installed # {}
  /\ runq' = runq \cup (Throttled \cap Installed)
  /\ held' = held \ Throttled
  /\ UNCHANGED <<ustate, job, nop, armed, n_running, saved, stack, unmet, stale, requests>>

AddJob == stack = <<>> /\ \E tr \in Transactions : manager_add_job(tr, <<>>)

job_dispatch_timer(u) ==
  /\ stack = <<>>
  /\ u \in armed
  /\ job_finish_and_invalidate(u, "timeout", TRUE, <<>>)

bus_job_method_cancel(u) ==
  /\ stack = <<>>
  /\ job[u] # None
  /\ job_finish_and_invalidate(u, "canceled", TRUE, <<>>)

\* The last client that tracks the job goes away.
bus_job_track_handler(u) ==
  /\ stack = <<>>
  /\ job[u] # None /\ job[u].ref
  /\ job' = [job EXCEPT ![u].ref = FALSE]
  /\ UNCHANGED <<ustate, nop, runq, armed, n_running, saved, stack, held, unmet, stale, requests>>

\* A job that may be collected is: whenever it may, not only when it was queued for it.
manager_dispatch_gc_job_queue(u) ==
  /\ stack = <<>>
  /\ job_may_gc(u)
  /\ job_finish_and_invalidate(u, "collected", FALSE, <<>>)

manager_clear_jobs ==
  /\ stack = <<>>
  /\ Installed \cup nop # {}
  /\ job' = [u \in Units |-> None]
  /\ nop' = {} /\ runq' = {} /\ armed' = {} /\ held' = {} /\ unmet' = {} /\ stale' = {}
  /\ n_running' = n_running - Cardinality({u \in Units : Running(u)})
  /\ saved' = None
  /\ UNCHANGED <<ustate, stack, requests>>

\* Mutant: no timer is set up again.
NoTimers == {}

\* job_coldplug() computes the deadline of a job again.
ColdplugTimers ==
  {u \in Installed : u \in JobTimeout \/ (job[u].ran /\ u \in JobRunningTimeout)}

\* daemon-reload: every job is serialized, freed, read back and coldplugged.  A job
\* referenced over a private connection is no longer referenced afterwards.
manager_reload ==
  /\ stack = <<>>
  /\ Installed # {}
  /\ \E S \in SUBSET Installed :
       job' = [u \in Units |-> IF u \in S THEN [job[u] EXCEPT !.ref = FALSE] ELSE job[u]]
  /\ runq' = {u \in Units : Waiting(u)}
  /\ held' = {}
  /\ armed' = ColdplugTimers
  /\ n_running' = Cardinality({u \in Units : Running(u)})
  /\ UNCHANGED <<ustate, nop, saved, stack, unmet, stale, requests>>

-----------------------------------------------------------------------------

ManagerEvent ==
  \/ AddJob
  \/ ThrottleEnds
  \/ manager_clear_jobs
  \/ manager_reload
  \/ \E u \in Units :
       \/ RunJob(u)
       \/ SkipJob(u)
       \/ FinishNop(u, "done")
       \/ FinishNop(u, "canceled")
       \/ u \in JobTimeout /\ FinishNop(u, "timeout")
       \/ job_dispatch_timer(u)
       \/ bus_job_method_cancel(u)
       \/ bus_job_track_handler(u)
       \/ manager_dispatch_gc_job_queue(u)

UnitEvent ==
  \E u \in Units : \E ns \in StatesOf[u], f \in BOOLEAN : UnitChanges(u, ns, f)

Call ==
  \/ job_fail_dependencies
  \/ QueueNeighbours
  \/ RequestMore
  \/ RequestNoMore
  \/ unit_notify
  \/ ReturnFromUnit

Next == ManagerEvent \/ UnitEvent \/ Call

Spec == Init /\ [][Next]_vars

\* Calls return, and a pending timer is dispatched (sd_event keeps it pending).
TimerFairness ==
  /\ WF_vars(Call)
  /\ \A u \in Units : SF_vars(job_dispatch_timer(u))

TimerSpec == Spec /\ TimerFairness

\* A unit that was told to do something ends it one way or the other.
UnitReports(u) ==
  \/ /\ Running(u)
     /\ \E ns \in StatesOf[u] :
          ProcessResult(u, ns, FALSE) # None /\ UnitChanges(u, ns, FALSE)
  \/ /\ u \in held
     /\ \E ns \in StatesOf[u] \cap
                   CASE ustate[u] = "deactivating" -> {"inactive", "failed"}
                     [] ustate[u] = "reloading"    -> {"active"}
                     [] ustate[u] = "maintenance"  -> {"inactive"}
                     [] OTHER                      -> {"active", "inactive", "failed"} :
          UnitChanges(u, ns, FALSE)

\* Units change state only to answer their jobs, and always answer in the end (their
\* own timeouts make them); the run queue is dispatched.
CooperativeSpec ==
  /\ Init
  /\ [][ManagerEvent \/ Call \/ \E u \in Units : UnitReports(u)]_vars
  /\ WF_vars(Call)
  /\ \A u \in Units : /\ SF_vars(RunJob(u) \/ SkipJob(u))
                      /\ SF_vars(FinishNop(u, "done"))
                      /\ SF_vars(UnitReports(u))

-----------------------------------------------------------------------------
(* Properties *)

\* n_running_jobs is the number of running jobs: job_set_state() asserts that it is
\* positive before it decrements it, and a failed assertion takes the manager down.
RunningCounted == n_running = Cardinality({u \in Units : Running(u)})

\* A call is in progress that will still put u's job into the run queue.
TailPending(calls, u) ==
  \E i \in DOMAIN calls : calls[i].op = "tail" /\ calls[i].unit \in Neighbours(u)

\* A job that waits outside the run queue has something to wake it: it returned
\* -EAGAIN and its unit will report, or a unit ordered against it has a job whose end
\* puts it back into the queue, or that end is just being processed.
NoLostWakeup ==
  \A u \in Units :
    Waiting(u) /\ u \notin runq /\ u \notin held =>
      /\ ~job[u].ignore_order
      /\ \/ \E v \in Neighbours(u) :
              job[v] # None /\ (Blocks(v, u) \/ job[v].ignore_order)
         \/ TailPending(stack, u)

\* When the manager is idle and jobs are installed, one of them is in the run queue,
\* is being executed or was put off by its unit: jobs never all wait for each other
\* (for an ordering of the units without cycles).
NoStall ==
  stack = <<>> /\ Installed # {} =>
    \E u \in Installed : u \in runq \/ u \in held \/ Running(u)

\* The step begins the start of a unit although one it needs, ordered before it,
\* did not come up.
Begins(x) ==
  /\ <<x.needs, x.unit>> \in Before
  /\ Waiting(x.unit) /\ job[x.unit].type = "start" /\ ~job[x.unit].ignore_order
  /\ job'[x.unit] # None /\ job'[x.unit].state = "running"

\* If a unit does not come up, the start jobs that require it and are ordered after it
\* do not begin (job_fail_dependencies reaches all of them, and no job they wait for
\* is collected under them).
FailurePropagated ==
  [][\A x \in unmet : x.type \in {"start", "verify"} => ~Begins(x)]_vars

\* The same when the required unit fails while the other is being restarted.
RestartNeedsRequired ==
  [][\A x \in unmet : x.type = "restart" /\ x.result = "failed" => ~Begins(x)]_vars

\* A reload that is asked for while the unit is up is not reported as done before the
\* unit has begun another reload: it never gets lost in one that runs already.
ReloadHonoured == stale \subseteq Installed

\* Every job of a unit with a JobTimeoutSec= ends, whatever the units do and however
\* the units are ordered.
JobsTimeOut ==
  \A u \in JobTimeout : job[u] # None ~> job[u] = None

\* With units that answer, all jobs end: none waits for ever for its turn.
AllJobsEnd == <>[](Installed = {} /\ nop = {})
=============================================================================
