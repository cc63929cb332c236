----------------------------- MODULE AutoQueues -----------------------------
(***************************************************************************)
(* The queues by which the manager keeps units in the state that others    *)
(* call for (manager.c, unit.c): Upholds= starts a unit while another one  *)
(* is active, BindsTo= stops it while another one is inactive, and         *)
(* StopWhenUnneeded= stops it once nobody uses it.                         *)
(*                                                                         *)
(* Whether a unit is called for is a predicate over several units and      *)
(* their jobs.  It is evaluated once, when the unit is taken from a queue: *)
(* if it is false, the unit must get back on the queue when that changes.  *)
(*                                                                         *)
(* Failed units count as inactive, as for all predicates here.  Jobs come  *)
(* and go as JobEngine and Transaction describe; here, any request may     *)
(* give jobs to any units, and any request of a dispatcher may be refused. *)
(*                                                                         *)
(* Twice the code drops a unit that is called for.  A dispatcher has taken *)
(* it from the queue when its request is refused, and only logs that.  And *)
(* a job that ends without a change of state submits its own unit but not  *)
(* those that look at it.  The history variable tells such units apart.    *)
(***************************************************************************)
EXTENDS Naturals

CONSTANTS
  Units,
  Upholds, BindsTo, Wants,   \* pairs of units
  StopWhenUnneeded,          \* the units with that setting
  Burst                      \* of auto_start_stop_ratelimit

ASSUME ConfigAssumption ==
  /\ Upholds \subseteq Units \X Units /\ BindsTo \subseteq Units \X Units
  /\ Wants \subseteq Units \X Units
  /\ StopWhenUnneeded \subseteq Units
  /\ Burst \in Nat \ {0}

VARIABLES
  active_state, job,
  upheldQ, boundQ, unneededQ,
  num,      \* automatic jobs in the present interval of the rate limit
  timer,    \* the units with an auto_start_stop_event_source
  overlooked  \* history: for each queue, the units that are called for and dropped

units == <<active_state, job>>
queues == <<upheldQ, boundQ, unneededQ>>
limit == <<num, timer>>
vars == <<active_state, job, upheldQ, boundQ, unneededQ, num, timer, overlooked>>

States == {"inactive", "activating", "active", "reloading", "deactivating"}
Up == {"active", "reloading"}
JobTypes == {"start", "stop", "restart"}

(* The states that follow each other in the types of units.                *)
Moves == ({"inactive"} \X {"activating", "active"})
         \union ({"activating"} \X {"active", "deactivating", "inactive"})
         \union ({"active"} \X {"reloading", "deactivating", "inactive"})
         \union ({"reloading"} \X {"active", "deactivating", "inactive"})
         \union ({"deactivating"} \X {"inactive", "activating", "active"})

(* UNIT_ATOM_PINS_STOP_WHEN_UNNEEDED and its inverse.                      *)
Pulls == Wants \union BindsTo \union Upholds

Init ==
  /\ active_state = [u \in Units |-> "inactive"]
  /\ job = [u \in Units |-> "none"]
  /\ upheldQ = {} /\ boundQ = {} /\ unneededQ = {}
  /\ num = [u \in Units |-> 0] /\ timer = {}
  /\ overlooked = [upheld |-> {}, bound |-> {}, unneeded |-> {}]
-----------------------------------------------------------------------------
unit_is_upheld_by_active(u) ==
  /\ active_state[u] = "inactive" /\ job[u] = "none"
  /\ \E v \in Units : /\ <<v, u>> \in Upholds
                      /\ job[v] = "none" /\ active_state[v] \in Up

unit_is_bound_by_inactive(u) ==
  /\ active_state[u] = "active" /\ job[u] = "none"
  /\ \E v \in Units : /\ <<u, v>> \in BindsTo
                      /\ job[v] = "none" /\ active_state[v] = "inactive"

(* unit_will_restart() adds nothing: it holds of units with a start job,   *)
(* of services that are activating, and within service_enter_dead().       *)
unit_is_unneeded(u) ==
  /\ u \in StopWhenUnneeded
  /\ active_state[u] = "active" /\ job[u] = "none"
  /\ \A v \in Units : <<v, u>> \in Pulls =>
       job[v] = "none" /\ active_state[v] = "inactive"

(* The units us that unit_submit_to_..._queue() puts on a queue, by their  *)
(* new states.                                                             *)
Upholdable(us) ==
  {u \in us : active_state'[u] = "inactive" /\ \E v \in Units : <<v, u>> \in Upholds}
Bindable(us) ==
  {u \in us : active_state'[u] \in Up /\ \E v \in Units : <<u, v>> \in BindsTo}
Droppable(us) ==
  {u \in us : active_state'[u] \in Up /\ u \in StopWhenUnneeded}

Submit(up, bound, unneeded) ==
  /\ upheldQ' = upheldQ \union Upholdable(up)
  /\ boundQ' = boundQ \union Bindable(bound)
  /\ unneededQ' = unneededQ \union Droppable(unneeded)

(* History: units that the code drops in this step from what it attends    *)
(* to.  They remain overlooked while they are called for and not queued.   *)
Overlook(up, bound, unneeded) ==
  overlooked' =
    [upheld   |-> {u \in overlooked.upheld \union up :
                     unit_is_upheld_by_active(u)' /\ u \notin upheldQ'},
     bound    |-> {u \in overlooked.bound \union bound :
                     unit_is_bound_by_inactive(u)' /\ u \notin boundQ'},
     unneeded |-> {u \in overlooked.unneeded \union unneeded :
                     unit_is_unneeded(u)' /\ u \notin unneededQ'}]

OverlookNone == Overlook({}, {}, {})

(* manager_loop() waits for events only if the queues are empty.           *)
Idle == upheldQ = {} /\ boundQ = {} /\ unneededQ = {}
-----------------------------------------------------------------------------
(* Somebody asks for a job.  One that conflicts is cancelled, which is one *)
(* way for a job to finish.                                                *)
Request(u, t) ==
  /\ Idle
  /\ job[u] # t /\ ({job[u], t} \intersect {"none", "stop"} # {})
  /\ job' = [job EXCEPT ![u] = t]
  /\ UNCHANGED <<active_state, limit>>
  /\ IF job[u] = "none" THEN UNCHANGED queues ELSE Submit({u}, {u}, {u})
  /\ OverlookNone

(* unit_process_job(): what may become of the job of u once u is in the    *)
(* state s; a job that waits is less easily finished than one that runs.   *)
JobsAfter(u, s) ==
  CASE job[u] = "start" ->
         CASE s \in Up -> {"none"} [] s = "inactive" -> {"start", "none"} [] OTHER -> {"start"}
    [] job[u] \in {"stop", "restart"} ->
         CASE s = "inactive" -> {IF job[u] = "restart" THEN "start" ELSE "none"}
           [] s = "deactivating" -> {job[u]}
           [] OTHER -> {job[u], "none"}
    [] OTHER -> {"none"}

(* The units that unit_notify() and job_finish_and_invalidate() submit.    *)
UpheldOf(u, s) == {v \in Units : s \in Up /\ <<u, v>> \in Upholds}
BoundBy(u, s) == {v \in Units : s = "inactive" /\ <<v, u>> \in BindsTo}
PulledBy(u, s) == {v \in Units : s = "inactive" /\ <<u, v>> \in Pulls}

(* Mutated: a unit that starts too late to be told is not looked at.       *)
unit_notify_others(u, s) ==
  /\ Idle /\ <<active_state[u], s>> \in Moves
  /\ active_state' = [active_state EXCEPT ![u] = s]
  /\ \E j \in JobsAfter(u, s) : job' = [job EXCEPT ![u] = j]
  /\ Submit({u} \union UpheldOf(u, s), BoundBy(u, s), {u} \union PulledBy(u, s))
  /\ UNCHANGED limit
  /\ OverlookNone

(* unit_notify(): u is in the state s.  The conditions on s and on the job *)
(* are those of Submit(), as a unit that is inactive is submitted to be    *)
(* upheld and one that is active to be stopped.                            *)
unit_notify(u, s) ==
  /\ Idle /\ <<active_state[u], s>> \in Moves
  /\ active_state' = [active_state EXCEPT ![u] = s]
  /\ \E j \in JobsAfter(u, s) : job' = [job EXCEPT ![u] = j]
  /\ Submit({u} \union UpheldOf(u, s), {u} \union BoundBy(u, s),
            {u} \union PulledBy(u, s))
  /\ UNCHANGED limit
  /\ OverlookNone

(* job_finish_and_invalidate() without a change of state: the job had      *)
(* nothing to do, was cancelled, or failed before the unit was started.    *)
(* Only u is submitted, although others may look at its job.               *)
job_finish_and_invalidate(u) ==
  /\ Idle /\ job[u] # "none"
  /\ job' = [job EXCEPT ![u] = "none"]
  /\ UNCHANGED <<active_state, limit>>
  /\ Submit({u}, {u}, {u})
  /\ LET s == active_state[u] IN Overlook(UpheldOf(u, s), BoundBy(u, s), PulledBy(u, s))

(* The end of the interval of ratelimit_below().                           *)
IntervalEnds(u) ==
  /\ num[u] > 0 /\ num' = [num EXCEPT ![u] = 0]
  /\ UNCHANGED <<units, queues, timer>>
  /\ OverlookNone

(* The timer of the rate limit.  Exactly at the end of the interval the    *)
(* limit is still in force, and it may be in force again.                  *)
manager_ratelimit_requeue(u) ==
  /\ Idle /\ u \in timer /\ timer' = timer \ {u}
  /\ UNCHANGED <<units, num>>
  /\ Submit({u}, {u}, {u})
  /\ OverlookNone

(* daemon-reload: queues and timers are lost; the states are restored, one *)
(* unit_notify() for every unit that is not inactive, in any order (the    *)
(* extra units were inactive when they were submitted).                    *)
Reload ==
  /\ Idle
  /\ UNCHANGED units
  /\ boundQ' = Bindable(Units) /\ unneededQ' = Droppable(Units)
  /\ \E extra \in SUBSET {u \in Units : active_state[u] # "inactive"} :
       LET told == UNION {UpheldOf(v, active_state[v]) : v \in Units}
       IN  upheldQ' = Upholdable(told) \union (extra \intersect told)
  /\ num' = [u \in Units |-> 0] /\ timer' = {}
  /\ OverlookNone

Event == \E u \in Units : \/ \E t \in JobTypes : Request(u, t)
                          \/ \E s \in States : unit_notify(u, s)
                          \/ job_finish_and_invalidate(u)
-----------------------------------------------------------------------------
(* manager_add_job(): other units may get jobs, too; or the transaction    *)
(* conflicts with jobs that exist, or fails, and there are no new jobs.    *)
manager_add_job(u, t) ==
  \/ UNCHANGED job
  \/ \E more \in SUBSET {v \in Units \ {u} : job[v] = "none"} :
       job' = [v \in Units |-> IF v \in more \union {u} THEN t ELSE job[v]]

(* Mutated: no timer.                                                      *)
Attempt_once(u, t) ==
  /\ IF num[u] < Burst
       THEN /\ num' = [num EXCEPT ![u] = @ + 1]
            /\ manager_add_job(u, t)
            /\ UNCHANGED timer
       ELSE UNCHANGED <<limit, job>>
  /\ UNCHANGED active_state

(* manager_ratelimit_check_and_queue(), and the job if it allows it.       *)
Attempt(u, t) ==
  /\ IF num[u] < Burst
       THEN /\ num' = [num EXCEPT ![u] = @ + 1]
            /\ manager_add_job(u, t)
            /\ UNCHANGED timer
       ELSE timer' = timer \union {u} /\ UNCHANGED <<num, job>>
  /\ UNCHANGED active_state

Leave == UNCHANGED <<units, limit>>

(* u, if the rate limit lets the dispatcher ask for its job: it is dropped *)
(* if the job is refused.                                                  *)
Asked(u) == {v \in {u} : num[v] < Burst}

manager_dispatch_start_when_upheld_queue ==
  \E u \in upheldQ :
    /\ upheldQ' = upheldQ \ {u} /\ UNCHANGED <<boundQ, unneededQ>>
    /\ IF unit_is_upheld_by_active(u) THEN Attempt(u, "start") ELSE Leave
    /\ Overlook(Asked(u), {}, {})

manager_dispatch_stop_when_bound_queue ==
  \E u \in boundQ :
    /\ upheldQ = {}
    /\ boundQ' = boundQ \ {u} /\ UNCHANGED <<upheldQ, unneededQ>>
    /\ IF unit_is_bound_by_inactive(u) THEN Attempt(u, "stop") ELSE Leave
    /\ Overlook({}, Asked(u), {})

manager_dispatch_stop_when_unneeded_queue ==
  \E u \in unneededQ :
    /\ upheldQ = {} /\ boundQ = {}
    /\ unneededQ' = unneededQ \ {u} /\ UNCHANGED <<upheldQ, boundQ>>
    /\ IF unit_is_unneeded(u) THEN Attempt(u, "stop") ELSE Leave
    /\ Overlook({}, {}, Asked(u))

Dispatch == \/ manager_dispatch_start_when_upheld_queue
            \/ manager_dispatch_stop_when_bound_queue
            \/ manager_dispatch_stop_when_unneeded_queue

Next == \/ Event \/ Dispatch \/ Reload
        \/ \E u \in Units : IntervalEnds(u) \/ manager_ratelimit_requeue(u)

(* The loop empties its queues, time passes, and sd-event serves sources   *)
(* of one priority in the order in which they became pending, so that a    *)
(* timer gets its turn among other events.                                 *)
Spec == /\ Init /\ [][Next]_vars
        /\ WF_vars(Dispatch)
        /\ \A u \in Units : /\ WF_vars(IntervalEnds(u))
                            /\ SF_vars(manager_ratelimit_requeue(u))
-----------------------------------------------------------------------------
TypeOK ==
  /\ active_state \in [Units -> States]
  /\ job \in [Units -> JobTypes \union {"none"}]
  /\ upheldQ \subseteq Units /\ boundQ \subseteq Units /\ unneededQ \subseteq Units
  /\ num \in [Units -> 0 .. Burst] /\ timer \subseteq Units
  /\ overlooked \in [upheld : SUBSET Units, bound : SUBSET Units, unneeded : SUBSET Units]

(* unit.c:2757: the queues "check for continuous state changes rather than *)
(* events".  Whenever a unit is called for, by whatever order of changes   *)
(* in several units, it is on the queue or waits for the rate limit; or it *)
(* has been overlooked: since it is called for, its job was refused, or a  *)
(* unit that it depends on lost its job without a change of state.         *)
Attended ==
  \A u \in Units :
    /\ unit_is_upheld_by_active(u) => u \in upheldQ \union timer \union overlooked.upheld
    /\ unit_is_bound_by_inactive(u) => u \in boundQ \union timer \union overlooked.bound
    /\ unit_is_unneeded(u) => u \in unneededQ \union timer \union overlooked.unneeded

(* systemd.unit(5), Upholds=: units "are started whenever found to be      *)
(* inactive or failed, and no job is queued for them".  The rate limit     *)
(* delays that but does not prevent it; what does is only that the unit    *)
(* has been overlooked as above, which the manual does not say.            *)
UpheldIsStarted ==
  \A u \in Units :
    unit_is_upheld_by_active(u) ~>
      (job[u] # "none" \/ ~unit_is_upheld_by_active(u) \/ u \in overlooked.upheld)
=============================================================================
