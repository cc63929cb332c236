-------------------------- MODULE AutoQueuesProofs --------------------------
(***************************************************************************)
(* Proof that the queues miss no unit that is called for, for every        *)
(* configuration of dependencies, but for those that the code is known to  *)
(* drop.                                                                   *)
(***************************************************************************)
EXTENDS AutoQueues, TLAPS

IInv == TypeOK /\ Attended

(* A unit that is overlooked remains so while it is called for, unless it  *)
(* is put on the queue.                                                    *)
LEMMA OverlookKeeps ==
  ASSUME NEW up, NEW bound, NEW unneeded, Overlook(up, bound, unneeded)
  PROVE  \A v \in Units :
           /\ unit_is_upheld_by_active(v)' /\ v \in overlooked.upheld \union up =>
                v \in upheldQ' \union (overlooked').upheld
           /\ unit_is_bound_by_inactive(v)' /\ v \in overlooked.bound \union bound =>
                v \in boundQ' \union (overlooked').bound
           /\ unit_is_unneeded(v)' /\ v \in overlooked.unneeded \union unneeded =>
                v \in unneededQ' \union (overlooked').unneeded
  BY DEF Overlook

LEMMA OverlookType ==
  ASSUME TypeOK, NEW up \in SUBSET Units, NEW bound \in SUBSET Units,
         NEW unneeded \in SUBSET Units, Overlook(up, bound, unneeded)
  PROVE  (overlooked \in [upheld : SUBSET Units, bound : SUBSET Units, unneeded : SUBSET Units])'
  BY DEF TypeOK, Overlook

LEMMA InitInv == Init => IInv
  BY ConfigAssumption DEF Init, IInv, TypeOK, Attended, States, JobTypes, Up,
     unit_is_upheld_by_active, unit_is_bound_by_inactive, unit_is_unneeded

LEMMA RequestInv ==
  ASSUME IInv, NEW u \in Units, NEW t \in JobTypes, Request(u, t)
  PROVE  IInv'
  <1>1. Overlook({}, {}, {})
    BY DEF Request, OverlookNone
  <1>2. TypeOK'
    <2>1. (overlooked \in [upheld : SUBSET Units, bound : SUBSET Units, unneeded : SUBSET Units])'
      BY <1>1, OverlookType DEF IInv
    <2> QED
      BY <2>1 DEF IInv, TypeOK, Request, Submit, Upholdable, Bindable, Droppable, limit, queues
  <1>3. \A v \in Units :
          /\ unit_is_upheld_by_active(v)' => unit_is_upheld_by_active(v)
          /\ unit_is_bound_by_inactive(v)' => unit_is_bound_by_inactive(v)
          /\ unit_is_unneeded(v)' => unit_is_unneeded(v)
    BY DEF IInv, TypeOK, Request, JobTypes, unit_is_upheld_by_active, unit_is_bound_by_inactive,
       unit_is_unneeded
  <1>4. timer' = timer /\ upheldQ = {} /\ boundQ = {} /\ unneededQ = {}
    BY DEF Request, limit, Idle
  <1>5. Attended'
    BY <1>1, <1>3, <1>4, OverlookKeeps DEF IInv, Attended
  <1> QED BY <1>2, <1>5 DEF IInv

LEMMA JobsTyped ==
  ASSUME TypeOK, NEW u \in Units, NEW s \in States
  PROVE  JobsAfter(u, s) \subseteq JobTypes \union {"none"}
  BY DEF TypeOK, JobsAfter, JobTypes

(* A change of state: the units that look at u are submitted.              *)
LEMMA NotifyInv ==
  ASSUME IInv, NEW u \in Units, NEW s \in States, unit_notify(u, s)
  PROVE  IInv'
  <1>1. PICK j \in JobTypes \union {"none"} : job' = [job EXCEPT ![u] = j]
    BY JobsTyped DEF unit_notify, IInv
  <1>2. /\ active_state' = [active_state EXCEPT ![u] = s]
        /\ UNCHANGED <<num, timer>>
        /\ upheldQ' = Upholdable({u} \union UpheldOf(u, s))
        /\ boundQ' = Bindable({u} \union BoundBy(u, s))
        /\ unneededQ' = Droppable({u} \union PulledBy(u, s))
        /\ upheldQ = {} /\ boundQ = {} /\ unneededQ = {}
    BY DEF unit_notify, Submit, limit, Idle
  <1>0. Overlook({}, {}, {})
    BY DEF unit_notify, OverlookNone
  <1>3. TypeOK'
    <2>1. (overlooked \in [upheld : SUBSET Units, bound : SUBSET Units, unneeded : SUBSET Units])'
      BY <1>0, OverlookType DEF IInv
    <2> QED
      BY <1>1, <1>2, <2>1 DEF IInv, TypeOK, Upholdable, Bindable, Droppable, UpheldOf, BoundBy,
         PulledBy
  <1>4. \A v \in Units \ {u} : active_state'[v] = active_state[v] /\ job'[v] = job[v]
    BY <1>1, <1>2 DEF IInv, TypeOK
  <1>5. active_state'[u] = s
    BY <1>2 DEF IInv, TypeOK
  <1>6. ASSUME NEW v \in Units, unit_is_upheld_by_active(v)'
        PROVE  v \in (upheldQ \union timer \union overlooked.upheld)'
    <2>1. PICK w \in Units : /\ <<w, v>> \in Upholds
                             /\ job'[w] = "none" /\ active_state'[w] \in Up
      BY <1>6 DEF unit_is_upheld_by_active
    <2>2. active_state'[v] = "inactive" /\ job'[v] = "none"
      BY <1>6 DEF unit_is_upheld_by_active
    <2>3. CASE v = u \/ w = u
      BY <1>2, <1>5, <2>1, <2>2, <2>3 DEF Upholdable, UpheldOf
    <2>4. CASE v # u /\ w # u
      <3>1. unit_is_upheld_by_active(v)
        BY <1>4, <2>1, <2>2, <2>4 DEF unit_is_upheld_by_active
      <3> QED BY <1>0, <1>2, <1>6, <3>1, OverlookKeeps DEF IInv, Attended
    <2> QED BY <2>3, <2>4
  <1>7. ASSUME NEW v \in Units, unit_is_bound_by_inactive(v)'
        PROVE  v \in (boundQ \union timer \union overlooked.bound)'
    <2>1. PICK w \in Units : /\ <<v, w>> \in BindsTo
                             /\ job'[w] = "none" /\ active_state'[w] = "inactive"
      BY <1>7 DEF unit_is_bound_by_inactive
    <2>2. active_state'[v] = "active" /\ job'[v] = "none"
      BY <1>7 DEF unit_is_bound_by_inactive
    <2>3. CASE v = u \/ w = u
      BY <1>2, <1>5, <2>1, <2>2, <2>3 DEF Bindable, BoundBy, Up
    <2>4. CASE v # u /\ w # u
      <3>1. unit_is_bound_by_inactive(v)
        BY <1>4, <2>1, <2>2, <2>4 DEF unit_is_bound_by_inactive
      <3> QED BY <1>0, <1>2, <1>7, <3>1, OverlookKeeps DEF IInv, Attended
    <2> QED BY <2>3, <2>4
  <1>8. ASSUME NEW v \in Units, unit_is_unneeded(v)'
        PROVE  v \in (unneededQ \union timer \union overlooked.unneeded)'
    <2>1. /\ v \in StopWhenUnneeded
          /\ active_state'[v] = "active" /\ job'[v] = "none"
          /\ \A w \in Units : <<w, v>> \in Pulls =>
               job'[w] = "none" /\ active_state'[w] = "inactive"
      BY <1>8 DEF unit_is_unneeded
    <2>2. CASE v = u
      BY <1>2, <2>1, <2>2 DEF Droppable, Up
    <2>3. CASE v # u /\ <<u, v>> \in Pulls
      <3>1. s = "inactive"
        BY <1>5, <2>1, <2>3
      <3> QED BY <1>2, <2>1, <2>3, <3>1 DEF Droppable, Up, PulledBy
    <2>4. CASE v # u /\ <<u, v>> \notin Pulls
      <3>1. unit_is_unneeded(v)
        BY <1>4, <2>1, <2>4 DEF unit_is_unneeded
      <3> QED BY <1>0, <1>2, <1>8, <3>1, OverlookKeeps DEF IInv, Attended
    <2> QED BY <2>2, <2>3, <2>4
  <1> QED BY <1>3, <1>6, <1>7, <1>8 DEF IInv, Attended

(* A job ends and the state remains: a unit that is called for from now on *)
(* is u itself, or it looks at u and is overlooked.                        *)
LEMMA FinishInv ==
  ASSUME IInv, NEW u \in Units, job_finish_and_invalidate(u)
  PROVE  IInv'
  <1> DEFINE s == active_state[u]
  <1>1. /\ job' = [job EXCEPT ![u] = "none"]
        /\ UNCHANGED <<active_state, num, timer>>
        /\ upheldQ' = Upholdable({u}) /\ boundQ' = Bindable({u})
        /\ unneededQ' = Droppable({u})
        /\ upheldQ = {} /\ boundQ = {} /\ unneededQ = {}
        /\ Overlook(UpheldOf(u, s), BoundBy(u, s), PulledBy(u, s))
    BY DEF job_finish_and_invalidate, Submit, limit, Idle
  <1>2. TypeOK'
    <2>1. (overlooked \in [upheld : SUBSET Units, bound : SUBSET Units, unneeded : SUBSET Units])'
      <3>1. /\ UpheldOf(u, s) \in SUBSET Units /\ BoundBy(u, s) \in SUBSET Units
            /\ PulledBy(u, s) \in SUBSET Units
        BY DEF UpheldOf, BoundBy, PulledBy
      <3> QED BY <1>1, <3>1, OverlookType DEF IInv
    <2> QED BY <1>1, <2>1 DEF IInv, TypeOK, Upholdable, Bindable, Droppable
  <1>3. \A v \in Units \ {u} : job'[v] = job[v]
    BY <1>1 DEF IInv, TypeOK
  <1>4. \A v \in Units \ {u} :
          /\ unit_is_upheld_by_active(v)' => unit_is_upheld_by_active(v) \/ v \in UpheldOf(u, s)
          /\ unit_is_bound_by_inactive(v)' => unit_is_bound_by_inactive(v) \/ v \in BoundBy(u, s)
          /\ unit_is_unneeded(v)' => unit_is_unneeded(v) \/ v \in PulledBy(u, s)
    BY <1>1, <1>3 DEF unit_is_upheld_by_active, unit_is_bound_by_inactive, unit_is_unneeded,
       UpheldOf, BoundBy, PulledBy
  <1>5. /\ unit_is_upheld_by_active(u)' => u \in Upholdable({u})
        /\ unit_is_bound_by_inactive(u)' => u \in Bindable({u})
        /\ unit_is_unneeded(u)' => u \in Droppable({u})
    BY <1>1 DEF unit_is_upheld_by_active, unit_is_bound_by_inactive, unit_is_unneeded,
       Upholdable, Bindable, Droppable, Up
  <1> HIDE DEF s
  <1>6. Attended'
    BY <1>1, <1>4, <1>5, OverlookKeeps DEF IInv, Attended
  <1> QED BY <1>2, <1>6 DEF IInv

LEMMA TimeInv ==
  ASSUME IInv, NEW u \in Units, IntervalEnds(u) \/ manager_ratelimit_requeue(u)
  PROVE  IInv'
  <1>1. UNCHANGED <<active_state, job>>
    BY DEF IntervalEnds, manager_ratelimit_requeue, units
  <1>2. \A v \in Units :
          /\ unit_is_upheld_by_active(v)' = unit_is_upheld_by_active(v)
          /\ unit_is_bound_by_inactive(v)' = unit_is_bound_by_inactive(v)
          /\ unit_is_unneeded(v)' = unit_is_unneeded(v)
    BY <1>1 DEF unit_is_upheld_by_active, unit_is_bound_by_inactive, unit_is_unneeded
  <1>0. Overlook({}, {}, {})
    BY DEF IntervalEnds, manager_ratelimit_requeue, OverlookNone
  <1>3. TypeOK'
    <2>1. (overlooked \in [upheld : SUBSET Units, bound : SUBSET Units, unneeded : SUBSET Units])'
      BY <1>0, OverlookType DEF IInv
    <2> QED
      BY <1>1, <2>1, ConfigAssumption DEF IInv, TypeOK, IntervalEnds, manager_ratelimit_requeue,
         queues, Submit, Upholdable, Bindable, Droppable
  <1>4. CASE IntervalEnds(u)
    <2>1. UNCHANGED <<upheldQ, boundQ, unneededQ, timer>>
      BY <1>4 DEF IntervalEnds, queues
    <2> QED BY <1>0, <1>2, <1>3, <2>1, OverlookKeeps DEF IInv, Attended
  <1>5. CASE manager_ratelimit_requeue(u)
    <2>1. /\ timer' = timer \ {u}
          /\ upheldQ' = Upholdable({u}) /\ boundQ' = Bindable({u})
          /\ unneededQ' = Droppable({u})
          /\ upheldQ = {} /\ boundQ = {} /\ unneededQ = {}
      BY <1>5 DEF manager_ratelimit_requeue, Submit, Idle
    <2>2. /\ unit_is_upheld_by_active(u) => u \in Upholdable({u})
          /\ unit_is_bound_by_inactive(u) => u \in Bindable({u})
          /\ unit_is_unneeded(u) => u \in Droppable({u})
      BY <1>1 DEF unit_is_upheld_by_active, unit_is_bound_by_inactive, unit_is_unneeded,
         Upholdable, Bindable, Droppable, Up
    <2> QED BY <1>0, <1>2, <1>3, <2>1, <2>2, OverlookKeeps DEF IInv, Attended
  <1> QED BY <1>4, <1>5

(* The states that a reload restores put every unit on the queue that it   *)
(* belongs on.                                                             *)
LEMMA ReloadInv ==
  ASSUME IInv, Reload
  PROVE  IInv'
  <1> DEFINE told == UNION {UpheldOf(v, active_state[v]) : v \in Units}
  <1>1. /\ UNCHANGED <<active_state, job>>
        /\ boundQ' = Bindable(Units) /\ unneededQ' = Droppable(Units)
        /\ num' = [u \in Units |-> 0] /\ timer' = {}
    BY DEF Reload, units
  <1>2. /\ Upholdable(told) \subseteq upheldQ' /\ upheldQ' \subseteq Units
    <2>1. PICK extra \in SUBSET {u \in Units : active_state[u] # "inactive"} :
            upheldQ' = Upholdable(told) \union (extra \intersect told)
      BY DEF Reload
    <2>2. Upholdable(told) \subseteq Units
      BY DEF Upholdable, UpheldOf
    <2> QED BY <2>1, <2>2
  <1>3. TypeOK'
    <2>1. (overlooked \in [upheld : SUBSET Units, bound : SUBSET Units, unneeded : SUBSET Units])'
      BY OverlookType DEF IInv, Reload, OverlookNone
    <2> QED
      BY <1>1, <1>2, <2>1, ConfigAssumption DEF IInv, TypeOK, Bindable, Droppable
  <1>4. ASSUME NEW u \in Units, unit_is_upheld_by_active(u)'
        PROVE  u \in upheldQ'
    <2>1. PICK v \in Units : /\ <<v, u>> \in Upholds
                             /\ job'[v] = "none" /\ active_state'[v] \in Up
      BY <1>4 DEF unit_is_upheld_by_active
    <2>2. u \in UpheldOf(v, active_state[v])
      BY <1>1, <2>1 DEF UpheldOf
    <2>3. u \in told
      BY <2>2
    <2>4. u \in Upholdable(told)
      BY <1>4, <2>1, <2>3 DEF Upholdable, unit_is_upheld_by_active
    <2> QED BY <1>2, <2>4
  <1>5. ASSUME NEW u \in Units
        PROVE  /\ unit_is_bound_by_inactive(u)' => u \in boundQ'
               /\ unit_is_unneeded(u)' => u \in unneededQ'
    BY <1>1 DEF unit_is_bound_by_inactive, unit_is_unneeded, Bindable, Droppable, Up
  <1> QED BY <1>3, <1>4, <1>5 DEF IInv, Attended

(* The dispatchers: a unit that is called for gets a job or a timer, and   *)
(* jobs for others only make units less called for.                        *)
LEMMA AttemptInv ==
  ASSUME IInv, NEW u \in Units, NEW t \in JobTypes, Attempt(u, t)
  PROVE  /\ UNCHANGED active_state
         /\ job' \in [Units -> JobTypes \union {"none"}]
         /\ num' \in [Units -> 0 .. Burst] /\ timer' \subseteq Units
         /\ timer \subseteq timer'
         /\ job'[u] = "none" => u \in timer' \union Asked(u)
         /\ \A v \in Units : job'[v] = "none" => job[v] = "none"
         /\ \A v \in Units :
              /\ unit_is_upheld_by_active(v)' => unit_is_upheld_by_active(v)
              /\ unit_is_bound_by_inactive(v)' => unit_is_bound_by_inactive(v)
              /\ unit_is_unneeded(v)' => unit_is_unneeded(v)
  <1>0. TypeOK /\ UNCHANGED active_state
    BY DEF IInv, Attempt
  <1>1. CASE num[u] < Burst
    <2>1. num' = [num EXCEPT ![u] = @ + 1] /\ timer' = timer /\ manager_add_job(u, t)
      BY <1>1 DEF Attempt
    <2>2. num' \in [Units -> 0 .. Burst] /\ u \in Asked(u)
      BY <1>0, <1>1, <2>1, ConfigAssumption DEF TypeOK, Asked
    <2>3. /\ job' \in [Units -> JobTypes \union {"none"}]
          /\ \A v \in Units : job'[v] = "none" => job[v] = "none"
      <3>1. CASE UNCHANGED job
        BY <1>0, <3>1 DEF TypeOK
      <3>2. ASSUME NEW more \in SUBSET Units,
                   job' = [v \in Units |-> IF v \in more \union {u} THEN t ELSE job[v]]
            PROVE  <2>3!:
        BY <1>0, <3>2 DEF TypeOK, JobTypes
      <3> QED BY <2>1, <3>1, <3>2 DEF manager_add_job
    <2> QED BY <1>0, <2>1, <2>2, <2>3 DEF TypeOK, unit_is_upheld_by_active,
               unit_is_bound_by_inactive, unit_is_unneeded
  <1>2. CASE ~(num[u] < Burst)
    BY <1>0, <1>2 DEF Attempt, TypeOK, unit_is_upheld_by_active,
       unit_is_bound_by_inactive, unit_is_unneeded
  <1> QED BY <1>1, <1>2

LEMMA LeaveSame ==
  ASSUME Leave
  PROVE  /\ UNCHANGED <<active_state, job, num, timer>>
         /\ \A v \in Units :
              /\ unit_is_upheld_by_active(v)' = unit_is_upheld_by_active(v)
              /\ unit_is_bound_by_inactive(v)' = unit_is_bound_by_inactive(v)
              /\ unit_is_unneeded(v)' = unit_is_unneeded(v)
  BY DEF Leave, units, limit, unit_is_upheld_by_active, unit_is_bound_by_inactive,
         unit_is_unneeded

LEMMA DispatchInv ==
  ASSUME IInv, Dispatch
  PROVE  IInv'
  <1>0. JobTypes = {"start", "stop", "restart"}
    BY DEF JobTypes
  <1>a. \A v \in Units :
          /\ unit_is_upheld_by_active(v)' => job'[v] = "none"
          /\ unit_is_bound_by_inactive(v)' => job'[v] = "none"
          /\ unit_is_unneeded(v)' => job'[v] = "none"
    BY DEF unit_is_upheld_by_active, unit_is_bound_by_inactive, unit_is_unneeded
  <1>1. CASE manager_dispatch_start_when_upheld_queue
    <2>1. PICK u \in upheldQ :
            /\ upheldQ' = upheldQ \ {u} /\ UNCHANGED <<boundQ, unneededQ>>
            /\ IF unit_is_upheld_by_active(u) THEN Attempt(u, "start") ELSE Leave
            /\ Overlook(Asked(u), {}, {})
      BY <1>1 DEF manager_dispatch_start_when_upheld_queue
    <2>2. u \in Units
      BY DEF IInv, TypeOK
    <2>5. (overlooked \in [upheld : SUBSET Units, bound : SUBSET Units, unneeded : SUBSET Units])'
      BY <2>1, <2>2, OverlookType DEF IInv, Asked
    <2>3. CASE unit_is_upheld_by_active(u)
      <3>1. Attempt(u, "start") /\ "start" \in JobTypes
        BY <1>0, <2>1, <2>3
      <3>2. /\ UNCHANGED active_state
            /\ job' \in [Units -> JobTypes \union {"none"}]
            /\ num' \in [Units -> 0 .. Burst] /\ timer' \subseteq Units
            /\ timer \subseteq timer' /\ (job'[u] = "none" => u \in timer' \union Asked(u))
            /\ \A v \in Units :
                 /\ unit_is_upheld_by_active(v)' => unit_is_upheld_by_active(v)
                 /\ unit_is_bound_by_inactive(v)' => unit_is_bound_by_inactive(v)
                 /\ unit_is_unneeded(v)' => unit_is_unneeded(v)
        BY <2>2, <3>1, AttemptInv
      <3>3. TypeOK'
        BY <2>1, <2>5, <3>2 DEF IInv, TypeOK
      <3>4. Attended'
        BY <1>a, <2>1, <2>2, <3>2, OverlookKeeps DEF IInv, Attended
      <3> QED BY <3>3, <3>4 DEF IInv
    <2>4. CASE ~unit_is_upheld_by_active(u)
      BY <2>1, <2>2, <2>4, <2>5, LeaveSame, OverlookKeeps DEF IInv, TypeOK, Attended
    <2> QED BY <2>3, <2>4
  <1>2. CASE manager_dispatch_stop_when_bound_queue
    <2>1. PICK u \in boundQ :
            /\ boundQ' = boundQ \ {u} /\ UNCHANGED <<upheldQ, unneededQ>>
            /\ IF unit_is_bound_by_inactive(u) THEN Attempt(u, "stop") ELSE Leave
            /\ Overlook({}, Asked(u), {})
      BY <1>2 DEF manager_dispatch_stop_when_bound_queue
    <2>2. u \in Units
      BY DEF IInv, TypeOK
    <2>5. (overlooked \in [upheld : SUBSET Units, bound : SUBSET Units, unneeded : SUBSET Units])'
      BY <2>1, <2>2, OverlookType DEF IInv, Asked
    <2>3. CASE unit_is_bound_by_inactive(u)
      <3>1. Attempt(u, "stop") /\ "stop" \in JobTypes
        BY <1>0, <2>1, <2>3
      <3>2. /\ UNCHANGED active_state
            /\ job' \in [Units -> JobTypes \union {"none"}]
            /\ num' \in [Units -> 0 .. Burst] /\ timer' \subseteq Units
            /\ timer \subseteq timer' /\ (job'[u] = "none" => u \in timer' \union Asked(u))
            /\ \A v \in Units :
                 /\ unit_is_upheld_by_active(v)' => unit_is_upheld_by_active(v)
                 /\ unit_is_bound_by_inactive(v)' => unit_is_bound_by_inactive(v)
                 /\ unit_is_unneeded(v)' => unit_is_unneeded(v)
        BY <2>2, <3>1, AttemptInv
      <3>3. TypeOK'
        BY <2>1, <2>5, <3>2 DEF IInv, TypeOK
      <3>4. Attended'
        BY <1>a, <2>1, <2>2, <3>2, OverlookKeeps DEF IInv, Attended
      <3> QED BY <3>3, <3>4 DEF IInv
    <2>4. CASE ~unit_is_bound_by_inactive(u)
      BY <2>1, <2>2, <2>4, <2>5, LeaveSame, OverlookKeeps DEF IInv, TypeOK, Attended
    <2> QED BY <2>3, <2>4
  <1>3. CASE manager_dispatch_stop_when_unneeded_queue
    <2>1. PICK u \in unneededQ :
            /\ unneededQ' = unneededQ \ {u} /\ UNCHANGED <<upheldQ, boundQ>>
            /\ IF unit_is_unneeded(u) THEN Attempt(u, "stop") ELSE Leave
            /\ Overlook({}, {}, Asked(u))
      BY <1>3 DEF manager_dispatch_stop_when_unneeded_queue
    <2>2. u \in Units
      BY DEF IInv, TypeOK
    <2>5. (overlooked \in [upheld : SUBSET Units, bound : SUBSET Units, unneeded : SUBSET Units])'
      BY <2>1, <2>2, OverlookType DEF IInv, Asked
    <2>3. CASE unit_is_unneeded(u)
      <3>1. Attempt(u, "stop") /\ "stop" \in JobTypes
        BY <1>0, <2>1, <2>3
      <3>2. /\ UNCHANGED active_state
            /\ job' \in [Units -> JobTypes \union {"none"}]
            /\ num' \in [Units -> 0 .. Burst] /\ timer' \subseteq Units
            /\ timer \subseteq timer' /\ (job'[u] = "none" => u \in timer' \union Asked(u))
            /\ \A v \in Units :
                 /\ unit_is_upheld_by_active(v)' => unit_is_upheld_by_active(v)
                 /\ unit_is_bound_by_inactive(v)' => unit_is_bound_by_inactive(v)
                 /\ unit_is_unneeded(v)' => unit_is_unneeded(v)
        BY <2>2, <3>1, AttemptInv
      <3>3. TypeOK'
        BY <2>1, <2>5, <3>2 DEF IInv, TypeOK
      <3>4. Attended'
        BY <1>a, <2>1, <2>2, <3>2, OverlookKeeps DEF IInv, Attended
      <3> QED BY <3>3, <3>4 DEF IInv
    <2>4. CASE ~unit_is_unneeded(u)
      BY <2>1, <2>2, <2>4, <2>5, LeaveSame, OverlookKeeps DEF IInv, TypeOK, Attended
    <2> QED BY <2>3, <2>4
  <1> QED BY <1>1, <1>2, <1>3 DEF Dispatch

LEMMA NextInv ==
  ASSUME IInv, [Next]_vars
  PROVE  IInv'
  <1>1. CASE UNCHANGED vars
    BY <1>1 DEF vars, IInv, TypeOK, Attended, unit_is_upheld_by_active,
       unit_is_bound_by_inactive, unit_is_unneeded
  <1>2. CASE Event
    BY <1>2, RequestInv, NotifyInv, FinishInv DEF Event
  <1>3. CASE Next /\ ~Event
    BY <1>3, DispatchInv, ReloadInv, TimeInv DEF Next
  <1> QED BY <1>1, <1>2, <1>3

(* unit_notify(), job_finish_and_invalidate() and the dispatchers: in any  *)
(* configuration, every unit that is called for is on its queue or waits   *)
(* for the rate limit, but for the units whose job was refused or that     *)
(* look at a unit whose job has ended without a change of state.           *)
THEOREM AttendedAlways == Spec => []Attended
  <1>1. Init => IInv
    BY InitInv
  <1>2. IInv /\ [Next]_vars => IInv'
    BY NextInv
  <1>3. IInv => Attended
    BY DEF IInv
  <1> QED BY <1>1, <1>2, <1>3, PTL DEF Spec
=============================================================================
