---------------------------- MODULE Transaction -----------------------------
(***************************************************************************)
(* manager_add_job(): a request is turned into a transaction, a set of     *)
(* jobs connected by the dependencies that pulled them in, which is then   *)
(* reduced, checked and merged until it can be applied (core/transaction.c).*)
(*                                                                         *)
(* All of this happens in one call, so that the state of the manager, `w', *)
(* does not change.  Sets and hash maps are walked in an arbitrary order.  *)
(***************************************************************************)
EXTENDS JobType, FiniteSets, Sequences

CONSTANTS
  Units,     \* the loaded units
  None,      \* no job
  Families   \* sets of situations in which a job may be requested (see WorldsAssumption)

RequestTypes == TransactionTypes \cup {"try-restart", "try-reload", "reload-or-start"}
JobMode == {"fail", "replace", "replace-irreversibly", "isolate", "flush",
            "ignore-dependencies", "ignore-requirements", "triggering"}

Job == Units \X TransactionTypes
Installed == [type : MergingTypes, irreversible : BOOLEAN, ignore_order : BOOLEAN]

\* A situation: the dependencies between units (pairs <<u, v>>: u has the dependency
\* on v), the units with a trait that restricts their jobs, the state and the installed
\* job of each unit, and the request.  BindsTo= is like Requires= here, Upholds= like
\* Wants=; a unit without the operations for it has the trait no_restart or no_reload.
Dependencies == {"before", "requires", "requisite", "wants", "conflicts", "part_of",
                 "stops", "reloads", "triggers", "following"}
Traits == {"missing", "perpetual", "no_restart", "no_reload", "ignore_on_isolate", "no_isolate"}

IsWorld(x) ==
  /\ \A d \in Dependencies : x.dep[d] \subseteq Units \X Units
  /\ \A a \in Traits : x.trait[a] \subseteq Units
  /\ x.ustate \in [Units -> UnitActiveState]
  /\ x.job \in [Units -> Installed \cup {None}]
  /\ x.type \in RequestTypes /\ x.unit \in Units /\ x.mode \in JobMode

ASSUME UnitsAssumption == None \notin Installed
ASSUME WorldsAssumption == \A F \in Families : \A x \in F : IsWorld(x)

VARIABLES
  w,        \* the situation
  pc,       \* the step manager_add_job() is at
  jobs,     \* tr->jobs: the types of the jobs of each unit, the head of its list first
  links,    \* the JobDependency objects
  calls,    \* the frames of transaction_add_job_and_dependencies(), innermost first
  failing,  \* the innermost frame is returning an error
  rest,     \* the units that isolating or the triggering mode has still to look at
  anchor,   \* tr->anchor_job
  matters,  \* the jobs with matters_to_anchor set
  doomed,   \* the jobs that transaction_delete_job() is about to delete
  path,     \* transaction_verify_order_one(): the units on the path, the current one first
  clear     \* and the units known to be free of cycles

build == <<calls, failing, rest, anchor>>
order == <<path, clear>>
vars == <<w, pc, jobs, links, build, matters, doomed, order>>

Link == [subject : Job, object : Job, matters : BOOLEAN, conflicts : BOOLEAN]
Pull == [phase : 1..8, type : TransactionTypes, unit : Units, matters : BOOLEAN,
         conflicts : BOOLEAN, strict : BOOLEAN]
Frame == [job : Job, strict : BOOLEAN, todo : SUBSET Pull]

Steps == {"request", "build", "matter", "minimize", "drop", "collect", "verify", "merge",
          "collect again", "drop again", "check", "applied", "failed"}

TypeOK ==
  /\ IsWorld(w)
  /\ pc \in Steps
  /\ jobs \in [Units -> Seq(TransactionTypes)]
  /\ links \subseteq Link
  /\ calls \in Seq(Frame)
  /\ failing \in BOOLEAN
  /\ rest \subseteq Units
  /\ anchor \in Job
  /\ matters \subseteq Job
  /\ doomed \subseteq Job
  /\ path \in Seq(Units)
  /\ clear \subseteq Units

Init ==
  /\ \E F \in Families : w \in F
  /\ pc = "request"
  /\ jobs = [u \in Units |-> <<>>]
  /\ links = {} /\ calls = <<>> /\ failing = FALSE /\ rest = {}
  /\ anchor = <<w.unit, "nop">>
  /\ matters = {} /\ doomed = {} /\ path = <<>> /\ clear = {}

JobsOf(u) == {<<u, jobs[u][i]>> : i \in DOMAIN jobs[u]}
InTransaction == UNION {JobsOf(u) : u \in Units}
Present == {u \in Units : jobs[u] # <<>>}

-----------------------------------------------------------------------------
(* Building the transaction *)

On(d, u) == {v \in Units : <<u, v>> \in w.dep[d]}
By(d, u) == {v \in Units : <<v, u>> \in w.dep[d]}

PULL_IN_START(u)          == On("requires", u)
PULL_IN_START_IGNORED(u)  == On("wants", u)
PULL_IN_VERIFY(u)         == On("requisite", u)
PULL_IN_STOP(u)           == On("conflicts", u)
PULL_IN_STOP_IGNORED(u)   == By("conflicts", u)
PROPAGATE_RESTART(u)      == By("requires", u) \cup By("requisite", u) \cup By("part_of", u)
PROPAGATE_STOP(u)         == PROPAGATE_RESTART(u) \cup On("stops", u)
TRIGGERED_BY(u)           == By("triggers", u)

unit_job_is_applicable(u, t) ==
  /\ t \in {"stop", "restart"} => u \notin w.trait["perpetual"]
  /\ t = "restart" => u \notin w.trait["no_restart"]
  /\ t = "reload" => u \notin w.trait["no_reload"]

Loaded(u, t) == t = "stop" \/ u \notin w.trait["missing"]

\* The jobs that one for unit u of type t pulls in, in the order of the loops of
\* transaction_add_job_and_dependencies().
Pulls(u, t) ==
  LET pull(phase, nt, S, m, c, strict) ==
        {[phase |-> phase, type |-> nt, unit |-> v, matters |-> m, conflicts |-> c,
          strict |-> strict] : v \in S}
      starts == t \in {"start", "restart"}
      if(c, S) == IF c THEN S ELSE {}
      up(v) == job_type_collapse("try-restart", w.ustate[v]) = "restart"
      reloads(v) == job_type_collapse("try-reload", w.ustate[v]) = "reload"
  IN  pull(1, t, if(t # "nop", On("following", u)), FALSE, FALSE, FALSE) \cup
      pull(2, "start", if(starts, PULL_IN_START(u)), TRUE, FALSE, TRUE) \cup
      pull(3, "start", if(starts, PULL_IN_START_IGNORED(u)), FALSE, FALSE, FALSE) \cup
      pull(4, "verify", if(starts, PULL_IN_VERIFY(u)), TRUE, FALSE, TRUE) \cup
      pull(5, "stop", if(starts, PULL_IN_STOP(u)), TRUE, TRUE, TRUE) \cup
      pull(6, "stop", if(starts, PULL_IN_STOP_IGNORED(u)), FALSE, FALSE, FALSE) \cup
      pull(7, "stop", if(t = "stop", PROPAGATE_STOP(u)), TRUE, FALSE, TRUE) \cup
      pull(7, "restart", if(t = "restart", {v \in PROPAGATE_RESTART(u) : up(v)}), TRUE, FALSE, TRUE) \cup
      pull(8, "reload", if(t = "reload", {v \in On("reloads", u) : reloads(v)}), FALSE, FALSE, FALSE)

\* The job is new, or there is one of its type for the unit already.
transaction_add_one_job(u, t) ==
  jobs' = IF <<u, t>> \in JobsOf(u) THEN jobs ELSE [jobs EXCEPT ![u] = <<t>> \o @]

\* The frame of the call for a new job, or none if it pulls in nothing.
NewFrame(u, t, strict, ignore_requirements) ==
  LET P == Pulls(u, t)
  IN  IF <<u, t>> \in JobsOf(u) \/ ignore_requirements \/ P = {} THEN <<>>
      ELSE <<[job |-> <<u, t>>, strict |-> strict, todo |-> P]>>

link(by, u, t, m, c) == [subject |-> by, object |-> <<u, t>>, matters |-> m, conflicts |-> c]

\* The request itself: what is refused at once, and the anchor job.
Request ==
  LET t == job_type_collapse(w.type, w.ustate[w.unit])
      refused == \/ w.mode = "isolate" /\ (w.type # "start" \/ w.unit \in w.trait["no_isolate"])
                 \/ w.mode = "triggering" /\ w.type # "stop"
                 \/ ~Loaded(w.unit, t)
                 \/ ~unit_job_is_applicable(w.unit, t)
  IN  /\ pc = "request"
      /\ IF refused
         THEN pc' = "failed" /\ UNCHANGED <<jobs, build>>
         ELSE /\ pc' = "build"
              /\ transaction_add_one_job(w.unit, t)
              /\ anchor' = <<w.unit, t>>
              /\ calls' = NewFrame(w.unit, t, TRUE,
                                   w.mode \in {"ignore-dependencies", "ignore-requirements"})
              /\ rest' = CASE w.mode = "isolate"    -> Units
                           [] w.mode = "triggering" -> TRIGGERED_BY(w.unit)
                           [] OTHER                 -> {}
              /\ UNCHANGED failing
      /\ UNCHANGED <<w, links, matters, doomed, order>>

\* transaction_add_job_and_dependencies() makes the next call to itself.
PullIn ==
  /\ pc = "build" /\ calls # <<>> /\ ~failing
  /\ \E p \in Head(calls).todo :
       /\ \A q \in Head(calls).todo : p.phase <= q.phase
       /\ LET f == [Head(calls) EXCEPT !.todo = @ \ {p}]
          IN  IF ~Loaded(p.unit, p.type) /\ p.strict
              THEN failing' = TRUE /\ UNCHANGED <<jobs, links, calls>>
              ELSE /\ UNCHANGED failing
                   /\ IF ~Loaded(p.unit, p.type) \/ ~unit_job_is_applicable(p.unit, p.type)
                      THEN calls' = <<f>> \o Tail(calls) /\ UNCHANGED <<jobs, links>>
                      ELSE /\ transaction_add_one_job(p.unit, p.type)
                           /\ links' = links \cup
                                {link(Head(calls).job, p.unit, p.type, p.matters, p.conflicts)}
                           /\ calls' = NewFrame(p.unit, p.type, p.strict, FALSE)
                                       \o <<f>> \o Tail(calls)
  /\ UNCHANGED <<w, pc, rest, anchor, matters, doomed, order>>

\* It has added all dependencies.
Return ==
  /\ pc = "build" /\ calls # <<>> /\ ~failing
  /\ Head(calls).todo = {}
  /\ calls' = Tail(calls)
  /\ UNCHANGED <<w, pc, jobs, links, failing, rest, anchor, matters, doomed, order>>

\* It fails, and what it has added so far stays; its caller ignores that or fails, too.
ReturnError ==
  /\ pc = "build" /\ failing
  /\ calls' = Tail(calls)
  /\ failing' = (Head(calls).strict /\ Tail(calls) # <<>>)
  /\ pc' = IF Head(calls).strict /\ Tail(calls) = <<>> THEN "failed" ELSE "build"
  /\ UNCHANGED <<w, jobs, links, rest, anchor, matters, doomed, order>>

shall_stop_on_isolate(u) == u \notin w.trait["ignore_on_isolate"] /\ jobs[u] = <<>>

\* One turn of the loop of transaction_add_isolate_jobs() or, in the triggering mode, of
\* transaction_add_triggering_jobs().
StopMore ==
  /\ pc = "build" /\ calls = <<>>
  /\ \E u \in rest :
       /\ rest' = rest \ {u}
       /\ IF /\ ~UNIT_IS_INACTIVE_OR_FAILED(w.ustate[u]) \/ w.job[u] # None
             /\ w.mode = "isolate" => /\ shall_stop_on_isolate(u)
                                      /\ \A v \in TRIGGERED_BY(u) : shall_stop_on_isolate(v)
             /\ w.mode = "triggering" => jobs[u] = <<>>
             /\ unit_job_is_applicable(u, "stop")
          THEN /\ transaction_add_one_job(u, "stop")
               /\ links' = links \cup {link(anchor, u, "stop", TRUE, FALSE)}
               /\ calls' = NewFrame(u, "stop", FALSE, FALSE)
          ELSE UNCHANGED <<jobs, links, calls>>
  /\ UNCHANGED <<w, pc, failing, anchor, matters, doomed, order>>

Built ==
  /\ pc = "build" /\ calls = <<>> /\ rest = {}
  /\ pc' = "matter"
  /\ matters' = {anchor}
  /\ UNCHANGED <<w, jobs, links, build, doomed, order>>

-----------------------------------------------------------------------------
(* Reducing the transaction: transaction_activate() *)

\* Mutant: only the jobs that the anchor needs itself are marked.
find_direct_dependencies ==
  /\ pc = "matter"
  /\ matters' = matters \cup {l.object : l \in {x \in links : x.matters /\ x.subject \in matters}}
  /\ pc' = IF w.mode = "fail" THEN "minimize" ELSE "drop"
  /\ UNCHANGED <<w, jobs, links, build, doomed, order>>

\* transaction_find_jobs_that_matter_to_anchor(), one level of the recursion at a time.
transaction_find_jobs_that_matter_to_anchor ==
  LET next == {l.object : l \in {x \in links : x.matters /\ x.subject \in matters}}
  IN  /\ pc = "matter"
      /\ IF next \subseteq matters
         THEN /\ pc' = IF w.mode = "fail" THEN "minimize" ELSE "drop"
              /\ UNCHANGED matters
         ELSE /\ matters' = matters \cup next
              /\ UNCHANGED pc
      /\ UNCHANGED <<w, jobs, links, build, doomed, order>>

\* The list s without the types in T.
Without(s, T) ==
  LET kept[i \in 0..Len(s)] ==
        IF i = 0 THEN <<>>
        ELSE IF s[i] \in T THEN kept[i - 1] ELSE Append(kept[i - 1], s[i])
  IN  kept[Len(s)]

Unlink(S) ==
  /\ jobs' = [u \in Units |-> Without(jobs[u], {t \in TransactionTypes : <<u, t>> \in S})]
  /\ links' = {l \in links : l.subject \notin S /\ l.object \notin S}

\* Mutant: delete_dependencies is not set.
delete_job_alone ==
  /\ doomed # {}
  /\ Unlink(doomed)
  /\ doomed' = {}
  /\ UNCHANGED <<w, pc, build, matters, order>>

\* transaction_delete_job() with delete_dependencies set: the jobs that need a deleted
\* one go with it, one level of the recursion at a time.
transaction_delete_job ==
  /\ doomed # {}
  /\ Unlink(doomed)
  /\ doomed' = {l.subject : l \in {x \in links : /\ x.matters /\ x.object \in doomed
                                                 /\ x.subject \notin doomed}}
  /\ UNCHANGED <<w, pc, build, matters, order>>

\* All the jobs that transaction_minimize_impact() deletes, one after the other.
transaction_minimize_impact ==
  /\ pc = "minimize" /\ doomed = {}
  /\ pc' = "drop"
  /\ doomed' = {j \in InTransaction \ matters :
                  \/ j[2] = "stop" /\ UNIT_IS_ACTIVE_OR_ACTIVATING(w.ustate[j[1]])
                  \/ /\ w.job[j[1]] # None
                     /\ job_type_is_conflicting(j[2], w.job[j[1]].type)}
  /\ UNCHANGED <<w, jobs, links, build, matters, order>>

\* Mutant: the installed job that this one would replace is not looked at.
Redundant_by_state(j) == j # anchor /\ job_type_is_redundant(j[2], w.ustate[j[1]])

Redundant(j) ==
  /\ j # anchor
  /\ job_type_is_redundant(j[2], w.ustate[j[1]])
  /\ w.job[j[1]] # None => ~job_type_is_conflicting(j[2], w.job[j[1]].type)

\* The jobs of units that have only redundant ones are removed; the jobs that need them
\* stay.
transaction_drop_redundant(next) ==
  /\ doomed = {}
  /\ Unlink(UNION {JobsOf(u) : u \in {v \in Units : \A j \in JobsOf(v) : Redundant(j)}})
  /\ pc' = next
  /\ UNCHANGED <<w, build, matters, doomed, order>>

\* One turn of the loop of transaction_collect_garbage(): it sees the heads of the lists.
Garbage == {<<u, Head(jobs[u])>> : u \in Present} \ ({anchor} \cup {l.object : l \in links})

transaction_collect_garbage(next) ==
  /\ doomed = {}
  /\ IF w.mode # "isolate" /\ Garbage # {}
     THEN /\ \E j \in Garbage : doomed' = {j}
          /\ UNCHANGED pc
     ELSE pc' = next /\ UNCHANGED doomed
  /\ UNCHANGED <<w, jobs, links, build, matters, order>>

-----------------------------------------------------------------------------
(* transaction_verify_order(): a depth first search for cycles *)

\* The job that stands for a unit: the first in the transaction, or the installed one.
HasJob(u) == jobs[u] # <<>> \/ w.job[u] # None
JobOf(u) ==
  IF jobs[u] # <<>>
  THEN [type |-> Head(jobs[u]), ignore_order |-> w.mode = "ignore-dependencies"]
  ELSE w.job[u]

\* u's job is executed before v's.
Precedes(u, v) ==
  /\ HasJob(u) /\ HasJob(v)
  /\ \/ <<u, v>> \in w.dep["before"] /\ job_compare(JobOf(u), JobOf(v)) < 0
     \/ <<v, u>> \in w.dep["before"] /\ job_compare(JobOf(v), JobOf(u)) > 0

\* Mutant: one job is visited instead of all of them.
VisitOne ==
  /\ pc = "verify" /\ path = <<>> /\ doomed = {}
  /\ IF clear # {}
     THEN pc' = "merge" /\ clear' = {} /\ UNCHANGED path
     ELSE (\E u \in Present : path' = <<u>>) /\ UNCHANGED <<pc, clear>>
  /\ UNCHANGED <<w, jobs, links, build, matters, doomed>>

\* The loop of transaction_verify_order().
VisitNext ==
  /\ pc = "verify" /\ path = <<>> /\ doomed = {}
  /\ IF Present \subseteq clear
     THEN pc' = "merge" /\ clear' = {} /\ UNCHANGED path
     ELSE (\E u \in Present \ clear : path' = <<u>>) /\ UNCHANGED <<pc, clear>>
  /\ UNCHANGED <<w, jobs, links, build, matters, doomed>>

\* The units of the cycle that may be dropped, as indices into the path, when the search
\* comes back to v.
Droppable(v) ==
  {i \in DOMAIN path : /\ \A k \in 1..(i - 1) : path[k] # v
                       /\ path[i] \in Present
                       /\ JobsOf(path[i]) \cap matters = {}}

\* Mutant: the job that closes the cycle is logged and not deleted.
verify_order_keeps ==
  /\ pc = "verify" /\ path # <<>>
  /\ \E v \in Units \ clear :
       /\ Precedes(Head(path), v)
       /\ IF \A i \in DOMAIN path : path[i] # v
          THEN path' = <<v>> \o path /\ UNCHANGED <<pc, clear>>
          ELSE /\ path' = <<>> /\ clear' = {}
               /\ pc' = IF Droppable(v) = {} THEN "failed" ELSE "collect"
  /\ UNCHANGED <<w, jobs, links, build, matters, doomed>>

\* transaction_verify_order_one() goes on to v, or has come back to v: the last unit of
\* the cycle that does not matter is dropped, and the transaction is verified again.
transaction_verify_order_one ==
  /\ pc = "verify" /\ path # <<>>
  /\ \E v \in Units \ clear :
       /\ Precedes(Head(path), v)
       /\ IF \A i \in DOMAIN path : path[i] # v
          THEN path' = <<v>> \o path /\ UNCHANGED <<pc, doomed, clear>>
          ELSE /\ path' = <<>> /\ clear' = {}
               /\ IF Droppable(v) = {}
                  THEN pc' = "failed" /\ UNCHANGED doomed
                  ELSE /\ pc' = "collect"
                       /\ \E i \in Droppable(v) : /\ \A k \in Droppable(v) : i <= k
                                                  /\ doomed' = JobsOf(path[i])
  /\ UNCHANGED <<w, jobs, links, build, matters>>

Backtrack ==
  /\ pc = "verify" /\ path # <<>>
  /\ \A v \in Units : Precedes(Head(path), v) => v \in clear
  /\ clear' = clear \cup {Head(path)}
  /\ path' = Tail(path)
  /\ UNCHANGED <<w, pc, jobs, links, build, matters, doomed>>

-----------------------------------------------------------------------------
(* Merging and applying *)

\* The types of the list s merged one after the other, for a unit in the given state.
MergeList(s, state) ==
  LET merged[i \in 1..Len(s)] ==
        IF i = 1 THEN s[1]
        ELSE IF merged[i - 1] = "none" THEN "none"
        ELSE job_type_merge_and_collapse(merged[i - 1], s[i], state)
  IN  merged[Len(s)]

MergeAll(u) == MergeList(jobs[u], w.ustate[u])

Unmergeable(u) ==
  {p \in (DOMAIN jobs[u]) \X (DOMAIN jobs[u]) :
     p[1] < p[2] /\ ~job_type_is_mergeable(jobs[u][p[1]], jobs[u][p[2]])}

\* The first two jobs for u that conflict, in the order of the list.
FirstPair(u) ==
  CHOOSE p \in Unmergeable(u) :
    \A q \in Unmergeable(u) : p[1] < q[1] \/ (p[1] = q[1] /\ p[2] <= q[2])

job_is_conflicted_by(j) == \E l \in links : l.object = j /\ l.conflicts

\* Which of the two jobs j and k to delete.
Victim(j, k) ==
  IF j \notin matters /\ k \notin matters
  THEN CASE j[2] = "stop" -> IF job_is_conflicted_by(j) THEN k ELSE j
         [] k[2] = "stop" -> IF job_is_conflicted_by(k) THEN j ELSE k
         [] OTHER         -> j
  ELSE IF j \notin matters THEN j ELSE k

delete_one_unmergeable_job(u) ==
  LET j == <<u, jobs[u][FirstPair(u)[1]]>>
      k == <<u, jobs[u][FirstPair(u)[2]]>>
  IN  IF Unmergeable(u) = {} \/ {j, k} \subseteq matters
      THEN pc' = "failed" /\ UNCHANGED doomed
      ELSE pc' = "collect again" /\ doomed' = {Victim(j, k)}

\* The links between jobs are not read after the merging, and are left out from then on.
transaction_merge_jobs ==
  LET conflicting == {u \in Present : MergeAll(u) = "none"}
  IN  /\ pc = "merge" /\ doomed = {}
      /\ IF conflicting # {}
         THEN /\ \E u \in conflicting : delete_one_unmergeable_job(u)
              /\ UNCHANGED <<jobs, links, anchor>>
         ELSE /\ jobs' = [u \in Units |-> IF u \in Present THEN <<MergeAll(u)>> ELSE <<>>]
              /\ links' = {}
              /\ anchor' = <<anchor[1], MergeAll(anchor[1])>>
              /\ pc' = "drop again"
              /\ UNCHANGED doomed
      /\ UNCHANGED <<w, calls, failing, rest, matters, order>>

transaction_is_destructive ==
  \E u \in Present : /\ w.job[u] # None
                     /\ w.mode = "fail" \/ w.job[u].irreversible
                     /\ job_type_is_conflicting(w.job[u].type, Head(jobs[u]))

\* What transaction_apply() does is the action manager_add_job of module JobEngine.
transaction_apply ==
  /\ pc = "check"
  /\ pc' = IF transaction_is_destructive THEN "failed" ELSE "applied"
  /\ UNCHANGED <<w, jobs, links, build, matters, doomed, order>>

-----------------------------------------------------------------------------

Next ==
  \/ Request
  \/ PullIn \/ Return \/ ReturnError \/ StopMore \/ Built
  \/ transaction_find_jobs_that_matter_to_anchor
  \/ transaction_delete_job
  \/ transaction_minimize_impact
  \/ pc = "drop" /\ transaction_drop_redundant("collect")
  \/ pc = "collect" /\ transaction_collect_garbage("verify")
  \/ VisitNext \/ transaction_verify_order_one \/ Backtrack
  \/ transaction_merge_jobs
  \/ pc = "collect again" /\ transaction_collect_garbage("merge")
  \/ pc = "drop again" /\ transaction_drop_redundant("check")
  \/ transaction_apply

Spec == Init /\ [][Next]_vars

\* The call does not block: it runs until it returns.
FairSpec == Spec /\ WF_vars(Next)

-----------------------------------------------------------------------------
(* Properties *)

\* tr->anchor_job is not freed before transaction_activate() is done with it: no chain
\* of deletions that starts at a job that does not matter to the anchor reaches it.
AnchorKept == pc \notin {"request", "failed"} => anchor \in InTransaction

\* The transaction has followed all dependencies.
DependenciesFollowed == w.mode \notin {"ignore-dependencies", "ignore-requirements"}

\* A unit that is left alone and the job that it has already.
StaysUp(u) == UNIT_IS_ACTIVE_OR_RELOADING(w.ustate[u]) /\ (w.job[u] # None => w.job[u].type # "stop")
StaysDown(u) == UNIT_IS_INACTIVE_OR_FAILED(w.ustate[u]) /\ (w.job[u] # None => w.job[u].type = "stop")

\* The units that unit u requires are started with it, unless they are up and stay up.
Requirements(u) ==
  \A v \in PULL_IN_START(u) : IF jobs[v] = <<>> THEN StaysUp(v) ELSE jobs[v] # <<"stop">>

Starts(u) == jobs[u] \in {<<"start">>, <<"restart">>}

\* Whatever was dropped to minimise the impact, to break cycles and to resolve conflicts:
\* a transaction that starts a unit starts the units it requires as well (for units that
\* can be loaded).
RequirementsMet ==
  pc = "applied" /\ DependenciesFollowed /\ w.trait["missing"] = {} =>
    \A u \in Units : Starts(u) => Requirements(u)

\* The same when a unit cannot be loaded: the units that require it are not started.
LoadErrorsPropagate ==
  pc = "applied" /\ DependenciesFollowed => \A u \in Units : Starts(u) => Requirements(u)

\* A transaction that starts a unit stops the units that it has Conflicts= with, unless
\* they are down and stay down.
ConflictsStopped ==
  pc = "applied" /\ DependenciesFollowed /\ w.trait["missing"] = {} =>
    \A u \in Units : Starts(u) =>
      \A v \in PULL_IN_STOP(u) \ w.trait["perpetual"] :
        IF jobs[v] = <<>> THEN StaysDown(v) ELSE jobs[v] = <<"stop">>

\* A unit that isolating another one leaves alone is to be ignored, or it cannot be
\* stopped, or a unit that triggers it is kept around.
IsolateStops ==
  pc = "matter" /\ w.mode = "isolate" =>
    \A u \in Units \ Present :
      \/ UNIT_IS_INACTIVE_OR_FAILED(w.ustate[u])
      \/ u \in w.trait["ignore_on_isolate"] \cup w.trait["perpetual"]
      \/ \E o \in TRIGGERED_BY(u) : o \in w.trait["ignore_on_isolate"]
                                    \/ (o \in Present /\ jobs[o] # <<"stop">>)

\* A smallest set of units whose jobs all wait for one another.
Waits(C) == C # {} /\ \A u \in C : \E v \in C : Precedes(v, u)
Cycle(C) == Waits(C) /\ \A D \in SUBSET C : Waits(D) => D = C

\* Once the order is verified, no job of the transaction is part of a cycle of jobs that
\* wait for each other, installed ones included.
OrderVerified ==
  [][pc = "verify" /\ pc' = "merge" =>
       \A C \in SUBSET Units : Cycle(C) => C \cap Present = {}]_vars

\* The jobs that are applied are not part of such a cycle either.
OrderApplied ==
  pc = "applied" => \A C \in SUBSET Units : Cycle(C) => C \cap Present = {}

\* manager_add_job() always returns: no round of the loops of transaction_activate()
\* leaves the transaction as it was.
Returns == <>(pc \in {"applied", "failed"})
=============================================================================
