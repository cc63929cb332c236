------------------------------- MODULE UnitGC -------------------------------
(***************************************************************************)
(* Garbage collection of units (manager.c, unit.c).                        *)
(*                                                                         *)
(* A unit stays loaded while it is in use itself (unit_may_gc() is false:  *)
(* it has a job, is active, is referenced by a client, or a unit that it   *)
(* names in OnSuccess= or OnFailure= has a job) or while a unit that stays *)
(* refers to it.  Units refer to each other by dependencies and by UnitRef *)
(* objects, and in cycles.  The sweep walks                                *)
(* from a queued unit up to the units that refer to it and marks each      *)
(* needed, not needed or, when it meets its own path, unsure; units found  *)
(* needed later turn the unsure units that they refer to into needed ones. *)
(*                                                                         *)
(* Queues are sets here, so their order is arbitrary, like that of the     *)
(* hash tables that hold the dependencies.  A mark of an earlier round     *)
(* counts as no mark.  A UnitRef comes with a dependency, as that of a     *)
(* socket to its service does; the one that service_set_socket_fd() makes  *)
(* without a dependency is not modelled.                                   *)
(*                                                                         *)
(* Handlers are the units that may be named in OnSuccess= or OnFailure=:   *)
(* their jobs are told apart from the other reasons to stay, and they are  *)
(* merged into each other only.  RefHolders are the units, such as         *)
(* sockets, that hold UnitRefs.                                            *)
(***************************************************************************)
EXTENDS Naturals, Sequences, FiniteSets

CONSTANTS Units, NoUnit, Handlers, RefHolders

ASSUME UnitsAssumption == NoUnit \notin Units

VARIABLES
  loaded,         \* m->units
  pinned,         \* the units that are active, have a client, ...
  jobs,           \* the handlers that have a job
  references,     \* pairs of units: UNIT_ATOM_REFERENCES
  handlers,       \* those of them that are OnSuccess= or OnFailure=
  unitRefs,       \* pairs of units: UnitRef, source and target
  gc_unit_queue, cleanup_queue,
  mark,           \* u->gc_marker - m->gc_marker, if that is one of the offsets
  current,        \* the unit that the dispatcher has taken from the queue
  path,           \* the calls of unit_gc_sweep(), the innermost first
  phase,          \* where manager_loop() is: events, loop, gc, cleanup
  overlooked      \* history: units that were set free without being queued,
                  \* and that no sweep has judged since

use == <<pinned, jobs, handlers>>
graph == <<loaded, use, references, unitRefs>>
sweep == <<mark, current, path>>
vars == <<graph, gc_unit_queue, cleanup_queue, sweep, phase, overlooked>>

Marks == {"none", "in_path", "unsure", "good", "bad"}

Init ==
  /\ loaded = {} /\ pinned = {} /\ jobs = {}
  /\ references = {} /\ handlers = {} /\ unitRefs = {}
  /\ gc_unit_queue = {} /\ cleanup_queue = {} /\ overlooked = {}
  /\ mark = [u \in Units |-> "none"] /\ current = NoUnit /\ path = <<>>
  /\ phase = "events"

unit_may_gc(u) ==
  /\ u \notin pinned \union jobs
  /\ \A h \in jobs : <<u, h>> \notin handlers

(* The queue after unit_add_to_gc_queue() of the units us.                 *)
Queued(us) ==
  gc_unit_queue \union {u \in us : u \notin cleanup_queue /\ unit_may_gc(u)}

Referencing(u) == {v \in loaded : <<v, u>> \in references}

RefSources(u) == {v \in loaded : <<v, u>> \in unitRefs}
-----------------------------------------------------------------------------
(* What happens to units while events are handled.                         *)

(* manager_load_unit_prepare(): a new unit.                                *)
Load(u) ==
  /\ phase = "events" /\ u \notin loaded
  /\ loaded' = loaded \union {u}
  /\ gc_unit_queue' = gc_unit_queue \union {u}
  /\ UNCHANGED <<use, references, unitRefs, cleanup_queue, sweep, phase, overlooked>>

Linked(u, v) ==
  /\ phase = "events" /\ u # v /\ {u, v} \subseteq loaded \ cleanup_queue
  /\ references' = references \union {<<u, v>>}
  /\ UNCHANGED <<loaded, pinned, jobs, gc_unit_queue, cleanup_queue, sweep, phase,
                 overlooked>>

(* unit_add_dependency() with add_reference: OnSuccess= and OnFailure=     *)
(* make v a handler of u.                                                  *)
unit_add_dependency(u, v) ==
  /\ \/ UNCHANGED handlers
     \/ v \in Handlers /\ handlers' = handlers \union {<<u, v>>}
  /\ UNCHANGED unitRefs
  /\ Linked(u, v)

(* unit_ref_set(), as a socket sets its service: there is a dependency too.*)
unit_ref_set(u, v) ==
  /\ u \in RefHolders
  /\ unitRefs' = unitRefs \union {<<u, v>>}
  /\ UNCHANGED handlers
  /\ Linked(u, v)

(* It is started, or gets a client; a unit that is not one of the Handlers *)
(* gets a job.                                                             *)
Pin(u) ==
  /\ phase = "events" /\ u \in loaded \ (pinned \union cleanup_queue)
  /\ pinned' = pinned \union {u}
  /\ UNCHANGED <<loaded, jobs, handlers, references, unitRefs, gc_unit_queue,
                 cleanup_queue, sweep, phase, overlooked>>

(* The last of these ends: unit_add_to_gc_queue() of the unit.             *)
Unpin(u) ==
  /\ phase = "events" /\ u \in pinned
  /\ pinned' = pinned \ {u}
  /\ UNCHANGED <<jobs, handlers>>
  /\ gc_unit_queue' = gc_unit_queue \union {v \in {u} : unit_may_gc(v)'}
  /\ UNCHANGED <<loaded, references, unitRefs, cleanup_queue, sweep, phase, overlooked>>

(* A handler gets a job: it is in use, and so are the units that name it.  *)
job_install(h) ==
  /\ phase = "events" /\ h \in Handlers
  /\ h \in loaded \ (jobs \union cleanup_queue)
  /\ jobs' = jobs \union {h}
  /\ UNCHANGED <<loaded, pinned, handlers, references, unitRefs, gc_unit_queue,
                 cleanup_queue, sweep, phase, overlooked>>

(* Its job ends.  The handler is queued, the units that name it are not.   *)
job_uninstall(h) ==
  /\ phase = "events" /\ h \in jobs
  /\ jobs' = jobs \ {h}
  /\ UNCHANGED <<pinned, handlers>>
  /\ gc_unit_queue' = gc_unit_queue \union {v \in {h} : unit_may_gc(v)'}
  /\ overlooked' = overlooked \union
                    {u \in loaded : <<u, h>> \in handlers /\ unit_may_gc(u)'}
  /\ UNCHANGED <<loaded, references, unitRefs, cleanup_queue, sweep, phase>>

unit_ref_unset(u, v) ==
  /\ phase = "events" /\ <<u, v>> \in unitRefs
  /\ unitRefs' = unitRefs \ {<<u, v>>}
  /\ gc_unit_queue' = Queued({v})
  /\ UNCHANGED <<loaded, use, references, cleanup_queue, sweep, phase, overlooked>>

(* Where a pair leads once other is merged into u, self-loops dropped.     *)
Redirected(pairs, u, other) ==
  LET To(x) == IF x = other THEN u ELSE x
  IN  {<<To(p[1]), To(p[2])>> : p \in pairs} \ {<<u, u>>}

(* unit_merge(): the references to other become references to u.  Other is *)
(* a stub, or was not found: nothing was loaded that it could refer to.    *)
unit_merge(u, other) ==
  /\ phase = "events" /\ u # other
  /\ {u, other} \subseteq loaded \ cleanup_queue
  /\ other \notin pinned \union jobs
  /\ \A v \in Units : <<other, v>> \notin references \union unitRefs
  /\ other \in Handlers => u \in Handlers
  /\ references' = Redirected(references, u, other)
  /\ handlers' = Redirected(handlers, u, other)
  /\ unitRefs' = Redirected(unitRefs, u, other)
  /\ cleanup_queue' = cleanup_queue \union {other}
  /\ UNCHANGED <<loaded, pinned, jobs, gc_unit_queue, sweep, phase, overlooked>>

Event == \E u \in Units : \/ Load(u) \/ Pin(u) \/ Unpin(u)
                          \/ job_install(u) \/ job_uninstall(u)
                          \/ \E v \in Units : \/ unit_add_dependency(u, v)
                                              \/ unit_ref_set(u, v)
                                              \/ unit_ref_unset(u, v)
                                              \/ unit_merge(u, v)
-----------------------------------------------------------------------------
(* manager_loop(): the queues are emptied before the next event.           *)
Loop ==
  /\ \/ phase = "events" /\ (gc_unit_queue # {} \/ cleanup_queue # {})
     \/ phase = "loop"
  /\ phase' = CASE gc_unit_queue # {} -> "gc"
                [] gc_unit_queue = {} /\ cleanup_queue # {} -> "cleanup"
                [] OTHER -> "events"
  /\ mark' = [u \in Units |-> "none"]
  /\ UNCHANGED <<graph, gc_unit_queue, cleanup_queue, current, path, overlooked>>

(* Mutated: only the unit itself is marked.                                *)
unit_gc_mark_good_alone(u) == {u}

(* unit_gc_mark_good(): u, and the unsure units that are reachable from it *)
(* by way of unsure units.                                                 *)
unit_gc_mark_good(u) ==
  LET Unsure == {v \in Units : mark[v] = "unsure"}
      Closed(S) == \A v \in S \union {u} : \A w \in Unsure :
                      <<v, w>> \in references => w \in S
  IN  {u} \union {v \in Unsure : \A S \in SUBSET Unsure : Closed(S) => v \in S}

MarkGood(u) ==
  mark' = [v \in Units |-> IF v \in unit_gc_mark_good(u) THEN "good" ELSE mark[v]]

(* The first part of unit_gc_sweep(): a unit that has a mark is left       *)
(* alone, others are decided at once or their referrers are looked at.     *)
Enter(u, below) ==
  CASE mark[u] # "none" ->
         mark' = mark /\ path' = below /\ UNCHANGED cleanup_queue
    [] mark[u] = "none" /\ u \in cleanup_queue ->
         /\ mark' = [mark EXCEPT ![u] = "bad"]
         /\ path' = below /\ UNCHANGED cleanup_queue
    [] mark[u] = "none" /\ u \notin cleanup_queue /\ ~unit_may_gc(u) ->
         MarkGood(u) /\ path' = below /\ UNCHANGED cleanup_queue
    [] OTHER ->
         /\ mark' = [mark EXCEPT ![u] = "in_path"]
         /\ path' = <<[unit |-> u, deps |-> Referencing(u),
                       refs |-> RefSources(u), child |-> NoUnit,
                       is_bad |-> TRUE]>> \o below
         /\ UNCHANGED cleanup_queue

(* manager_dispatch_gc_unit_queue() takes the next unit.                   *)
Take ==
  /\ phase = "gc" /\ current = NoUnit
  /\ \E u \in gc_unit_queue : current' = u /\ Enter(u, <<>>)
  /\ UNCHANGED <<graph, gc_unit_queue, phase, overlooked>>

Top == path[1]

(* The loops over the referrers: first the dependencies, then the UnitRefs.*)
Visit ==
  /\ path # <<>> /\ Top.child = NoUnit
  /\ \E v \in IF Top.deps # {} THEN Top.deps ELSE Top.refs :
       Enter(v, <<[Top EXCEPT !.child = v,
                              !.deps = @ \ {v},
                              !.refs = IF Top.deps # {} THEN @ ELSE @ \ {v}]>>
                \o Tail(path))
  /\ UNCHANGED <<graph, gc_unit_queue, current, phase, overlooked>>

(* What the sweep of a referrer said: one that is needed settles it.       *)
Judge ==
  /\ path # <<>> /\ Top.child # NoUnit /\ mark[Top.child] \in Marks \ {"none"}
  /\ \/ /\ mark[Top.child] = "good"
        /\ MarkGood(Top.unit)
        /\ path' = Tail(path)
     \/ /\ mark[Top.child] # "good"
        /\ path' = <<[Top EXCEPT !.child = NoUnit,
                                 !.is_bad = @ /\ mark[Top.child] = "bad"]>>
                   \o Tail(path)
        /\ UNCHANGED mark
  /\ UNCHANGED <<graph, gc_unit_queue, cleanup_queue, current, phase, overlooked>>

(* No referrer is needed: either none of them is, or one was on the path.  *)
Conclude ==
  /\ path # <<>> /\ Top.child = NoUnit /\ Top.deps = {} /\ Top.refs = {}
  /\ mark' = [mark EXCEPT ![Top.unit] = IF Top.is_bad THEN "bad" ELSE "unsure"]
  /\ cleanup_queue' = IF Top.is_bad THEN cleanup_queue \union {Top.unit}
                                    ELSE cleanup_queue
  /\ gc_unit_queue' = IF Top.is_bad THEN gc_unit_queue ELSE Queued({Top.unit})
  /\ path' = Tail(path)
  /\ overlooked' = overlooked \ {Top.unit}
  /\ UNCHANGED <<graph, current, phase>>

(* Mutated: a unit that remained unsure is kept.                           *)
Collected_if_bad(u) == mark[u] = "bad"

Collected(u) == mark[u] \in {"bad", "unsure"}

(* The sweep has returned: the unit leaves the queue.                      *)
Put ==
  /\ phase = "gc" /\ current # NoUnit /\ path = <<>>
  /\ gc_unit_queue' = gc_unit_queue \ {current}
  /\ IF Collected(current)
       THEN /\ mark' = [mark EXCEPT ![current] = "bad"]
            /\ cleanup_queue' = cleanup_queue \union {current}
       ELSE UNCHANGED <<mark, cleanup_queue>>
  /\ current' = NoUnit
  /\ overlooked' = overlooked \ {current}
  /\ phase' = IF gc_unit_queue' = {} THEN "loop" ELSE "gc"
  /\ UNCHANGED <<graph, path>>

(* Mutated: the units that the freed one referred to are not looked at.    *)
Neighbours_by_ref(u) == {v \in loaded \ {u} : <<u, v>> \in unitRefs}

(* The units that unit_free() queues: by unit_clear_dependencies() and,    *)
(* for the UnitRefs that u holds, by the done() method.                    *)
Neighbours(u) ==
  {v \in loaded \ {u} : {<<u, v>>, <<v, u>>} \intersect references # {}
                        \/ <<u, v>> \in unitRefs}

Without(pairs, u) == {p \in pairs : p[1] # u /\ p[2] # u}

(* manager_dispatch_cleanup_queue(): unit_free() of one unit.              *)
unit_free(u) ==
  /\ phase = "cleanup" /\ u \in cleanup_queue
  /\ loaded' = loaded \ {u}
  /\ pinned' = pinned \ {u}
  /\ jobs' = jobs \ {u}
  /\ references' = Without(references, u)
  /\ handlers' = Without(handlers, u)
  /\ unitRefs' = Without(unitRefs, u)
  /\ gc_unit_queue' = Queued(Neighbours(u)) \ {u}
  /\ cleanup_queue' = cleanup_queue \ {u}
  /\ overlooked' = overlooked \ {u}
  /\ phase' = IF cleanup_queue' = {} THEN "loop" ELSE "cleanup"
  /\ UNCHANGED sweep

Step == \/ Loop \/ Take \/ Visit \/ Judge \/ Conclude \/ Put
        \/ \E u \in Units : unit_free(u)

Next == Event \/ Step

(* The manager runs its loop; nothing makes events happen.                 *)
Spec == Init /\ [][Next]_vars /\ WF_vars(Step)
-----------------------------------------------------------------------------
(* The units that stay when the units us do: all that they lead to.        *)
LedToBy(us) ==
  LET Closed == {S \in SUBSET loaded :
                   /\ us \subseteq S
                   /\ \A p \in references \union unitRefs : p[1] \in S => p[2] \in S}
  IN  {u \in loaded : \A S \in Closed : u \in S}

InUse == {u \in loaded : ~unit_may_gc(u)}

(* The units that are in use, or that a needed unit refers to.             *)
Needed == LedToBy(InUse)

Frames == [unit : Units, deps : SUBSET Units, refs : SUBSET Units,
           child : Units \union {NoUnit}, is_bad : BOOLEAN]

TypeOK ==
  /\ loaded \subseteq Units /\ pinned \subseteq loaded /\ jobs \subseteq loaded
  /\ references \subseteq loaded \X loaded /\ unitRefs \subseteq loaded \X loaded
  /\ handlers \subseteq references
  /\ gc_unit_queue \subseteq Units /\ cleanup_queue \subseteq Units
  /\ mark \in [Units -> Marks]
  /\ current \in Units \union {NoUnit}
  /\ path \in Seq(Frames)
  /\ phase \in {"events", "loop", "gc", "cleanup"}
  /\ overlooked \subseteq loaded

(* unit_gc_sweep(): whatever the cycles and the order of the walk, a unit  *)
(* that is marked for deletion is not in use and not needed by any that    *)
(* is.                                                                     *)
CollectsUnneeded == cleanup_queue \intersect Needed = {}

(* Whenever the manager waits for events, all units that are loaded are    *)
(* needed: everything that may make a unit superfluous queues a unit from  *)
(* which the sweep finds it.  There is one exception: when the job of its  *)
(* handler ends (job_uninstall()), a unit is not queued, and it stays, and *)
(* with it the units that it refers to, until a sweep comes by.            *)
NoLeak ==
  phase = "events" /\ gc_unit_queue = {} /\ cleanup_queue = {}
  => loaded = LedToBy(InUse \union overlooked)

(* The rounds of collecting come to an end: again and again all units that *)
(* are loaded are needed, so that one that is not is unloaded, unless      *)
(* somebody needs it in time.  The exception is that of NoLeak.            *)
GarbageIsCollected == []<>(loaded = LedToBy(InUse \union overlooked))
=============================================================================
