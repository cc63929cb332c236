------------------------------ MODULE UdevQueue ------------------------------
(***************************************************************************)
(* The event queue of systemd-udevd (udevd.c).  The daemon gives the       *)
(* kernel's events to worker processes.  Events of devices that conflict   *)
(* (the same device, a parent or a child) are handled in their order; for  *)
(* that, each event remembers the last event that was found to block it.   *)
(* A worker answers over a socket; it may report that another program has  *)
(* locked the disk, then the event is tried again later.  Workers may die, *)
(* be too slow, or be told to go since the rules have changed.             *)
(*                                                                         *)
(* One action is one callback of the event loop, but for the loop over the *)
(* queue, which considers one event per step; workers run meanwhile.  Not  *)
(* modelled are the messages of udevadm control other than reload and      *)
(* exit, failing to fork, and the reuse of a process id for a worker whose *)
(* predecessor still has an answer in the socket.                          *)
(***************************************************************************)
EXTENDS Naturals, Sequences, FiniteSets

CONSTANTS
  Devices, Conflicts,    \* Conflicts: pairs of different devices
  Disks,                 \* a disk and its partitions: other programs may lock them
  Workers,               \* process ids
  ChildrenMax,           \* arg_children_max
  MaxEvents,             \* bound: the kernel's events of each device
  MayExit                \* is udevd asked to exit?

ASSUME ConfigAssumption ==
  /\ Conflicts \subseteq Devices \X Devices
  /\ \A p \in Conflicts : <<p[2], p[1]>> \in Conflicts
  /\ Disks \subseteq Devices /\ ChildrenMax \in Nat \ {0} /\ MaxEvents \in [Devices -> Nat]
  /\ MayExit \in BOOLEAN

VARIABLES
  device,     \* the devices of the kernel's events; the index is SEQNUM
  events,     \* manager->events: SEQNUM to Event
  workers,    \* manager->workers: process id to Worker
  proc,       \* what the processes do
  work,       \* the event that a busy process handles, otherwise 0
  term,       \* processes that SIGTERM was sent to
  answers,    \* the socket from the workers
  post,       \* the post source is pending
  cursor,     \* the event that event_queue_start() considers, 0 if it does not run
  killTimer,  \* kill_workers_event is armed
  exit, stopped,
  done,       \* the events that a worker has completed and broadcast
  told,       \* the events that udevd has broadcast as failed
  struck,     \* history: workers that were sent SIGTERM in state KILLING
  forgotten   \* history: events of such workers of which nothing is left

history == <<struck, forgotten>>
daemon == <<events, workers, post, cursor, killTimer, exit, stopped, told, history>>
procs == <<proc, work, term, answers, done>>
vars == <<device, daemon, procs>>

Gone == {"none", "exited", "crashed"}   \* what a process may be if it is not alive
Tracked == DOMAIN workers
Numbers == 1 .. Len(device)

Init ==
  /\ device = <<>> /\ events = <<>> /\ workers = <<>>
  /\ proc = [w \in Workers |-> "none"] /\ work = [w \in Workers |-> 0] /\ term = {} /\ answers = <<>>
  /\ post = FALSE /\ cursor = 0 /\ killTimer = FALSE
  /\ exit = FALSE /\ stopped = FALSE
  /\ done = {} /\ told = {} /\ struck = {} /\ forgotten = {}

Conflicting(e, f) == device[e] = device[f] \/ <<device[e], device[f]>> \in Conflicts

Without(f, x) == [y \in DOMAIN f \ {x} |-> f[y]]
With(f, x, v) == [y \in DOMAIN f \union {x} |-> IF y = x THEN v ELSE f[y]]

(* The daemon waits for events, and a callback runs.                       *)
Callback ==
  /\ cursor = 0 /\ ~stopped
  /\ post' = TRUE
  /\ UNCHANGED <<cursor, stopped>>
-----------------------------------------------------------------------------
(* Worker processes.                                                       *)

Busy(w) == work[w] # 0

(* worker_device_monitor_handler(): the answer is sent after the event was *)
(* broadcast, or instead if the disk is locked.                            *)
worker_process_device(w) ==
  /\ Busy(w)
  /\ \E again \in IF device[work[w]] \in Disks THEN BOOLEAN ELSE {FALSE} :
       /\ answers' = Append(answers, [worker |-> w, again |-> again])
       /\ done' = IF again THEN done ELSE done \union {work[w]}
  /\ proc' = [proc EXCEPT ![w] = "idle"] /\ work' = [work EXCEPT ![w] = 0]
  /\ UNCHANGED <<device, daemon, term>>

Crash(w) ==
  /\ Busy(w)
  /\ proc' = [proc EXCEPT ![w] = "crashed"] /\ work' = [work EXCEPT ![w] = 0]
  /\ UNCHANGED <<device, daemon, term, answers, done>>

(* SIGTERM is blocked while an event is handled.                           *)
Terminate(w) ==
  /\ w \in term /\ proc[w] = "idle"
  /\ proc' = [proc EXCEPT ![w] = "exited"]
  /\ UNCHANGED <<device, daemon, work, term, answers, done>>
-----------------------------------------------------------------------------
(* event_queue_assume_block_device_unlocked()                              *)
Unlocked(evs, d) ==
  [e \in DOMAIN evs |->
     IF evs[e].retry = "wait" /\ (device[e] = d \/ <<device[e], d>> \in Conflicts)
       THEN [evs[e] EXCEPT !.retry = "again"] ELSE evs[e]]

(* A uevent: event_queue_insert().                                         *)
on_uevent(d) ==
  /\ Callback /\ ~exit
  /\ Cardinality({e \in Numbers : device[e] = d}) < MaxEvents[d]
  /\ device' = Append(device, d)
  /\ events' = With(IF d \in Disks THEN Unlocked(events, d) ELSE events, Len(device) + 1,
                    [state |-> "queued", blocker |-> 0, retry |-> "no",
                     late |-> FALSE, timer |-> FALSE])
  /\ UNCHANGED <<workers, killTimer, exit, told, history, procs>>

(* Somebody who may have held the lock has closed the disk.                *)
on_inotify(d) ==
  /\ Callback /\ ~exit /\ d \in Disks
  /\ events' = Unlocked(events, d)
  /\ UNCHANGED <<device, workers, killTimer, exit, told, history, procs>>

(* The delay before an event is tried again is over.                       *)
on_event_retry(e) ==
  /\ Callback /\ e \in DOMAIN events /\ events[e].retry = "wait"
  /\ events' = [events EXCEPT ![e].retry = "again"]
  /\ UNCHANGED <<device, workers, killTimer, exit, told, history, procs>>

(* The time until retry_again_timeout_usec is over.                        *)
Expire(e) ==
  /\ e \in DOMAIN events /\ events[e].retry # "no" /\ ~events[e].late
  /\ events' = [events EXCEPT ![e].late = TRUE]
  /\ UNCHANGED <<device, workers, post, cursor, killTimer, exit, stopped, told, history, procs>>

(* The worker is too slow: it is killed at once.                           *)
on_event_timeout(w) ==
  /\ Callback /\ w \in Tracked /\ workers[w].event # 0
  /\ LET e == workers[w].event
     IN  events[e].timer /\ events' = [events EXCEPT ![e].timer = FALSE]
  /\ workers' = [workers EXCEPT ![w].state = "killed"]
  /\ proc' = [proc EXCEPT ![w] = IF @ \in Gone THEN @ ELSE "crashed"]
  /\ work' = [work EXCEPT ![w] = 0]
  /\ UNCHANGED <<device, killTimer, exit, told, history, term, answers, done>>

(* Mutated: the event is not put back into the queue.                      *)
Requeued_running(e) ==
  [events EXCEPT ![e] = [@ EXCEPT !.retry = "wait", !.timer = FALSE]]

(* The result of event_requeue(), unless it took too long.                 *)
Requeued(e) ==
  [events EXCEPT ![e] = [@ EXCEPT !.state = "queued", !.retry = "wait",
                                  !.timer = FALSE]]

(* on_worker(), one answer: the worker has ended its event.                *)
on_worker ==
  /\ Callback /\ answers # <<>>
  /\ answers' = Tail(answers)
  /\ LET w == Head(answers).worker
         e == workers[w].event
     IN  IF w \notin Tracked THEN UNCHANGED <<events, workers, struck, told, term>>
         ELSE /\ workers' = [workers EXCEPT ![w] =
                   [state |-> CASE @.state \in {"killing", "killed"} -> "killed"
                                [] OTHER -> "idle",
                    event |-> 0]]
              /\ struck' = struck \ {w}
              /\ term' = IF workers[w].state = "killing" THEN term \union {w} ELSE term
              /\ IF Head(answers).again /\ ~(events[e].retry # "no" /\ events[e].late)
                   THEN events' = Requeued(e) /\ UNCHANGED told
                   ELSE /\ events' = Without(events, e)
                        /\ told' = IF Head(answers).again THEN told \union {e} ELSE told
  /\ UNCHANGED <<device, killTimer, exit, forgotten, proc, work, done>>

(* History: a worker in state KILLING that is still at work gets SIGTERM   *)
(* at the next reload.  If it then reports a locked disk and exits, and    *)
(* its end is noticed before its answer is read, nothing is left of the    *)
(* event.                                                                  *)
Ignored(w) ==
  /\ w \in struck /\ proc[w] = "exited"
  /\ workers[w].event \notin done /\ device[workers[w].event] \in Disks

(* A worker has died; if it has failed, its event is broadcast as failed.  *)
on_sigchld(w) ==
  /\ Callback /\ w \in Tracked /\ proc[w] \in {"exited", "crashed"}
  /\ LET e == workers[w].event
     IN  /\ events' = Without(events, e)
         /\ told' = IF e # 0 /\ proc[w] = "crashed" THEN told \union {e} ELSE told
         /\ forgotten' = IF Ignored(w) THEN forgotten \union {e} ELSE forgotten
  /\ workers' = Without(workers, w)
  /\ proc' = [proc EXCEPT ![w] = "none"] /\ term' = term \ {w} /\ struck' = struck \ {w}
  /\ UNCHANGED <<device, killTimer, exit, work, answers, done>>

(* Mutated: at exit, idle workers are not told to go.                      *)
Killed_busy(force) ==
  {w \in Tracked : IF force THEN workers[w].state = "running" ELSE workers[w].state = "idle"}

(* manager_kill_workers(): those who get SIGTERM, and all of them after it.*)
Killed(force) ==
  {w \in Tracked : workers[w].state # "killed" /\ (force \/ workers[w].state # "running")}
Killing(force) ==
  [w \in Tracked |->
     [workers[w] EXCEPT !.state = CASE w \in Killed(force) -> "killed"
                                    [] w \notin Killed(force) /\ @ = "running" -> "killing"
                                    [] OTHER -> @]]
manager_kill_workers(force) ==
  /\ workers' = Killing(force) /\ term' = term \union Killed(force)
  /\ struck' = struck \union {w \in Killed(force) : workers[w].state = "killing"}

manager_reload == manager_kill_workers(FALSE)

on_sighup ==
  /\ Callback /\ manager_reload
  /\ UNCHANGED <<device, events, killTimer, exit, told, forgotten, proc, work, answers, done>>

on_kill_workers_event ==
  /\ Callback /\ killTimer
  /\ manager_kill_workers(FALSE)
  /\ killTimer' = FALSE
  /\ UNCHANGED <<device, events, exit, told, forgotten, proc, work, answers, done>>

(* manager_exit(): queued events are dropped, workers are told to go.      *)
on_sigterm ==
  /\ Callback /\ MayExit /\ ~exit
  /\ exit' = TRUE
  /\ events' = [e \in {f \in DOMAIN events : events[f].state # "queued"} |-> events[e]]
  /\ manager_kill_workers(TRUE)
  /\ UNCHANGED <<device, killTimer, told, forgotten, proc, work, answers, done>>
-----------------------------------------------------------------------------
Least(S) == CHOOSE e \in S : \A f \in S : e <= f
After(e) == LET S == {f \in DOMAIN events : f > e} IN IF S = {} THEN 0 ELSE Least(S)

(* on_post(): events are started if there are any; the rules may have      *)
(* changed.                                                                *)
on_post ==
  /\ post /\ cursor = 0 /\ ~stopped
  /\ post' = FALSE
  /\ \/ /\ DOMAIN events # {} /\ exit
        /\ UNCHANGED <<workers, term, struck, cursor, killTimer, stopped>>
     \/ /\ DOMAIN events # {} /\ ~exit
        /\ cursor' = Least(DOMAIN events)
        /\ killTimer' = FALSE
        /\ manager_reload \/ UNCHANGED <<workers, term, struck>>
        /\ UNCHANGED stopped
     \/ /\ DOMAIN events = {} /\ Tracked # {}
        /\ killTimer' = TRUE
        /\ UNCHANGED <<workers, term, struck, cursor, stopped>>
     \/ /\ DOMAIN events = {} /\ Tracked = {}
        /\ stopped' = exit
        /\ UNCHANGED <<workers, term, struck, cursor, killTimer>>
  /\ UNCHANGED <<device, events, exit, told, forgotten, proc, work, answers, done>>

(* Mutated: no blocker is left when the one that was found has gone.       *)
Blockers_first(e) ==
  {f \in DOMAIN events : f < e /\ Conflicting(e, f) /\ events[e].blocker = 0}

(* The events that event_is_blocked() has not looked at before.            *)
Blockers(e) ==
  {f \in DOMAIN events : f < e /\ f > events[e].blocker /\ Conflicting(e, f)}

event_is_blocked(e) ==
  \/ events[e].retry = "wait"
  \/ /\ events[e].blocker # e
     /\ events[e].blocker \in DOMAIN events \/ Blockers(e) # {}

(* blocker_seqnum after that.                                              *)
BlockerOf(e) ==
  CASE events[e].retry = "wait" -> events[e].blocker
    [] events[e].retry # "wait" /\ events[e].blocker \in DOMAIN events -> events[e].blocker
    [] events[e].retry # "wait" /\ events[e].blocker \notin DOMAIN events ->
         IF Blockers(e) = {} THEN e ELSE Least(Blockers(e))

(* event_queue_start(): one event of the loop is skipped.                  *)
Skip ==
  /\ cursor # 0
  /\ events[cursor].state # "queued" \/ event_is_blocked(cursor)
  /\ events' = IF events[cursor].state # "queued" THEN events
               ELSE [events EXCEPT ![cursor].blocker = BlockerOf(cursor)]
  /\ cursor' = After(cursor)
  /\ UNCHANGED <<device, workers, post, killTimer, exit, stopped, told, history, procs>>

(* worker_attach_event()                                                   *)
Attach(w) ==
  /\ workers' = With(workers, w, [state |-> "running", event |-> cursor])
  /\ proc' = [proc EXCEPT ![w] = "busy"] /\ work' = [work EXCEPT ![w] = cursor]
  /\ events' = [events EXCEPT ![cursor] =
                  [@ EXCEPT !.state = "running", !.blocker = BlockerOf(cursor),
                            !.timer = TRUE]]
  /\ cursor' = After(cursor)

(* Mutated: a worker that has been told to go gets another event.          *)
Idle_killed == {w \in Tracked : workers[w].state \in {"idle", "killed"}}

Idle == {w \in Tracked : workers[w].state = "idle"}

(* Process ids for a new worker; it does not matter which one it gets.     *)
Unused ==
  {w \in Workers : proc[w] = "none" /\ \A i \in DOMAIN answers : answers[i].worker # w}

(* event_run(): an idle worker gets the event; one that has died meanwhile *)
(* does not take it.  Otherwise a worker is forked if there may be more.   *)
event_run ==
  /\ cursor # 0
  /\ events[cursor].state = "queued" /\ ~event_is_blocked(cursor)
  /\ \/ \E w \in Idle : proc[w] \notin Gone /\ Attach(w)
     \/ \E w \in Idle :
          /\ proc[w] \in Gone
          /\ workers' = [workers EXCEPT ![w].state = "killed"]
          /\ UNCHANGED <<proc, work, events, cursor>>
     \/ /\ Idle = {} /\ Cardinality(Tracked) >= ChildrenMax
        /\ events' = [events EXCEPT ![cursor].blocker = BlockerOf(cursor)]
        /\ cursor' = 0
        /\ UNCHANGED <<workers, proc, work>>
     \/ /\ Idle = {} /\ Cardinality(Tracked) < ChildrenMax
        /\ Unused # {} /\ Attach(CHOOSE w \in Unused : TRUE)
  /\ UNCHANGED <<device, post, killTimer, exit, stopped, told, history, term, answers, done>>

Main == Skip \/ event_run \/ on_post

Next ==
  \/ Main
  \/ \E d \in Devices : on_uevent(d) \/ on_inotify(d)
  \/ \E e \in Numbers : on_event_retry(e) \/ Expire(e)
  \/ \E w \in Workers : \/ worker_process_device(w) \/ Crash(w) \/ Terminate(w)
                        \/ on_event_timeout(w) \/ on_sigchld(w)
  \/ on_worker \/ on_sighup \/ on_kill_workers_event \/ on_sigterm

(* The event loop always serves some of the timeouts, answers and deaths   *)
(* that are due; a process that is told to go does.  That a worker ever    *)
(* ends is not assumed.                                                    *)
Served ==
  \/ on_worker
  \/ \E w \in Workers : on_sigchld(w) \/ on_event_timeout(w)
  \/ \E e \in Numbers : on_event_retry(e)

Spec ==
  /\ Init /\ [][Next]_vars
  /\ WF_vars(Main) /\ SF_vars(Served)
  /\ WF_vars(\E w \in Workers : Terminate(w))
  /\ WF_vars(\E e \in Numbers : Expire(e))
-----------------------------------------------------------------------------
TypeOK ==
  /\ device \in Seq(Devices)
  /\ DOMAIN events \subseteq Numbers /\ Tracked \subseteq Workers
  /\ \A e \in DOMAIN events :
       events[e] \in [state : {"queued", "running"}, blocker : 0 .. e,
                      retry : {"no", "wait", "again"}, late : BOOLEAN, timer : BOOLEAN]
  /\ \A w \in Tracked :
       workers[w] \in [state : {"running", "idle", "killing", "killed"},
                       event : {0} \union DOMAIN events]
  /\ proc \in [Workers -> Gone \union {"idle", "busy"}]
  /\ work \in [Workers -> {0} \union Numbers]
  /\ cursor \in {0} \union DOMAIN events

(* "do not start event if parent or child event is still running or        *)
(* queued": while a process handles an event, no earlier event of a       *)
(* conflicting device is queued, waits for another try, or is handled.     *)
Ordered ==
  \A w \in Workers : Busy(w) =>
    \A e \in 1 .. work[w] - 1 : Conflicting(e, work[w]) =>
      e \notin DOMAIN events /\ \A v \in Workers : work[v] # e

(* No event disappears between the queue, the workers, their answers and   *)
(* their deaths, however often the rules are reloaded, unless udevd exits; *)
(* excepted is the event of a locked disk whose worker gets SIGTERM at a   *)
(* second reload, while it is at work (udevd.c:319).                       *)
NotLost == exit \/ Numbers \subseteq DOMAIN events \union done \union told \union forgotten

(* Every event comes to an end, even if workers hang, a disk remains       *)
(* locked and the rules are reloaded all the time: again and again, all    *)
(* that have arrived are done, but for the ones forgotten as above.        *)
Handled == []<>(exit \/ Numbers \subseteq done \union told \union forgotten)

(* udevadm(8), control --exit: "Signal and wait for systemd-udevd to exit".*)
(* It does, unless a worker that was busy reports a locked disk: the event *)
(* is put back into a queue that is no longer served.                      *)
Exits == exit ~> (stopped \/ \E e \in DOMAIN events : events[e].state = "queued")
=============================================================================
