# Verification of systemd's service manager and of protocols around it

A TLA+ development for systemd 252 (`src/systemd-stable-252.39/src`): models of the manager's jobs,
transactions, unit collection, automatic starts and stops, services, mounts and automounts, of udevd's event
queue, of the journal's offline thread and of the two-process barrier; TLC runs that check them on small
instances; and TLAPS proofs of what holds for every instance. Paths below are relative to
`src/systemd-stable-252.39/src/` unless they begin with `src/`.

## 1. Inventory

The repository is the source of systemd plus a port of its libraries to other platforms
(`src/macos-homebrew`, copies of `basic`, `shared` and `libsystemd` without the manager). Its own core
logic is the service manager, PID 1.

| Component | State | Hard behaviour | What makes it correct | Module |
|---|---|---|---|---|
| Job types (`core/job.c`, `job.h`) | none | a table read as a lower triangle | merging does not depend on order | `JobType`, `JobMerge` |
| Transactions (`core/transaction.c`) | jobs per unit, links between them, the anchor | deletions cascade; loops until nothing changes; hash order | the anchor survives, requirements hold, no cycles, it returns | `Transaction` |
| Job engine (`core/job.c`, `unit.c`) | installed jobs, run queue, timers, counter of running jobs | re-entrancy: a unit's operation ends or replaces the job being run | no job waits for ever; failures arrive; the counter is right | `JobEngine` |
| Automatic starts and stops (`core/manager.c`, `unit.c`) | three queues, a rate limit | predicates over several units, evaluated once | a unit that is called for is queued | `AutoQueues` |
| Collection of units (`core/manager.c`) | marks, two queues | cycles of references; marks that are revised | what is needed stays, the rest goes | `UnitGC` |
| Services (`core/service.c`, `cgroup.c`) | 19 states, processes, timer, control group | child exits, cgroup events, timers, messages and jobs in any order | no state waits for a process that is gone; a stop sticks; jobs end | `Service` |
| Mounts, automounts (`core/mount.c`, `automount.c`) | 12 + 4 states, tokens of the kernel | mount(8) against mountinfo against others | the unit mirrors the kernel; who waits gets an answer | `Mount`, `Automount` |
| udev (`udev/udevd.c`) | event queue, workers | parents and children, locked disks, killed workers, reloads, exit | order along a device path, nothing lost | `UdevQueue` |
| Journal file (`journal/managed-journal-file.c`, `libsystemd/sd-journal/journal-file.c`) | header, offline thread | a thread beside the writer; a crash between two writes | a file that is not ONLINE is complete | `JournalOffline` implements `JournalDisk` |
| Barrier (`shared/barrier.c`) | two counters and a pipe | two processes, exit and abortion at any time | true means reached, false means a side is down | `Barrier` implements `BarrierSync` |
| Sockets, paths, timers, sd-event, sd-bus, network, resolver, login manager | | | | not modelled, section 7 |
| Tools, generators, boot loader, small daemons | little or none | system calls | unit and integration tests | not modelled |

Interaction: a request (bus call, timer, path, dependency of a changed unit) calls `manager_add_job()`,
which builds a *transaction*; applying it installs *jobs*; the event loop runs them from the run queue by
calling the unit type; the unit type reports states with `unit_notify()`, which ends jobs, which puts
other jobs into the run queue, fails them, or requests further transactions, all within the same call.
`Service` and `Mount` contain their unit's job, since the end of a job is part of their handlers; `Mount` is
composed with `Automount`, whose notifications happen inside the calls of the mount unit.

`PROJECT.json` lists every component with its status, and the hazards of the code with their lines.

## 2. Conventions

- One module per component. Definitions have the names of the C functions they stand for. An operator that
  takes and returns a record (`service_enter_stop(s, f)`) is a C function that changes the unit; a handler is
  the composition of the functions it calls, so that it is one step, like a callback of the event loop.
- Operators with a comment beginning "Mutated:" or "Mutant:" are wrong on purpose: each is a plausible error in the code,
  and each property of a run is violated when one of them takes the place of the definition after it.
- Bounds are constants whose comment says "bound"; section 4 says why each is enough.
- History variables and fields are marked as such; they occur in no guard.

## 3. The modules

### JobType, JobMerge

`JobType` holds pure operators. The merging table is the C array, indexed by the same formula. `JobMerge` is
the loop of `transaction_merge_jobs()` over the jobs of one unit; its steps pick any type, so that a behaviour
is a list of jobs in any order and of any length.

### JobEngine

| Variable | C |
|---|---|
| `ustate` | `unit_active_state(u)` |
| `job`, `nop` | `u->job`, `u->nop_job` |
| `runq` | `j->in_run_queue` |
| `armed` | `j->timer_event_source` |
| `n_running` | `m->n_running_jobs` |
| `saved` | the id that `job_perform_on_unit()` looks the job up with after the call; `None` if it is gone |
| `stack` | the C call stack |
| `requests` | bound on the number of transactions |
| `held`, `unmet`, `stale` | history, for the properties |

The manager has one thread, but its functions call each other recursively. Each frame of `stack` is the rest
of a function: the loop of `job_fail_dependencies()` (`fail`), the loops at the end of
`job_finish_and_invalidate()` (`tail`), the part of `job_run_and_invalidate()` after the unit's operation
(`return`), `unit_notify()` (`notify`), and calls that may request transactions (`request`). Events of the
event loop happen only with an empty stack. One action is one C function up to the next call it makes.

A unit type is an environment: `unit_start`, `unit_stop`, `unit_reload` give the set of its possible answers
(state, whether it reports it before returning, return code), from the checks in `unit.c` and from what the
start and stop operations of the types do; `UnitChanges` lets any unit report any state at any time.

Abstractions: a job in the garbage collection queue is collected whenever it may be, queued or not; the
transactions that `unit_notify()` and `OnFailure=` request are any number of members of `Transactions`;
logging, bus signals and status output are left out.

### Transaction

One call of `manager_add_job()` in a fixed situation `w` (dependencies, states, installed jobs, request). `pc`
is the step of `transaction_activate()`; `jobs` is `tr->jobs`, with the list per unit in the order of the C
list (new jobs at its head); `links` are the `JobDependency` objects; `calls` are the frames of
`transaction_add_job_and_dependencies()`. Hash maps are walked in an arbitrary order.

Abstractions: generation numbers and markers of the cycle search are the path and the set of finished units;
jobs deleted by `transaction_minimize_impact()` and `transaction_drop_redundant()` go in one step, since the
order does not change the result; `BindsTo=` is taken as `Requires=` and `Upholds=` as `Wants=`, which have the
same effect here; retrying to load a unit and out-of-memory errors are left out. What `transaction_apply()`
does to the installed jobs is the action `manager_add_job` of `JobEngine`.

### AutoQueues

The queues for `Upholds=`, `BindsTo=` and `StopWhenUnneeded=`. The predicates `unit_is_upheld_by_active()`,
`unit_is_bound_by_inactive()` and `unit_is_unneeded()` look at several units and their jobs, and are evaluated
only when a unit is taken from its queue; whatever makes one true must therefore queue the unit. The model has
the places that do (`unit_notify()`, `job_uninstall()`, daemon-reload, the end of the rate limit's interval), and
lets states and jobs of all units change in any way. Failed units count as inactive, as they do in the
predicates. A job may end without a change of state (cancelled, or nothing to do), and `manager_add_job()` may refuse
an automatic job, which the dispatchers only log. `overlooked` is history: the units that were called for when one of
the two happened, until they are looked at again. `unit_will_restart()` adds nothing: it is true of units
with a start job, of services that are activating, and within `service_enter_dead()`.

### UnitGC

The mark and sweep of `manager_dispatch_gc_unit_queue()`, one call of `unit_gc_sweep()` per frame of `path`. The
queues are sets, hence walked in any order. A mark of an earlier round counts as none (the C code gets that from
numbers that go up by 4). Every `UnitRef` comes with a dependency. `unit_may_gc()` has three reasons to keep a unit: it
is in use (`pinned`: it is up, has a client, or has a job), it is a handler that has a job (`jobs`), or a handler that
it names in `OnSuccess=` or `OnFailure=` has one (`handlers`). The end of a handler's job queues the handler only;
`overlooked` is history: the units that this set free without queueing them, until a sweep judges them. `LedToBy(us)` is
the reference definition: the least set that contains the units `us` and is closed under references; `Needed` is
that of the units in use.

### Service

`svc` is the unit: its state, result, processes (`main`, `control`; `stray` for anything else in the control
group), timer, job and the kernel's news about the control group. `conf` is the unit file. Each of the 19 states
and each function of `service.c` that changes them is there, and so are the events: child exit, cgroup
empty, out of memory, timer, watchdog, `READY=1`, `RELOADING=1`, `STOPPING=1`, `MAINPID=`, `execve()` done, PID
file, bus name, jobs (with `job_install()`'s merging), start limit, clean and reset. What `fork()` and the search
for a main process will do is chosen at the beginning of a step (`Chances`). A result is success, skip or failure.
`CASE` without `OTHER` stands for `assert_not_reached()`: TLC would report an error if it were reached.

### Mount, Automount

`unit` is the record of both units. mount(8) and umount(8) are processes that act on the mount table, and end, at
any time and in any order with the reading of `/proc/self/mountinfo`; others mount and unmount too, on top of each
other. `Automount` has the operators of the automount unit, which `unit_notify()` and `job_finish_and_invalidate()`
call. When autofs is unmounted, the kernel is taken to release those whose request was not read, and the mounts on
top go with it (`Kernel`). Jobs of the mount unit replace each other or are merged as in `job_install()`.

### UdevQueue

One action is one callback of udevd's event loop, except that `event_queue_start()` considers one event per step
while workers run. A worker's answer travels over a socket and may be overtaken by the worker's death. An event
that finds its disk locked is put back and tried again until it is too late. Reload and exit tell idle workers to
go and mark busy ones; a marked worker gets SIGTERM at the next reload (history `struck`). Reloads are not bounded.
`forgotten` is history: the events that are left nowhere (section 6).

### JournalOffline, JournalDisk

The writer (`journal_file_set_online()`, `managed_journal_file_set_offline()`, rotation, deferred close) and the
thread (`managed_journal_file_set_offline_internal()`) negotiate over `offline_state`. The mapped file may be written
back by the kernel at any time, and power may fail at any time (`Crash`, `Reopen`). `JournalDisk` is the promise
to whoever opens the file afterwards; `JournalOffline` implements it with `state <- diskHdr, missing <- dirty`.
`fsync()` is assumed not to fail (its result is ignored everywhere), and truncation to be ordered like data;
hole punching is not modelled.

### Barrier, BarrierSync

Each side's counter, local count, end of the pipe and place in its call. `ppoll()` looks at the pipe first and at
the counter second; these are two steps. `BarrierSync` is the abstract promise: barriers placed and learnt of,
and calls with a goal; `Barrier` implements it with `down <- Down`.

## 4. The runs

| Run | Instance | Distinct states | Question |
|---|---|---|---|
| `job_merge` | all types and states | 217 | is the merge of a unit's jobs a matter of the set of jobs only? |
| `job_engine` | two services, three transactions | 1.87 million | do recursion and replacement of jobs lose a wake-up, a failure, a reload or the count? |
| `job_devices` | device, mount, service | 2.34 million | does a failure arrive although jobs are collected, throttled or refused by `Requisite=`? |
| `job_timeout` | two units ordered in a cycle | 27,000 | does a job whose units wait for each other end? |
| `transaction` | 3 units, the situations of `MCTransaction` | 305,000 | is what is applied complete, consistent and ordered, and does it return? |
| `auto_queues` | a upholds b, b is bound to c | 68,000 | is a unit that must be started or stopped always queued? |
| `unit_gc` | 3 units, one a handler, any references | 812,000 | are units freed exactly when nothing needs them? |
| `service` | 13 unit files, finite and infinite time-outs | 188,000 | does any order of events leave a service waiting for nothing? |
| `mount` | one mount point with automount | 558,000 | do unit and kernel agree, and do waiting processes get an answer? |
| `udev_queue` | disk and partition, 3 events, 2 workers at a time, any number of reloads | 774,000 | are events handled in order, none lost, and does udevd exit? |
| `journal_offline` | one file, sealed or not | 26,000 | can a crash reveal a file that claims to be complete and is not? |
| `barrier` | two processes, two barriers each | 254,000 | do the calls keep the promise of `BarrierSync`? |

### Properties

- `job_merge`: `OrderIrrelevant`, `ConflictHasPair`: the merge depends on the set only, and a conflict has two
  jobs that conflict by themselves.
- `job_engine`: `TypeOK`; `RunningCounted`: the counter that decides whether the system is "starting" is the number
  of running jobs; `NoLostWakeup`: a job that waits for nobody is in the run queue, or a caller is about to put it
  there; `NoStall`: some job can run if there are any; `ReloadHonoured`: a reload is not reported as done by one
  that began before it was asked for; `FailurePropagated`: when a job fails, those that require its unit do not start.
- `job_devices`: `FailurePropagated` again, for the paths that services do not have.
- `job_timeout`: `JobsTimeOut`: with `JobTimeoutSec=`, every job ends, even in an ordering cycle and across
  daemon-reload.
- `transaction`: `AnchorKept`, `RequirementsMet`, `ConflictsStopped` of what is applied; `OrderVerified`: what passes
  the check of the order has no cycle; `Returns`: the loops end.
- `auto_queues`: `Attended`: a unit that is called for is in its queue, or waits for the end of the rate limit, or was
  overlooked; `UpheldIsStarted`: an upheld unit is started, through the rate limit, unless it was overlooked.
- `unit_gc`: `CollectsUnneeded`: no unit that is needed is put into the cleanup queue; `NoLeak`: when the
  manager waits for events, the loaded units are the needed ones and those that overlooked ones lead to;
  `GarbageIsCollected`: the rounds come to an end, and it comes to that again and again.
- `service`: `NoneLeft`: a service with no process, event, timer or job left is dead, failed or exited, even without
  time-outs; `StoppedStaysDown`: once it was told to stop, the end of the service leads to no automatic restart,
  through whatever states and failures; `JobsEnd`: with finite
  time-outs every job ends, whatever the processes do.
- `mount`: `Follows`: once mountinfo has been read and no process runs, the unit says what the kernel says;
  `DoneSeen`: the end of mount(8) or umount(8) is handled in the light of what it did; `NoneForgotten`: who waits has
  a request in the pipe, or a token that something under way will answer; `Answered`: they get the answer.
- `udev_queue`: `Ordered`: while a worker handles an event, no earlier event of the same device, an ancestor or a
  descendant is queued or handled; `NotLost`: an event is in the queue, completed, or announced as failed; `Handled`:
  all events come to an end although workers hang and disks stay locked; `Exits`: udevd stops when told to.
  The exceptions written into `Attended`, `UpheldIsStarted`, `NoLeak`, `GarbageIsCollected`, `NotLost`, `Handled`,
  `Follows`, `DoneSeen`, `Exits`, `NoneLeft` and `JobsEnd` are entries of section 6.
- `journal_offline`: `HeaderHasOneWriter`: the two threads never both may write the header; `ClosedIsClean`;
  `ImplementsJournalDisk`: see section 3; `WriterReturns`: the writer is not caught in the exchange with the
  thread; `RotatedIsArchived`.
- `barrier`: `ExitAfterBarriers`: a side that sees the other's exit has seen its barriers; `CountExact`: the
  count is the difference of barriers placed and learnt of; `ImplementsBarrierSync`; `WaitersWake`: a call whose goal
  is met, or whose peer is gone or has aborted, returns.

### Bounds

- `MaxRequests` (jobs): three transactions let a job be replaced, and the replacement fail. A second unit is
  enough for order, requirement and propagation; `job_devices` has a chain of three.
- `MaxPlaced` (barrier): two barriers let one side be ahead, catch up, and be at the boundary of
  `BARRIER_ABORTION`, which is 100 instead of 2^62; only comparisons with it matter. `CountExact` and the
  refinement are proved for every value.
- `MaxOthers` (service, mount): how many interventions from outside (requests, messages, foreign mounts, failures to
  fork) there are in one behaviour. What processes and time do is not bounded. Three suffice for a request, a
  second one that replaces it, and a failure.
- `MaxMounts`, `MaxTokens`, `RetryMax` (mount): two mounts are a mount over a mount, two tokens a request that comes
  while one is being answered, one retry a retry that fails again.
- `MaxEvents` (udev): three events on a path of two devices give a blocker, a second blocker that remains when the
  first is gone, and an event that waits for both; two of them are of the disk, which is the one that may be locked.
- `Handlers`, `RefHolders` (unit_gc): one unit that others name as their handler, and one that holds `UnitRef`s. A handler is
  merged into a handler only, so that the run merges none; the proofs are for any number of either.
- `Burst` (automatic starts) is 1, so that the second attempt is limited.

### Fairness

- `job_timeout`: calls return (weak), a timer that keeps becoming due is dispatched (strong; event sources are served
  in turn). Units need not report anything.
- `transaction`: the loop goes on (weak).
- `auto_queues`: queues are dispatched (weak), intervals end (weak), a rate limit's timer is served (strong: sources
  of one priority are served in the order in which they became pending).
- `unit_gc`: the manager's loop goes on (weak).
- `service`: each kind of event (jobs, child exits, cgroup inotify, cgroup empty queue, timer) is served when
  it stays pending (weak). None of the processes: they may hang, and ignore signals.
- `mount`: the manager handles what is due (weak, written as `[]<>~Due \/ []<><<Manager>>_vars`, which is faster
  to check). mount(8) may hang; its timer ends it.
- `udev_queue`: udevd's loop goes on (weak), a pending event is served (strong), killed workers die, the time for
  locked disks runs out (weak). Workers may hang: their time-out is an action of the loop.
- `journal_offline`: both threads run (weak), which the kernel's scheduler gives.
- `barrier`: a side that is in a call of `barrier_read()` goes on (weak); nothing of a side that is not.

Priorities of event sources are not relied upon. Deadlock is checked where the system never stops; it is not where
the list or the transaction ends (`job_merge`, `transaction`), processes exit (`barrier`, `udev_queue`), or the outside
has used up its interventions (`mount`, `service`).

## 5. The proofs

Assumptions are the named `ASSUME`s of the modules: finitely many units for the jobs, relations between units, no unit
ordered against itself, well-formed transactions and situations (`TransactionsAssumption`, `WorldsAssumption`),
conflicts of devices that are mutual, unit files that `service_verify()` accepts (`ConfigAssumption`), bounds that are
natural numbers, `BARRIER_ABORTION` out of reach of the counters. A rank of the units and `Closed` are
hypotheses of the theorems that name them. `ConfigAssumption` leaves out `Type=idle`, and `PIDFile=` for
services that do not fork, which `service_verify()` accepts too.

- `JobProofs`: `NoWakeupIsLost`. The inductive invariant is
  `Typed /\ SavedOK /\ NoLostWakeup` (`Typed` is `TypeOK` without the counter of running jobs). `SavedOK` says that the
  id kept across a unit's operation names an installed job and that the frame to return to belongs to it; without it,
  `job_run_and_invalidate()` could apply a return code to a unit without a job. `NoLostWakeup` is inductive because it
  counts the `tail` frames: while a job is being finished, its neighbours may already have nothing to wait for. The
  steps share `WakeupPreserved`: jobs that stay idle stay the same, the jobs they wait for stay, and a job that ends
  leaves a `tail` frame.
  `RunningIsCounted`, `TypeCorrect`, `JobsNeverStall`: with the invariant above, `RunningCounted` is
  inductive: each step adds one job to the set of running ones, takes one away, takes a set away (a transaction), or
  counts afresh (daemon-reload). `TypeCorrect` follows. `JobsNeverStall` is for orderings without cycles, given as a
  rank of the units: of the jobs that wait, one that nothing can precede exists. It is about start and stop jobs in
  both directions, hence the two cases.
  `ReloadIsHonoured`: the invariant `StaleOK` says that a unit that is owed a
  reload is up and has a reload or restart job; that a reload job that runs nevertheless is one that its unit has just
  refused (`AtReturn`); and that a return code which ends a job as done is pending only for units that are owed none.
  `FailureIsPropagated` (the action property `FailurePropagated`): the invariant `Reached` says that a unit that did not
  come up is still down for the jobs recorded with it, and that each of these ignores the order, is a reload, or is in
  the `todo` of a `job_fail_dependencies()` frame; none of the three begins a start, because a job begins only when no
  call is in progress (`OnlyRunJob`). A collected job leaves no such frame: `job_may_gc()` has seen that nobody waits
  for it. Transactions cancel jobs without failing dependents, so the theorem has a hypothesis, `Closed`: a stop takes
  along the units that need the stopped one; a start, unless it ignores dependencies, brings along what it needs
  (both: `transaction_add_job_and_dependencies()`); and where jobs are isolated away, a job that stays (because of
  `IgnoreOnIsolate=`, or because its unit is in the transaction) keeps the jobs of the units it needs. The third part
  is up to the configuration, and a stop with `ignore-dependencies` breaks the first: then the dependents do begin. The
  instances of both runs are `Closed`; TLC evaluates it.
  The merging table as equations gives `MergeCommutes` and `MergeAssociates`, for every state of the
  unit and including merges that fail, which is what the comment above `job_merging_table` claims.
  `FoldIsOrderIrrelevant` has the invariant `FoldTypeOK /\ seen # {} /\ OrderIrrelevant`, and `ConflictIsBetweenTwo`
  follows; both are for lists of any length.
- `TransactionProofs`: `AnchorIsKept`, `RequirementsAreMet`, `ConflictsAreStopped`, `OrderIsVerified`, for any set
  of units and any situation in which a job may be requested. `AnchorSafe`: the jobs that matter are closed under the
  links that matter and contain the anchor, and jobs about to be deleted are either none of them or garbage that no link
  leads to; so neither minimising, nor breaking a cycle, nor resolving a conflict can take the anchor along.
  `Followed`: until the jobs are merged, what a job wants is still to be pulled in, is in the transaction with a link to
  it, was redundant and stays so (`Settled`), or the job itself is about to be deleted; a cascade that forgot a link
  would break it. `Applies` is what merging makes of that. `Searched`: the units that the search for cycles has
  cleared lead to cleared units only and every set of them has one that leads out of it, which is acyclicity without
  paths. `NopAlone` and `InTurn` say what each step finds. What merging a list and deleting from it do is shown for
  lists of any length by way of the shortest list for which it is not so.
- `AutoQueuesProofs`: `AttendedAlways`, for any units and dependencies. `TypeOK /\ Attended` is inductive: every
  action that can make a predicate true is shown to queue the unit or to be the end of a job without a change of state,
  and the dispatchers to take a unit off only with a job, a refusal, a timer, or a predicate that is false.
- `UnitGCProofs`: `CollectsUnneededAlways`, for any set of units and any references. Between rounds, all users of a
  unit in the cleanup queue are in it too (`SettledBy({})`). During a round that is not so: a unit of a cycle may be
  marked BAD while others of the cycle are still unsure. The invariant then says that there is a set S of unsure
  units such that all users of S and of the cleanup queue are in S or in the queue (`SettledBy(S)`), what each
  mark means (`Marked`), and that the calls on the stack are a path along which every user already looked at is
  unsure, in the path, or in the cleanup queue (`Called`). The set is a witness and not a variable.
  `NothingLeaks`: every set of loaded units that are not in use and that nothing outside of the set refers to has a
  member in one of the queues, or one that was overlooked (`Watched`). Stated for sets and not for units, this is inductive: a unit may leave the
  queue while others of its cycle hold the place. During a round it needs that a unit marked good is rightly so
  (`Rightly`), or a set could lose its last member to a wrong mark.
- `UdevQueueProofs`: `ConflictsAreOrdered`, `NoEventIsLost`, for any devices, conflicts, workers, numbers of events
  and reloads. For the order: what a worker does is what the daemon has noted for it (`Known`, `Assigned`),
  no two have the same event (`Alone`), an answer is the only one of its process (`Answered`), and the cached
  `blocker_seqnum` is never later than an earlier event that conflicts (`InOrder`); the last is what
  `event_is_blocked()` relies upon when it skips events. That no event is lost needs besides that an answer without
  another try follows the broadcast (`Completed`), and that only a worker without an event, or one that a second
  reload has reached at work, exits of its own accord (`Leaving`). What the latter leaves behind is the exception that
  `NotLost` states (section 6).
- `HandshakeProofs`, `Barrier`: `CountIsExact`, `ExitDoesNotOvertake`, `BarrierIsSync`, for any number of barriers. The
  inductive invariant adds to `CountExact` and `ExitAfterBarriers` that the eventfd counter holds exactly the
  barriers not yet read, until an abortion is added to it (`InFlight`), why a side is in an aborted state (`Cause`),
  that a side whose pipe is closed writes no more (`Silent`), and that a call stops at the count its goal stands for
  (`Goals`). The refinement is one lemma per action: it maps to a step of `BarrierSync`, or leaves its
  variables alone.
- `HandshakeProofs`, `JournalOffline`: `HeaderHasOneWriterAlways`, `ClosedIsCleanAlways`, `CleanIsCompleteAlways`,
  `JoinsOnceAlways`, `UnsealedIsNotCutAlways`, and the refinement `JournalKeepsItsPromise`. The state is finite, and the proof tells why the protocol works:
  `OneThread` is what the atomic `offline_state` says of the thread; `Seen`, what either side may have read before it
  tries to exchange it; `HeaderTurns`, whose turn it is to change the header (a thread that has begun may be cancelled,
  but then the writer waits for it); `OnDisk`, that mapping and disk differ only before an `fsync()`, and that nothing
  was written if the thread can still go on from SYNCING; `Finishes`, that nobody cancels once the writer is sure.
- `MountProofs`: `FollowsAlways`, `NoneIsForgotten`, `DoneIsSeen`, `TypeCorrect`, for any number of mounts, requests,
  retries and interventions. Each function of `mount.c` and `automount.c` has a lemma, and the steps compose them as the
  handlers do. `Believes`: a unit that is mounted, or mounting and done, has seen the mount in mountinfo, and one that
  is dead, failed or mounting has not, unless it is astray; with `UpToDate` (mountinfo that has not changed since is
  what the unit remembers) that is `Follows`. `Kept`: who waits has a token or a request, and none is left behind by
  an automount unit that is down. `Settled`: tokens are kept only while a job or a process is there; it fails in the
  midst of a handler and is restored by the last notification, hence `Kept` and `Settled` are apart. `DoneSeen` is an
  action property, proved of each step together with the invariant.
- `ServiceProofs`: `NoneLeftAlways`, `StoppedStaysDownAlways`, for all unit files and any number of interventions. Each
  function of `service.c` has a lemma. A function that enters a state asks next to nothing of the state it leaves
  (`Sound`: a main process that is watched is known) and leaves the unit `Settled`: what the new state waits for is
  there (`Waits`), and what it has no use for is not (`Tidy`). This is why they may call each other in any order when
  one fails. Only the handlers that stay in a state have to know what else it waits for: after the end of the main
  process a control process, after the end of that a PID file, after both the control group, of which the kernel has
  still to tell or has told (`Stirs`). `Remembers`: until the service is down `forbid_restart` is as good as the history
  variable `stopped`, and a stop job that runs has set it; `Keeps` carries that through every function, up to the
  decision in `service_enter_dead()`.

Only model-checked: liveness (fairness is out of the prover's reach). Every invariant and every action property that a
run checks is also a theorem.

## 6. Disagreements between code, comments and documentation

Found while modelling. None of them is checked by a run; where the modules have the property that fails, the entry
says how to see it with TLC. The properties that are checked have an exception where one of these would break them.

Jobs and transactions:

1. A restart job in its stopping phase is passed over when a unit it requires fails to start (`core/job.c:945`), and
   then starts its unit. `man/systemd.unit.xml:656`: "If one of the other units fails to activate, and an ordering
   dependency After= on the failing unit is set, this unit will not be started." `RestartNeedsRequired`, in
   `MCJobEngine` with `OnFailure = {}` and `MaxRequests = 2`.
2. `Wants=b`, `b` `Requires=c`, `c` cannot be loaded: `b` is started without `c` (`core/transaction.c:1097`). Same
   place: "If this unit gets activated, the units listed will be activated as well." `LoadErrorsPropagate`, in
   `MCTransaction` with `Families <- OnlyMissing` and `SPECIFICATION Spec`.
3. The order is verified on the first job of each unit and before merging (`core/transaction.c:456`); a start merged
   with a restart can close a cycle afterwards. `man/systemd.xml:229`: "Then, it will verify if the transaction is
   consistent (i.e. whether the ordering of all units is cycle-free)." `OrderApplied`, `Families <- OnlyRestarts`.
4. A unit survives isolating, or does not, depending on hash order: the unit that triggers it may have been set to be
   stopped before it is looked at (`core/transaction.c:1140`). Comment at 1137: "Keep units that are triggered by
   units we want to keep around." `IsolateStops`, `Families <- OnlyIsolate`.

Units:

5. A unit that is upheld is not queued again when a job of its upholder is cancelled or has nothing to do
   (`core/unit.c:2119`). `man/systemd.unit.xml:742`: "as long as this unit is up, all units listed in Upholds= are
   started whenever found to be inactive or failed, and no job is queued for them". The same is so of a unit whose
   automatic start is refused (`core/manager.c:1425`): the refusal is logged, and nothing tries again until the state of
   one of the units changes. `UpheldIsStarted` or `Attended` without `overlooked`.
6. `unit_gc_mark_good()` follows dependencies only (`core/manager.c:1183`), while the sweep also follows `UnitRef`s
   (1218); comment at 1182: "Recursively mark referenced units as GOOD as well". A `UnitRef` without a dependency
   comes from `service_set_socket_fd()`. Outside the present model.
7. `m->gc_marker` wraps around after 2^30 rounds to 1, no longer a multiple of 4, and old marks count again
   (`core/manager.c:1258`). Outside the present model.
8. A unit is kept while a handler that it names in `OnSuccess=` or `OnFailure=` has a job (`core/unit.c:443`). When that
   job ends only the handler is queued (`core/job.c:156`), and not even that if the handler is up: the unit stays
   loaded until something else queues it. `man/systemd.unit.xml:984`: "the unit will be unloaded if it is in the
   inactive state and is not referenced by clients, jobs or other units". `NoLeak` without `overlooked`.

Services:

9. With `Type=forking`, `PIDFile=` and no main process known, `main_pid_good()` is -EAGAIN and not 0, and
   "Give up hoping for the daemon to write its PID file" (`core/service.c:3392`) is not reached when the group is
   empty; without a time-out the service waits for ever. `NoneLeft` without `Unread`.
10. When the restart timer goes off while a stop job is pending, `service_enter_restart()` does nothing
   (`core/service.c:2353`); if that job, or the restart job, is cancelled, the service stays in auto-restart without
   a timer, and `service_start()` answers -EAGAIN (comment from 2534). `NoneLeft` and `JobsEnd` without `Stranded`.
11. `ExitType=cgroup`, `RELOADING=1`, and then all processes end: the event is ignored in `SERVICE_RELOAD`
    (`core/service.c:3433`). Comment at 3587: "If neither main nor control processes are running then the current state
    can never exit cleanly, hence immediately terminate the service". `NoneLeft` without `Unready`.
12. A time-out in CLEANING leads to FINAL_SIGKILL and from there to `service_enter_dead()` with restart allowed: a
    stopped service with `Restart=always` is started. `StoppedStaysDown` has an exception for cleaning.
13. When forking the next command fails again and again in FINAL_SIGTERM, `service_enter_stop()` (`core/service.c:2485`)
    starts over each time. Such failures count among `MaxOthers`.
14. The start limit is checked by `unit_start()` also while a unit is activating or deactivating, and marks it
    failed while its processes run (`core/service.c:4640`, `core/mount.c:2238`).

Mounts:

15. When cleaning ends, the unit becomes dead whatever the kernel says (`core/mount.c:1549`); comment at 974: "Enter
    DEAD or MOUNTED state, depending on what the kernel currently says about the mount point". The start limit
    has the same effect. `Follows` without `unit.astray`.

udev:

16. An event that is put back because of a locked disk after exit was requested keeps udevd from exiting
    (`udev/udevd.c:1217`). `man/udevadm.xml:547`: "Signal and wait for systemd-udevd to exit." `Exits` without its
    exception.
17. A second reload sends SIGTERM to a worker in state KILLING that may still be at work (`udev/udevd.c:319`), and its
    event is neither handled nor announced if its disk is locked and its end is noticed before its answer. `NotLost`
    without `forgotten`.

Journal and barrier:

18. When a sealed file is closed while the thread archives it, the tag can be written behind the end that the
    thread computed, and is cut off (`journal/managed-journal-file.c:34`, 429). Comment at 26: "truncate excess from
    the end of archives". `OnlyExcessIsCut`, in `MCJournalOffline`.
19. With a deferred close the file is ARCHIVED when it is closed, and gets no tag (`managed-journal-file.c:397`).
    `docs/JOURNAL_FILE_FORMAT.md:697`: "Before the file is closed a tag should be written too, to seal it off."
    `ClosedIsTagged`, in `MCJournalOffline`.
20. `barrier_place()` may answer true after the other side aborted (`shared/barrier.c:285`). Comment at 276: "If either
    side already aborted, this is a no-op and returns "false"." `PlaceSeesAbort`, in `MCBarrier` with `MaxPlaced = 1`.

In the other direction, these hold and are not part of a run: `AllJobsEnd` under `CooperativeSpec` (`MCJobEngine` with
`OnFailure = {}`, `MaxRequests = 2` and `CHECK_DEADLOCK FALSE`); and `CleanIsComplete`, `UnsealedIsNotCut` and
`JoinsOnce` of `JournalOffline`, which are proved (section 5).

## 7. Not modelled

The repository has about a million lines. Most of them are kernel headers, generated tables, option and unit file
parsing, formatting, system calls in sequence, tools and tests: there is no state to interleave, and a model
would repeat the code. What has states and is left out, with the reason (more in `PROJECT.json`):

- Sockets, swaps, slices, scopes, targets, devices as unit types: their machines are variants of the service's and the
  mount's. Paths and timers: clocks and inotify decide.
- Process execution, cgroups beyond emptiness and kill, BPF, namespaces: sequences of system calls.
- Unit loading and the manager's serialization: parsing; no concurrency.
- sd-event, sd-bus, D-Bus interfaces: assumed where the models use them (event sources served in turn, one callback
  at a time).
- Network, DHCP, resolver, login manager: protocols over networks and clocks, each the size of this project.
- Journal: objects, hash tables, readers, the daemon's rotation policy and its streams.

Of the modelled files: logging and status output, bus messages, out-of-memory paths, `job_shutdown_magic()`, the wrap
of 32 bit job ids, emergency actions; `mount.c`: the rate limit of mountinfo, failures to fork, kill or open
`/dev/autofs`, masked units; `udevd.c`: failures to fork, stopping the queue, reuse of process ids; `service.c`: the
file descriptor store, watchdog details beyond its expiry, `NotifyAccess=` other than main, credentials and
USB functions; `journal-file.c`: failing `fsync()`, hole punching.
