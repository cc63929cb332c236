-------------------------------- MODULE Mount --------------------------------
(***************************************************************************)
(* A mount unit (mount.c) and the automount unit that triggers it.  The    *)
(* manager runs mount(8) and umount(8), learns from /proc/self/mountinfo   *)
(* what they and others have done, and is told when they end; it must      *)
(* keep its own idea of the mount in step with the kernel, and give every  *)
(* process that waits for the mount an answer.                             *)
(*                                                                         *)
(* The record unit holds the state of both units, the job of the mount     *)
(* unit and the process that it watches.  A handler that changes the state *)
(* several times is the composition of the changes, each of which notifies *)
(* the job and the automount unit.  Signals always find the process, and   *)
(* SIGKILL is allowed.  fork() does not fail, mountinfo has no rate limit. *)
(* The field astray is for the properties: systemctl clean was used, or    *)
(* the start limit hit in the midst of an operation, after the unit was    *)
(* mounted for the last time.                                              *)
(***************************************************************************)
EXTENDS Automount, Sequences

CONSTANTS
  MaxMounts,       \* bound: mounts on top of each other
  MaxTokens,       \* bound: requests of the kernel
  MaxOthers,       \* bound: jobs, mounts and unmounts by others
  RetryMax,        \* RETRY_UMOUNT_MAX
  Jobs             \* the kinds of jobs that others ask for

ASSUME MountAssumption ==
  /\ MaxMounts \in Nat /\ MaxTokens \in Nat /\ MaxOthers \in Nat /\ RetryMax \in Nat
  /\ Jobs \subseteq {"start", "stop", "reload"}

VARIABLES
  unit,        \* both units and the process
  mounted,     \* the kernel: how many mounts there are
  changed,     \* the kernel: mountinfo has changed since it was read
  pipe,        \* the autofs pipe: requests for a mount or to unmount
  next,        \* the next token
  others       \* how often others have intervened

vars == <<unit, mounted, changed, pipe, next, others>>

MOUNT_STATE_WITH_PROCESS ==
  {"mounting", "mounting-done", "remounting", "remounting-sigterm", "remounting-sigkill",
   "unmounting", "unmounting-sigterm", "unmounting-sigkill", "cleaning"}

(* state_translation_table                                                 *)
ActiveState(state) ==
  CASE state = "dead" -> "inactive"
    [] state \in {"mounting", "mounting-done"} -> "activating"
    [] state = "mounted" -> "active"
    [] state \in {"remounting", "remounting-sigterm", "remounting-sigkill"} -> "reloading"
    [] state \in {"unmounting", "unmounting-sigterm", "unmounting-sigkill"} -> "deactivating"
    [] state = "failed" -> "failed"
    [] state = "cleaning" -> "maintenance"

Init ==
  /\ unit = [state |-> "dead", success |-> TRUE, from_proc |-> FALSE, n_retry |-> 0,
             job |-> "none", running |-> FALSE, start_limit_hit |-> FALSE,
             process |-> "none", acted |-> FALSE, ended |-> "no",
             auto |-> "waiting", timer |-> FALSE, tokens |-> {}, expire_tokens |-> {},
             waiters |-> {}, astray |-> FALSE]
  /\ mounted = 0 /\ changed = FALSE /\ pipe = <<>> /\ next = 1 /\ others = 0
-----------------------------------------------------------------------------
(* Mutated: the automount unit is not told that the job is over.           *)
job_finish_and_invalidate_silent(s) == [s EXCEPT !.job = "none", !.running = FALSE]

job_finish_and_invalidate(s) ==
  automount_trigger_notify([s EXCEPT !.job = "none", !.running = FALSE])

(* unit_process_job(): does the new state end the job?                     *)
JobEnds(s) ==
  LET ns == ActiveState(s.state)
  IN  \/ s.job = "start" /\ ns \in {"active", "reloading"}
      \/ s.job = "start" /\ s.running /\ ns \in {"inactive", "failed"}
      \/ s.job = "stop" /\ ns \in {"inactive", "failed"}
      \/ s.job = "stop" /\ s.running /\ ns # "deactivating"
      \/ s.job = "reload" /\ s.running /\ ns \in {"active", "inactive", "failed"}

unit_notify(s) ==
  automount_trigger_notify(IF JobEnds(s) THEN job_finish_and_invalidate(s) ELSE s)

mount_set_state(s, state) ==
  LET t == [s EXCEPT !.state = state]
  IN  unit_notify(IF state \in MOUNT_STATE_WITH_PROCESS THEN t
                  ELSE [t EXCEPT !.process = "none", !.acted = FALSE, !.ended = "no"])

mount_enter_dead(s, success) ==
  LET t == [s EXCEPT !.success = @ /\ success]
  IN  mount_set_state(t, IF t.success THEN "dead" ELSE "failed")

mount_enter_mounted(s, success) ==
  mount_set_state([s EXCEPT !.success = @ /\ success, !.astray = FALSE], "mounted")

(* Mutated: an operation that has failed leaves no mount.                  *)
mount_enter_dead_or_mounted_dead(s, success) == mount_enter_dead(s, success)

mount_enter_dead_or_mounted(s, success) ==
  IF s.from_proc THEN mount_enter_mounted(s, success) ELSE mount_enter_dead(s, success)

(* mount_spawn() and the state that goes with the process.                 *)
Spawn(s, process, state) ==
  mount_set_state([s EXCEPT !.process = process, !.acted = FALSE, !.ended = "no"], state)

mount_enter_unmounting(s) ==
  LET again == s.state \in {"unmounting", "unmounting-sigterm", "unmounting-sigkill"}
  IN  Spawn([s EXCEPT !.n_retry = IF again THEN @ ELSE 0], "umount", "unmounting")

mount_enter_signal(s, state, success) ==
  mount_set_state([s EXCEPT !.success = @ /\ success], state)

mount_cycle_clear(s) == [s EXCEPT !.success = TRUE]

(* mount_can_start() where the start limit is hit.                         *)
mount_can_start_limit(s) == mount_enter_dead([s EXCEPT !.start_limit_hit = TRUE], FALSE)

(* mount_start() for a unit that is down, as far as the start limit allows.*)
mount_start(s, limited) ==
  IF limited THEN mount_can_start_limit(s)
  ELSE Spawn(mount_cycle_clear([s EXCEPT !.start_limit_hit = FALSE]), "mount", "mounting")

mount_stop(s) ==
  CASE s.state \in {"mounting", "mounting-done", "remounting"} ->
         mount_enter_signal(s, "unmounting-sigterm", TRUE)
    [] s.state = "remounting-sigterm" -> mount_set_state(s, "unmounting-sigterm")
    [] s.state = "remounting-sigkill" -> mount_set_state(s, "unmounting-sigkill")
    [] s.state = "mounted" -> mount_enter_unmounting(s)
    [] s.state = "cleaning" -> mount_enter_signal(s, "unmounting-sigkill", TRUE)
    [] OTHER -> s
-----------------------------------------------------------------------------
(* mount_process_proc_self_mountinfo(): the manager follows the kernel.    *)
(* params says whether the parameters of the mount have changed.           *)
mount_process_proc_self_mountinfo(s, params) ==
  LET gone == [s EXCEPT !.from_proc = FALSE]
      here == [s EXCEPT !.from_proc = TRUE]
      just == ~s.from_proc \/ s.state = "mounting" \/ params
  IN  IF ~changed THEN s
      ELSE IF mounted = 0
      THEN CASE s.state = "mounted" -> mount_enter_dead(gone, TRUE)
             [] s.state = "mounting-done" -> mount_set_state(gone, "mounting")
             [] OTHER -> gone
      ELSE CASE ~just -> here
             [] just /\ s.state \in {"dead", "failed"} ->
                  mount_enter_mounted(mount_cycle_clear(here), TRUE)
             [] just /\ s.state = "mounting" -> mount_set_state(here, "mounting-done")
             [] just /\ s.state \notin {"dead", "failed", "mounting"} ->
                  mount_set_state(here, s.state)

(* The process has ended; success is how.                                  *)
Ended(s, success) ==
  LET r == [s EXCEPT !.process = "none", !.acted = FALSE, !.ended = "no"]
      t == IF s.state \in {"mounting", "unmounting", "remounting", "remounting-sigterm",
                           "remounting-sigkill"} THEN r
           ELSE [r EXCEPT !.success = @ /\ success]
  IN  CASE s.state = "mounting" -> mount_enter_dead(t, FALSE)
        [] s.state = "mounting-done" -> mount_enter_mounted(t, success)
        [] s.state \in {"remounting", "remounting-sigterm", "remounting-sigkill"} ->
             mount_enter_dead_or_mounted(t, TRUE)
        [] s.state = "unmounting" /\ success /\ s.from_proc ->
             IF s.n_retry < RetryMax
               THEN mount_enter_unmounting([t EXCEPT !.n_retry = @ + 1])
               ELSE mount_enter_mounted(t, FALSE)
        [] s.state = "unmounting" /\ ~(success /\ s.from_proc) ->
             mount_enter_dead_or_mounted(t, success \/ (s.ended = "failed" /\ ~s.from_proc))
        [] s.state \in {"unmounting-sigterm", "unmounting-sigkill"} ->
             mount_enter_dead_or_mounted(t, success)
        [] s.state = "cleaning" -> mount_enter_dead(t, TRUE)

(* What a step of the manager does to the mounts: an automount unit that   *)
(* is given up detaches all that is mounted there (unmount_autofs()).      *)
(* pending says whether mountinfo has to be read in any case.              *)
Kernel(pending) ==
  LET detached == /\ unit.auto \in {"waiting", "running"}
                  /\ unit'.auto \notin {"waiting", "running"}
                  /\ mounted > 0
  IN  /\ mounted' = IF detached THEN 0 ELSE mounted
      /\ changed' = (detached \/ pending)

(* Mutated: mountinfo is not read before the end of the process is handled.*)
mount_sigchld_event_blind ==
  /\ unit.ended # "no"
  /\ unit' = Ended(unit, unit.ended = "ok")
  /\ Kernel(changed)
  /\ UNCHANGED <<pipe, next, others>>

mount_sigchld_event ==
  /\ unit.ended # "no"
  /\ \E params \in BOOLEAN :
       unit' = Ended(mount_process_proc_self_mountinfo(unit, params), unit.ended = "ok")
  /\ Kernel(FALSE)
  /\ UNCHANGED <<pipe, next, others>>

mount_dispatch_io ==
  /\ changed
  /\ \E params \in BOOLEAN : unit' = mount_process_proc_self_mountinfo(unit, params)
  /\ Kernel(FALSE)
  /\ UNCHANGED <<pipe, next, others>>

mount_dispatch_timer ==
  /\ unit.state \in MOUNT_STATE_WITH_PROCESS
  /\ unit' =
       CASE unit.state \in {"mounting", "mounting-done", "unmounting"} ->
              mount_enter_signal(unit, "unmounting-sigterm", FALSE)
         [] unit.state = "remounting" -> mount_enter_signal(unit, "remounting-sigterm", TRUE)
         [] unit.state = "remounting-sigterm" ->
              mount_enter_signal(unit, "remounting-sigkill", TRUE)
         [] unit.state = "remounting-sigkill" -> mount_enter_dead_or_mounted(unit, TRUE)
         [] unit.state = "unmounting-sigterm" ->
              mount_enter_signal(unit, "unmounting-sigkill", FALSE)
         [] unit.state = "unmounting-sigkill" -> mount_enter_dead_or_mounted(unit, FALSE)
         [] unit.state = "cleaning" -> mount_enter_signal(unit, "unmounting-sigkill", TRUE)
  /\ Kernel(changed)
  /\ UNCHANGED <<pipe, next, others>>
-----------------------------------------------------------------------------
(* job_type_merge_and_collapse() for jobs that do not conflict.            *)
Collapsed(s, job) ==
  CASE s.job = job -> job
    [] s.job # job /\ ActiveState(s.state) \in {"active", "reloading"} -> "reload"
    [] OTHER -> "start"

(* job_install(): a job cancels one that it conflicts with, and is merged  *)
(* into another, which is run again unless it does as much already.        *)
Installed(s, job) ==
  IF s.job = "none" THEN [s EXCEPT !.job = job, !.running = FALSE]
  ELSE IF (s.job = "stop") # (job = "stop")
    THEN [job_finish_and_invalidate(s) EXCEPT !.job = job, !.running = FALSE]
    ELSE [s EXCEPT !.job = Collapsed(s, job),
                   !.running = @ /\ s.job = job /\ job # "reload"]

(* What users and other programs do is bounded.                            *)
Intervene == others < MaxOthers /\ others' = others + 1

(* Another job is asked for; one that is merged into its like, and leaves  *)
(* it as it is, is no step.                                                *)
Request(job) ==
  /\ job \in Jobs /\ (unit.job = job => job = "reload" /\ unit.running)
  /\ unit' = Installed(unit, job)
  /\ Intervene
  /\ Kernel(changed)
  /\ UNCHANGED <<pipe, next>>

(* A job is cancelled, or fails since another unit did.                    *)
Cancel ==
  /\ unit.job # "none" /\ Jobs # {}
  /\ unit' = job_finish_and_invalidate(unit)
  /\ Intervene
  /\ Kernel(changed)
  /\ UNCHANGED <<pipe, next>>

(* job_run_and_invalidate(), unless it has to wait (-EAGAIN).              *)
Runnable ==
  /\ unit.job # "none" /\ ~unit.running
  /\ unit.job = "start" => ActiveState(unit.state) \notin {"deactivating", "maintenance"}
  /\ unit.job = "reload" => ActiveState(unit.state) # "reloading"

job_run_and_invalidate ==
  /\ Runnable
  /\ LET s == [unit EXCEPT !.running = TRUE]
         ns == ActiveState(unit.state)
     IN  \/ /\ unit.job = "start" /\ ns \in {"active", "reloading"}
            /\ unit' = job_finish_and_invalidate(s)
         \/ /\ unit.job = "start" /\ ns = "activating"
            /\ unit' = s
         \/ /\ unit.job = "start" /\ ns \in {"inactive", "failed"}
            /\ \E limited \in BOOLEAN : unit' = mount_start(s, limited)
         \/ /\ unit.job = "stop"
            /\ unit' = IF ns \in {"inactive", "failed"} THEN job_finish_and_invalidate(s)
                       ELSE mount_stop(s)
         \/ /\ unit.job = "reload"
            /\ unit' = IF ns = "active" THEN Spawn(s, "remount", "remounting")
                       ELSE job_finish_and_invalidate(s)
  /\ Kernel(changed)
  /\ UNCHANGED <<pipe, next, others>>

(* unit_start() asks mount_can_start() first, also while mount(8) or       *)
(* umount(8) run; the unit then forgets them.                              *)
start_limit_hit ==
  /\ unit.job = "start" /\ ~unit.running
  /\ ActiveState(unit.state) \in {"activating", "deactivating"}
  /\ unit' = mount_can_start_limit([unit EXCEPT !.running = TRUE, !.astray = TRUE])
  /\ Intervene
  /\ Kernel(changed)
  /\ UNCHANGED <<pipe, next>>

mount_clean ==
  /\ unit.state = "dead" /\ unit.job = "none"
  /\ unit' = Spawn([unit EXCEPT !.astray = TRUE], "clean", "cleaning")
  /\ Intervene
  /\ Kernel(changed)
  /\ UNCHANGED <<pipe, next>>

(* unit_reset_failed(): the automount unit is notified before the start    *)
(* limit is forgotten.                                                     *)
mount_reset_failed ==
  /\ LET s == IF unit.state = "failed" THEN mount_set_state(unit, "dead") ELSE unit
     IN  unit' = [s EXCEPT !.success = TRUE, !.start_limit_hit = FALSE]
  /\ Kernel(changed)
  /\ UNCHANGED <<pipe, next, others>>

(* daemon-reload: mount_enumerate(), mount_coldplug(), mount_catchup().    *)
(* The automount unit is notified if it was restored before.  That the     *)
(* start limit was hit is not serialized.                                  *)
Reload ==
  \E notify \in BOOLEAN :
    LET t == [unit EXCEPT !.from_proc = mounted > 0, !.timer = (unit.auto = "running"),
                          !.start_limit_hit = FALSE]
        s == IF notify /\ unit.state # "dead" THEN automount_trigger_notify(t) ELSE t
    IN  /\ unit' =
             CASE mounted > 0 /\ s.state \in {"dead", "failed"} ->
                    mount_enter_mounted(mount_cycle_clear(s), TRUE)
               [] mounted > 0 /\ s.state = "mounting" -> mount_set_state(s, "mounting-done")
               [] mounted = 0 /\ s.state = "mounting-done" -> mount_set_state(s, "mounting")
               [] mounted = 0 /\ s.state = "mounted" -> mount_enter_dead(s, TRUE)
               [] OTHER -> s
        /\ UNCHANGED <<mounted, changed, pipe, next, others>>
-----------------------------------------------------------------------------
(* The kernel, the process that the manager watches, and other processes.  *)

SetMounted(n) == mounted' = n /\ changed' = TRUE

(* mount(8) or umount(8) does what it should; mount(8) may fail after that.*)
Act ==
  /\ unit.process \in {"mount", "umount"} /\ unit.ended = "no"
  /\ \/ /\ ~unit.acted /\ unit.process = "mount" /\ mounted < MaxMounts
        /\ SetMounted(mounted + 1)
     \/ /\ ~unit.acted /\ unit.process = "umount" /\ mounted > 0
        /\ SetMounted(mounted - 1)
  /\ unit' = [unit EXCEPT !.acted = TRUE]
  /\ UNCHANGED <<pipe, next, others>>

Undo ==
  /\ unit.process = "mount" /\ unit.acted /\ unit.ended = "no" /\ mounted > 0
  /\ SetMounted(mounted - 1)
  /\ unit' = [unit EXCEPT !.ended = "failed"]
  /\ UNCHANGED <<pipe, next, others>>

End(how) ==
  /\ unit.process # "none" /\ unit.ended = "no"
  /\ unit' = [unit EXCEPT !.ended = how]
  /\ UNCHANGED <<mounted, changed, pipe, next, others>>

Other(n) ==
  /\ Intervene
  /\ n \in 0 .. MaxMounts /\ n \in {mounted - 1, mounted + 1}
  /\ SetMounted(n)
  /\ UNCHANGED <<unit, pipe, next>>

(* Somebody enters the directory, or the mount has been idle.              *)
Ask(what) ==
  /\ unit.auto \in {"waiting", "running"} /\ next <= MaxTokens
  /\ CASE what = "missing" -> mounted = 0
       [] what = "expire" -> mounted > 0 /\ unit.timer
  /\ pipe' = Append(pipe, [what |-> what, token |-> next])
  /\ unit' = [unit EXCEPT !.waiters = @ \union {next}]
  /\ next' = next + 1
  /\ UNCHANGED <<mounted, changed, others>>
-----------------------------------------------------------------------------
(* The automount unit.                                                     *)

(* automount_enter_running(): "The mount unit may have been explicitly     *)
(* started before we got the autofs request."                              *)
automount_enter_running(s) ==
  IF mounted > 0 THEN automount_send_ready(s, "tokens")
  ELSE automount_set_state(Installed(s, "start"), "running")

automount_dispatch_io ==
  /\ pipe # <<>> /\ unit.auto \in {"waiting", "running"}
  /\ pipe' = Tail(pipe)
  /\ LET t == Head(pipe).token
     IN  unit' = IF Head(pipe).what = "missing"
                   THEN automount_enter_running([unit EXCEPT !.tokens = @ \union {t}])
                   ELSE Installed([unit EXCEPT !.expire_tokens = @ \union {t},
                                               !.timer = FALSE], "stop")
  /\ Kernel(changed)
  /\ UNCHANGED <<next, others>>

automount_stop ==
  /\ Jobs # {} /\ unit.auto \in {"waiting", "running"}
  /\ unit' = automount_enter_dead(unit, TRUE)
  /\ Kernel(changed)
  /\ UNCHANGED <<pipe, next, others>>

(* automount_enter_waiting() opens a new pipe.                             *)
automount_start ==
  /\ unit.auto \in {"dead", "failed"} /\ mounted = 0
  /\ unit' = automount_set_state([unit EXCEPT !.tokens = {}], "waiting")
  /\ pipe' = <<>>
  /\ UNCHANGED <<mounted, changed, next, others>>

Manager ==
  \/ mount_sigchld_event \/ mount_dispatch_io \/ mount_dispatch_timer
  \/ job_run_and_invalidate \/ automount_dispatch_io

Next ==
  \/ Manager
  \/ \E job \in Jobs : Request(job)
  \/ Cancel \/ start_limit_hit \/ mount_clean \/ mount_reset_failed \/ Reload
  \/ Act \/ Undo
  \/ \E how \in {"ok", "failed", "killed"} : End(how)
  \/ \E n \in 0 .. MaxMounts : Other(n)
  \/ \E what \in {"missing", "expire"} : Ask(what)
  \/ automount_stop \/ automount_start

(* The manager has something to do.                                        *)
Due ==
  \/ unit.ended # "no" \/ changed \/ unit.state \in MOUNT_STATE_WITH_PROCESS
  \/ Runnable
  \/ pipe # <<>> /\ unit.auto \in {"waiting", "running"}

(* The manager does not stop serving its events, jobs and timers: weak     *)
(* fairness of Manager, which Due enables.  That mount(8) or umount(8)     *)
(* ends is not assumed.                                                    *)
Spec == Init /\ [][Next]_vars /\ ([]<>~Due \/ []<><<Manager>>_vars)
-----------------------------------------------------------------------------
TypeOK ==
  /\ unit.state \in MOUNT_STATE_WITH_PROCESS \union {"dead", "mounted", "failed"}
  /\ unit.job \in {"none", "start", "stop", "reload"} /\ unit.auto \in AutomountStates
  /\ unit.tokens \union unit.expire_tokens \subseteq 1 .. MaxTokens
  /\ (unit.process # "none") <=> (unit.state \in MOUNT_STATE_WITH_PROCESS)
  /\ mounted \in 0 .. MaxMounts

(* "our internal state reflects what the kernel says": once mountinfo was  *)
(* read and no process is at work, the unit is mounted if there is a       *)
(* mount.  Only a unit that somebody has mounted while systemctl clean     *)
(* ran, or that the start limit has hit while it was mounted or unmounted, *)
(* may remain dead or failed: mount_sigchld_event() and mount_can_start()  *)
(* call mount_enter_dead() whatever from_proc_self_mountinfo says.         *)
Follows ==
  ~changed /\ unit.state \notin MOUNT_STATE_WITH_PROCESS =>
    \/ unit.state = "mounted" <=> mounted > 0
    \/ unit.astray /\ unit.state \in {"dead", "failed"}

(* The end of mount(8) or umount(8) is handled in the light of what they   *)
(* have done: the unit is mounted, or unmounted once more, exactly if      *)
(* there is a mount.  If the last time-out strikes, it does not wait; what *)
(* systemctl clean and the start limit may do is as above.                 *)
DoneSeen ==
  [][(/\ unit.ended # "no" /\ unit'.ended = "no"
      /\ unit.state \notin {"remounting-sigkill", "unmounting-sigkill"} /\ ~unit'.astray) =>
       (unit'.state \in {"mounted", "unmounting"} <=> mounted > 0)]_vars

(* Who waits for the automount point has a request in the pipe, or a token *)
(* that the automount unit keeps while something is under way that will    *)
(* make it answer: a job of the mount unit, or mount(8) or umount(8).      *)
NoneForgotten ==
  /\ unit.waiters \subseteq
       unit.tokens \union unit.expire_tokens \union {pipe[i].token : i \in DOMAIN pipe}
  /\ unit.tokens \union unit.expire_tokens # {} =>
       unit.job # "none" \/ unit.state \in MOUNT_STATE_WITH_PROCESS

(* Every process that waits for the automount point gets an answer.        *)
Answered ==
  \A t \in 1 .. MaxTokens : (t \in unit.waiters) ~> (t \notin unit.waiters)
=============================================================================
