------------------------------- MODULE Service -------------------------------
(***************************************************************************)
(* A service unit (service.c): the commands that the manager runs one      *)
(* after the other, the main process, what else lives in the control       *)
(* group, and the time-outs, messages, jobs and restarts that move the     *)
(* unit between its states.  The ends of processes, the news that the      *)
(* control group is empty, timers and messages arrive in any order, and    *)
(* each handler has to go on from where the others have left the unit.     *)
(*                                                                         *)
(* The record svc holds the unit.  A handler that passes through several   *)
(* states is the composition of the functions it calls, each of which      *)
(* notifies the job.  A result is "success", "skip" (a condition) or       *)
(* "failure"; the kinds of failure, which only Restart=on-abnormal,        *)
(* -abort and -watchdog tell apart, are one.  Processes end when they      *)
(* like, whatever signals they get; fork() may fail.  CASE without OTHER   *)
(* stands for assert_not_reached().  Not modelled: main processes that are *)
(* no children of the manager, failing kill(), NotifyAccess= other than    *)
(* main, EXTEND_TIMEOUT_USEC=, the fd store and sockets, conditions of the *)
(* unit, reloads of the manager, and the legacy control groups.            *)
(***************************************************************************)
EXTENDS Naturals

CONSTANTS
  Configs,     \* the unit files
  MaxOthers    \* bound: requests, messages, failures of fork() and the like

VARIABLES
  conf,        \* the unit file
  svc,         \* the unit, its job and its processes
  others       \* how often others have intervened

vars == <<conf, svc, others>>

(* Commands of the unit file.                                              *)
Commands == {"condition", "start-pre", "start", "start-post", "reload", "stop", "stop-post"}

(* What service_verify() accepts.  PIDFile=, which it accepts for every    *)
(* type, is for forking services only, and Type=idle is left out.          *)
ASSUME ConfigAssumption ==
  \A c \in Configs :
    /\ c.type \in {"simple", "exec", "forking", "oneshot", "notify", "dbus"}
    /\ c.exit_type \in {"main", "cgroup"} /\ c.restart \in {"no", "always", "on-success", "on-failure"}
    /\ c.kill_mode \in {"control-group", "mixed", "process", "none"}
    /\ c.failure_mode \in {"terminate", "abort", "kill"} /\ c.oom_policy \in {"continue", "stop", "kill"}
    /\ {c.remain_after_exit, c.pid_file, c.send_sigkill, c.timeout, c.runtime_max, c.watchdog}
         \subseteq BOOLEAN
    /\ c.commands \in [Commands -> Nat]
    /\ c.commands["start"] = 0 => c.type = "oneshot"
    /\ c.commands["start"] > 1 => c.type = "oneshot"
    /\ c.type = "oneshot" => c.exit_type = "main" /\ c.restart \in {"no", "on-failure"}
    /\ c.pid_file => c.type = "forking"

StopStates == {"stop", "stop-watchdog", "stop-sigterm", "stop-sigkill", "stop-post"}
FinalStates == {"final-watchdog", "final-sigterm", "final-sigkill"}

(* state_translation_table                                                 *)
ActiveState(state) ==
  CASE state = "dead" -> "inactive"
    [] state \in {"condition", "start-pre", "start", "start-post", "auto-restart"} -> "activating"
    [] state \in {"running", "exited"} -> "active"
    [] state = "reload" -> "reloading"
    [] state \in StopStates \union FinalStates -> "deactivating"
    [] state = "failed" -> "failed"
    [] state = "cleaning" -> "maintenance"

Inactive == {"inactive", "failed"}

Init ==
  /\ conf \in Configs
  /\ svc = [state |-> "dead", result |-> "success", forbid_restart |-> FALSE,
            notify_state |-> "unknown", bus_name_good |-> FALSE, timer |-> FALSE,
            main |-> "none", main_pid_known |-> FALSE, main_next |-> 0,
            control |-> "none", control_next |-> 0, pid_watch |-> FALSE,
            job |-> "none", running |-> FALSE,
            stray |-> FALSE, changed |-> FALSE, empty |-> FALSE,
            broken |-> {}, found |-> "no", stopped |-> FALSE]
  /\ others = 0
-----------------------------------------------------------------------------
(* Processes.  main and control are "none", "alive", or how the process    *)
(* ended while the manager has not reaped it.  stray: others live in the   *)
(* control group.                                                          *)

Populated(s) == s.stray \/ s.main = "alive" \/ s.control = "alive"

service_unwatch_control_pid(s) ==
  [s EXCEPT !.stray = @ \/ s.control = "alive", !.control = "none"]

service_unwatch_main_pid(s) == [s EXCEPT !.stray = @ \/ s.main = "alive", !.main = "none"]

(* service_set_main_pid() for one of the processes in the control group.   *)
Adopt(s) ==
  LET t == service_unwatch_main_pid([s EXCEPT !.stray = (s.found = "one of several")])
  IN  [t EXCEPT !.main = "alive", !.main_pid_known = TRUE]

(* The PID file, or the search of the control group, yields a process.     *)
Finds(s) == s.found # "no" /\ s.stray

service_load_pid_file(s) == IF conf.pid_file /\ Finds(s) THEN Adopt(s) ELSE s

service_search_main_pid(s) ==
  IF ~s.main_pid_known /\ s.found = "the only one" /\ s.stray THEN Adopt(s) ELSE s

main_pid_alive(s) == s.main_pid_known /\ s.main # "none"
main_pid_dead(s) == s.main_pid_known /\ s.main = "none"
control_pid_good(s) == s.control # "none"
-----------------------------------------------------------------------------
(* Jobs: unit_process_job() and job_finish_and_invalidate().               *)

job_finish_and_invalidate(s) == [s EXCEPT !.job = "none", !.running = FALSE]

unit_process_job(s, ns) ==
  IF \/ s.job = "start" /\ (ns \in {"active", "reloading"} \/ (s.running /\ ns \in Inactive))
     \/ s.job = "stop" /\ (ns \in Inactive \/ (s.running /\ ns # "deactivating"))
     \/ s.job = "restart" /\ s.running /\ ns \notin {"deactivating"} \union Inactive
     \/ s.job = "reload" /\ s.running /\ ns \in {"active"} \union Inactive
  THEN job_finish_and_invalidate(s)
  ELSE IF s.job = "restart" /\ ns \in Inactive
  THEN [s EXCEPT !.job = "start", !.running = FALSE]
  ELSE s

unit_notify(s) == unit_process_job(s, ActiveState(s.state))

(* unit_prune_cgroup()                                                     *)
Pruned(s) == [s EXCEPT !.changed = @ /\ Populated(s)]

(* Mutated: the states that wait for an aborted process keep no timer.     *)
service_set_state_untimed(s, state) ==
  LET unmain == state \in {"dead", "condition", "start-pre", "exited", "failed", "auto-restart",
                           "cleaning"}
      uncontrol == state \in {"dead", "running", "exited", "failed", "auto-restart"}
      over == state \in {"dead", "failed", "exited"}
  IN  unit_notify(
        [s EXCEPT !.state = state, !.pid_watch = FALSE,
                  !.timer = @ /\ ~over /\ state \notin {"stop-watchdog", "final-watchdog"},
                  !.main = IF unmain THEN "none" ELSE @, !.main_next = IF unmain THEN 0 ELSE @,
                  !.control = IF uncontrol THEN "none" ELSE @,
                  !.control_next = IF uncontrol THEN 0 ELSE @,
                  !.stray = @ \/ (unmain /\ s.main = "alive") \/ (uncontrol /\ s.control = "alive"),
                  !.changed = @ /\ (~over \/ Populated(s))])

(* A state keeps the timer and watches the processes it has a use for; the *)
(* others are strays.  The control group is pruned if the service is over, *)
(* and unit_notify() tells the job.                                        *)
service_set_state(s, state) ==
  LET unmain == state \in {"dead", "condition", "start-pre", "exited", "failed", "auto-restart",
                           "cleaning"}
      uncontrol == state \in {"dead", "running", "exited", "failed", "auto-restart"}
      over == state \in {"dead", "failed", "exited"}
  IN  unit_notify(
        [s EXCEPT !.state = state, !.pid_watch = FALSE, !.timer = @ /\ ~over,
                  !.main = IF unmain THEN "none" ELSE @, !.main_next = IF unmain THEN 0 ELSE @,
                  !.control = IF uncontrol THEN "none" ELSE @,
                  !.control_next = IF uncontrol THEN 0 ELSE @,
                  !.stray = @ \/ (unmain /\ s.main = "alive") \/ (uncontrol /\ s.control = "alive"),
                  !.changed = @ /\ (~over \/ Populated(s))])
-----------------------------------------------------------------------------
(* The states that end the service.                                        *)

Result(s, f) == [s EXCEPT !.result = IF @ = "success" THEN f ELSE @]

service_arm_timer(s) == [s EXCEPT !.timer = conf.timeout]

service_shall_restart(s) ==
  /\ ~s.forbid_restart
  /\ CASE conf.restart = "no" -> FALSE
       [] conf.restart = "always" -> s.result # "skip"
       [] conf.restart = "on-success" -> s.result = "success"
       [] conf.restart = "on-failure" -> s.result = "failure"

(* The rest of service_enter_dead(), with the decision to restart.         *)
DeadOrRestart(t, restart) ==
  LET u == IF restart THEN service_set_state([t EXCEPT !.timer = TRUE], "auto-restart") ELSE t
  IN  [u EXCEPT !.forbid_restart = FALSE]

service_enter_dead(s, f, allow_restart) ==
  LET r == Result(s, f)
  IN  DeadOrRestart(service_set_state(r, IF r.result = "failure" THEN "failed" ELSE "dead"),
                    allow_restart /\ s.job # "stop" /\ service_shall_restart(r))

(* service_spawn() of the first control command, which may fail.           *)
Spawn(s, command, state, failed) ==
  IF command \in s.broken THEN failed
  ELSE service_set_state([service_arm_timer(s) EXCEPT !.control = "alive",
                            !.control_next = conf.commands[command] - 1], state)

(* Is there anything worth to wait for?                                    *)
unit_kill_context(s, state) ==
  /\ conf.kill_mode # "none"
  /\ \/ s.main # "none" \/ s.control # "none"
     \/ s.stray /\ (\/ conf.kill_mode = "control-group"
                    \/ conf.kill_mode = "mixed" /\ state \in {"stop-sigkill", "final-sigkill"})

(* service_enter_signal() waits where there is something to wait for, else *)
(* sends SIGKILL (which after SIGKILL finds nothing either), else goes on. *)
(* It calls itself once, and in the final states it does not get back to   *)
(* service_enter_stop_post(): its two uses, before and after ExecStopPost=,*)
(* are one operator each.                                                  *)
KillAndWait(s, state, otherwise) ==
  IF unit_kill_context(s, state) THEN service_set_state(service_arm_timer(s), state) ELSE otherwise

KillHarder(s, state, sigkill, otherwise) ==
  KillAndWait(s, state,
    IF conf.send_sigkill THEN KillAndWait(s, sigkill, otherwise) ELSE otherwise)

service_enter_final(s, state, f) ==
  LET r == Result(s, f)
  IN  KillHarder(r, state, "final-sigkill", service_enter_dead(r, "success", TRUE))

service_enter_stop_post(s, f) ==
  LET r == service_unwatch_control_pid(Result(s, f))
  IN  IF conf.commands["stop-post"] = 0
        THEN service_enter_final(r, "final-sigterm", "success")
        ELSE Spawn(r, "stop-post", "stop-post", service_enter_final(r, "final-sigterm", "failure"))

service_enter_signal(s, state, f) ==
  LET r == Result(s, f)
  IN  IF state \in FinalStates THEN service_enter_final(s, state, f)
      ELSE KillHarder(r, state, "stop-sigkill", service_enter_stop_post(r, "success"))

service_enter_stop(s, f) ==
  LET r == service_unwatch_control_pid(Result(s, f))
  IN  IF conf.commands["stop"] = 0
        THEN service_enter_signal(r, "stop-sigterm", "success")
        ELSE Spawn(r, "stop", "stop", service_enter_signal(r, "stop-sigterm", "failure"))

service_enter_stop_by_notify(s) == service_set_state(service_arm_timer(s), "stop-sigterm")
-----------------------------------------------------------------------------
(* The states of a service that is up, or on its way there.                *)

service_good(s) ==
  /\ conf.type = "dbus" => s.bus_name_good
  /\ \/ main_pid_alive(s)
     \/ ~(main_pid_dead(s) /\ conf.exit_type = "main") /\ Populated(s)

service_enter_reload_by_notify(s) == service_set_state(service_arm_timer(s), "reload")

service_enter_running(s, f) ==
  LET r == service_unwatch_control_pid(Result(s, f))
  IN  IF r.result # "success" THEN service_enter_signal(r, "stop-sigterm", f)
      ELSE IF service_good(r)
      THEN CASE s.notify_state = "reloading" -> service_enter_reload_by_notify(r)
             [] s.notify_state = "stopping" -> service_enter_stop_by_notify(r)
             [] OTHER -> [service_set_state(r, "running") EXCEPT !.timer = conf.runtime_max]
      ELSE IF conf.remain_after_exit THEN service_set_state(r, "exited")
      ELSE service_enter_stop(r, "success")

service_enter_start_post(s) ==
  LET r == service_unwatch_control_pid(s)
  IN  IF conf.commands["start-post"] = 0 THEN service_enter_running(r, "success")
      ELSE Spawn(r, "start-post", "start-post", service_enter_stop(r, "failure"))

service_adverse_to_leftover_processes(s) ==
  Populated(s) /\ conf.kill_mode \in {"mixed", "control-group"} /\ ~conf.send_sigkill

service_enter_start(s) ==
  LET r == service_unwatch_main_pid(service_unwatch_control_pid(s))
      failed == service_enter_signal(r, "stop-sigterm", "failure")
      main == [r EXCEPT !.main = "alive", !.main_pid_known = TRUE,
                        !.main_next = conf.commands["start"] - 1,
                        !.timer = conf.timeout /\ conf.type # "simple"]
  IN  IF service_adverse_to_leftover_processes(r) THEN failed
      ELSE IF conf.commands["start"] = 0
      THEN service_enter_start_post(service_set_state(r, "start"))
      ELSE IF conf.type = "forking" THEN Spawn(r, "start", "start", failed)
      ELSE IF "start" \in s.broken THEN failed
      ELSE IF conf.type = "simple" THEN service_enter_start_post(main)
      ELSE service_set_state(main, "start")

service_enter_start_pre(s) ==
  LET r == service_unwatch_control_pid(s)
      failed == service_enter_dead(r, "failure", TRUE)
  IN  IF conf.commands["start-pre"] = 0 THEN service_enter_start(r)
      ELSE IF service_adverse_to_leftover_processes(r) THEN failed
      ELSE Spawn(r, "start-pre", "start-pre", failed)

service_enter_condition(s) ==
  LET r == service_unwatch_control_pid(s)
      failed == service_enter_dead(r, "failure", TRUE)
  IN  IF conf.commands["condition"] = 0 THEN service_enter_start_pre(r)
      ELSE IF service_adverse_to_leftover_processes(r) THEN failed
      ELSE Spawn(r, "condition", "condition", failed)

service_enter_reload(s) ==
  LET r == service_unwatch_control_pid(s)
  IN  Spawn(r, "reload", "reload", service_enter_running(r, "success"))
-----------------------------------------------------------------------------
(* What the jobs of the unit call.                                         *)

service_start(s) ==
  service_enter_condition(
    [s EXCEPT !.result = "success", !.main_pid_known = FALSE, !.forbid_restart = FALSE,
              !.notify_state = "unknown", !.stopped = FALSE])

Going == (StopStates \union FinalStates) \ {"stop-watchdog"}

(* Mutated: a stop of a service that is on its way down is not remembered. *)
service_stop_late(s) ==
  LET t == [s EXCEPT !.forbid_restart = TRUE, !.stopped = TRUE]
  IN  CASE s.state \in Going -> [s EXCEPT !.stopped = TRUE]
        [] s.state = "auto-restart" -> service_set_state(t, "dead")
        [] s.state = "cleaning" -> service_enter_signal(t, "final-sigkill", "success")
        [] s.state \in {"running", "exited"} -> service_enter_stop(t, "success")
        [] OTHER -> service_enter_signal(t, "stop-sigterm", "success")

service_stop(s) ==
  LET t == [s EXCEPT !.forbid_restart = TRUE, !.stopped = TRUE]
  IN  CASE s.state \in Going -> t
        [] s.state = "auto-restart" -> service_set_state(t, "dead")
        [] s.state = "cleaning" -> service_enter_signal(t, "final-sigkill", "success")
        [] s.state \in {"running", "exited"} -> service_enter_stop(t, "success")
        [] OTHER -> service_enter_signal(t, "stop-sigterm", "success")

(* service_can_start(): the start limit is hit.                            *)
service_can_start_limit(s) ==
  job_finish_and_invalidate(service_enter_dead(s, "failure", FALSE))

(* A job that is not in conflict with the one of the unit is merged into   *)
(* it, and a running one has to start over unless it covers the new one.   *)
Merged(s, job) ==
  IF "restart" \in {s.job, job} THEN "restart"
  ELSE IF ActiveState(s.state) \in Inactive \union {"deactivating"} THEN "start" ELSE "reload"

job_install(s, job) ==
  IF s.job = "none" \/ "stop" \in {s.job, job}
    THEN [s EXCEPT !.job = job, !.running = FALSE]
    ELSE [s EXCEPT !.job = Merged(s, job),
                   !.running = @ /\ s.job = "restart" /\ job # "reload"]

(* The auto-restart timer: manager_add_job() may fail.                     *)
service_enter_restart(s) ==
  IF s.job \in {"stop", "restart"} THEN s
  ELSE IF "restart" \in s.broken THEN service_enter_dead(s, "failure", FALSE)
  ELSE job_install(s, "restart")
-----------------------------------------------------------------------------
(* Processes end: service_sigchld_event().                                 *)

service_run_next_main(s) ==
  IF "next" \in s.broken THEN service_enter_stop(s, "failure")
  ELSE [service_arm_timer(s) EXCEPT !.main = "alive", !.main_next = @ - 1]

(* Mutated: a reload goes on without the main process.                     *)
MainGone_waits(s, f) ==
  CASE s.state \in {"start-post", "reload", "stop"} -> s
    [] s.state = "start" /\ conf.type = "oneshot" ->
         IF f = "success" THEN service_enter_start_post(s)
         ELSE service_enter_signal(s, "stop-sigterm", f)
    [] s.state = "start" /\ conf.type = "notify" ->
         service_enter_signal(s, "stop-sigterm", "failure")
    [] s.state = "running" \/ (s.state = "start" /\ conf.type \notin {"oneshot", "notify"}) ->
         service_enter_running(s, f)
    [] s.state \in {"stop-watchdog", "stop-sigterm", "stop-sigkill"} ->
         IF control_pid_good(s) THEN s ELSE service_enter_stop_post(s, f)
    [] s.state = "stop-post" ->
         IF control_pid_good(s) THEN s ELSE service_enter_signal(s, "final-sigterm", f)
    [] s.state \in FinalStates ->
         IF control_pid_good(s) THEN s ELSE service_enter_dead(s, f, TRUE)

(* The switch on the state for the main process.                           *)
MainGone(s, f) ==
  CASE s.state \in {"start-post", "reload"} ->
         IF control_pid_good(s) THEN s ELSE service_enter_stop(s, f)
    [] s.state = "stop" -> s
    [] s.state = "start" /\ conf.type = "oneshot" ->
         IF f = "success" THEN service_enter_start_post(s)
         ELSE service_enter_signal(s, "stop-sigterm", f)
    [] s.state = "start" /\ conf.type = "notify" ->
         service_enter_signal(s, "stop-sigterm", "failure")
    [] s.state = "running" \/ (s.state = "start" /\ conf.type \notin {"oneshot", "notify"}) ->
         service_enter_running(s, f)
    [] s.state \in {"stop-watchdog", "stop-sigterm", "stop-sigkill"} ->
         IF control_pid_good(s) THEN s ELSE service_enter_stop_post(s, f)
    [] s.state = "stop-post" ->
         IF control_pid_good(s) THEN s ELSE service_enter_signal(s, "final-sigterm", f)
    [] s.state \in FinalStates ->
         IF control_pid_good(s) THEN s ELSE service_enter_dead(s, f, TRUE)

service_sigchld_main(s, f) ==
  LET r == Result([s EXCEPT !.main = "none"], f)
      t == [r EXCEPT !.main_next = 0]
  IN  IF conf.pid_file /\ Finds(s) THEN service_load_pid_file([s EXCEPT !.main = "none"])
      ELSE IF s.main_next > 0 /\ f = "success" THEN service_run_next_main(r)
      ELSE IF conf.exit_type = "main" \/ ~Populated(t) THEN MainGone(t, f)
      ELSE IF t.state = "start" /\ conf.type \notin {"notify", "dbus"}
      THEN service_enter_start_post(t)
      ELSE t

service_run_next_control(s) ==
  IF "next" \notin s.broken
    THEN [service_arm_timer(s) EXCEPT !.control = "alive", !.control_next = @ - 1]
    ELSE CASE s.state \in {"condition", "start-pre", "start-post", "stop"} ->
                service_enter_signal(s, "stop-sigterm", "failure")
           [] s.state = "stop-post" -> service_enter_dead(s, "failure", TRUE)
           [] s.state = "reload" -> service_enter_running(s, "success")
           [] OTHER -> service_enter_stop(s, "failure")

(* service_demand_pid_file(): wait for it, if there is a process left that *)
(* can write it.                                                           *)
service_demand_pid_file(s, failed) ==
  IF Populated(s) THEN [s EXCEPT !.pid_watch = TRUE] ELSE failed

(* The switch on the state for the control process.                        *)
ControlGone(s, f) ==
  CASE s.state \in {"condition", "start-pre", "start", "start-post"} /\ f # "success" ->
         service_enter_signal(s, "stop-sigterm", f)
    [] s.state = "condition" /\ f = "success" -> service_enter_start_pre(s)
    [] s.state = "start-pre" /\ f = "success" -> service_enter_start(s)
    [] s.state = "start" /\ f = "success" ->
         IF conf.pid_file /\ conf.commands["start-post"] = 0 /\ ~Finds(s)
         THEN service_demand_pid_file(s, service_enter_signal(s, "stop-sigterm", "failure"))
         ELSE service_enter_start_post(IF conf.pid_file THEN service_load_pid_file(s)
                                       ELSE service_search_main_pid(s))
    [] s.state = "start-post" /\ f = "success" ->
         IF conf.pid_file /\ ~Finds(s) /\ ~main_pid_alive(s)
         THEN service_demand_pid_file(s, service_enter_stop(s, "failure"))
         ELSE service_enter_running(IF conf.pid_file THEN service_load_pid_file(s)
                                    ELSE service_search_main_pid(s), "success")
    [] s.state = "reload" ->
         service_enter_running(IF f # "success" THEN s
                               ELSE service_search_main_pid(service_load_pid_file(s)), "success")
    [] s.state = "stop" -> service_enter_signal(s, "stop-sigterm", f)
    [] s.state \in {"stop-watchdog", "stop-sigterm", "stop-sigkill"} ->
         IF main_pid_alive(s) THEN s ELSE service_enter_stop_post(s, f)
    [] s.state = "stop-post" ->
         IF main_pid_alive(s) THEN s ELSE service_enter_signal(s, "final-sigterm", f)
    [] s.state \in FinalStates ->
         IF main_pid_alive(s) THEN s ELSE service_enter_dead(s, f, TRUE)
    [] s.state = "cleaning" -> service_enter_dead(s, "success", FALSE)

service_sigchld_control(s, f) ==
  LET g == IF s.state # "condition" /\ f = "skip" THEN "failure" ELSE f
      r == [s EXCEPT !.control = "none"]
      t == IF s.state = "reload" THEN r ELSE Result(r, g)
  IN  IF s.control_next > 0 /\ g = "success" THEN service_run_next_control(t)
      ELSE ControlGone([t EXCEPT !.control_next = 0], g)
-----------------------------------------------------------------------------
(* The other events.                                                       *)

service_notify_cgroup_empty_event(s) ==
  LET none == ~main_pid_alive(s) /\ ~control_pid_good(s)
  IN  CASE s.state = "start" /\ conf.type = "notify" /\ main_pid_dead(s) /\ none ->
             service_enter_stop_post(s, "failure")
        [] s.state = "start" /\ ~(conf.type = "notify" /\ main_pid_dead(s) /\ none)
             /\ conf.exit_type = "cgroup" /\ ~main_pid_alive(s) ->
             service_enter_stop_post(s, "success")
        [] s.state = "start" /\ conf.type # "notify" /\ conf.exit_type = "main"
             /\ s.pid_watch /\ main_pid_dead(s) /\ none -> service_enter_stop_post(s, "failure")
        [] s.state = "start-post" /\ s.pid_watch /\ main_pid_dead(s) /\ none ->
             service_enter_stop(s, "failure")
        [] s.state = "running" -> service_enter_running(s, "success")
        [] s.state \in {"stop-watchdog", "stop-sigterm", "stop-sigkill"} /\ none ->
             service_enter_stop_post(s, "success")
        [] s.state \in {"stop-post"} \union FinalStates /\ none ->
             service_enter_dead(s, "success", TRUE)
        [] s.state \in {"dead", "failed"} -> Pruned(s)
        [] OTHER -> s

service_notify_cgroup_oom_event(s) ==
  LET harder == IF conf.oom_policy = "kill" THEN "stop-sigkill" ELSE "stop-sigterm"
  IN  CASE s.state \in {"condition", "start-pre", "start", "start-post", "stop"} ->
             service_enter_signal(s, harder, "failure")
        [] s.state \in {"exited", "running"} ->
             IF conf.oom_policy = "stop" THEN service_enter_stop(s, "failure")
             ELSE service_enter_signal(s, harder, "failure")
        [] s.state \in {"stop-watchdog", "stop-sigterm"} ->
             service_enter_signal(s, "stop-sigkill", "failure")
        [] s.state \in {"stop-sigkill", "final-sigkill"} -> Result(s, "failure")
        [] s.state \in {"stop-post", "final-sigterm"} ->
             service_enter_signal(s, "final-sigkill", "failure")
        [] OTHER -> s

(* "Killing", or the next step where SendSIGKILL=no.                       *)
KillOr(s, state, otherwise) ==
  IF conf.send_sigkill THEN service_enter_signal(s, state, "failure") ELSE otherwise

service_dispatch_timer(s) ==
  LET r == [s EXCEPT !.timer = FALSE]
      kill == KillOr(r, "stop-sigkill", service_enter_stop_post(r, "failure"))
      finalkill == KillOr(r, "final-sigkill", service_enter_dead(r, "failure", FALSE))
      terminated(aborting) == IF aborting THEN service_enter_signal(r, "stop-watchdog", "failure") ELSE kill
      finished(aborting) == IF aborting THEN service_enter_signal(r, "final-watchdog", "failure") ELSE finalkill
      abort == conf.failure_mode = "abort"
  IN  CASE s.state \in {"condition", "start-pre", "start", "start-post", "stop"} ->
             IF conf.failure_mode = "terminate" THEN service_enter_signal(r, "stop-sigterm", "failure")
             ELSE terminated(abort)
        [] s.state = "running" -> service_enter_stop(r, "failure")
        [] s.state = "reload" -> service_enter_running(r, "success")
        [] s.state = "stop-watchdog" -> kill
        [] s.state = "stop-sigterm" -> terminated(abort)
        [] s.state = "stop-sigkill" -> service_enter_stop_post(r, "failure")
        [] s.state = "stop-post" ->
             IF conf.failure_mode = "terminate" THEN service_enter_signal(r, "final-sigterm", "failure")
             ELSE finished(abort)
        [] s.state = "final-watchdog" -> finalkill
        [] s.state = "final-sigterm" -> finished(abort)
        [] s.state = "final-sigkill" -> service_enter_dead(r, "failure", TRUE)
        [] s.state = "auto-restart" -> service_enter_restart(r)
        [] s.state = "cleaning" -> service_enter_signal(r, "final-sigkill", "success")

service_dispatch_watchdog(s) == service_enter_signal(s, "stop-watchdog", "failure")

service_notify_message(s, tag) ==
  CASE tag = "READY" ->
         LET r == [s EXCEPT !.notify_state = "ready"]
             t == IF conf.type = "notify" /\ s.state = "start" THEN service_enter_start_post(r) ELSE r
         IN  IF t.state = "reload" /\ ~control_pid_good(t)
               THEN service_enter_running(t, "success") ELSE t
    [] tag = "RELOADING" ->
         LET r == [s EXCEPT !.notify_state = "reloading"]
         IN  IF s.state = "running" THEN service_enter_reload_by_notify(r) ELSE r
    [] tag = "STOPPING" ->
         LET r == [s EXCEPT !.notify_state = "stopping"]
         IN  IF s.state = "running" THEN service_enter_stop_by_notify(r) ELSE r
    [] tag = "MAINPID" ->
         IF Finds(s) /\ s.state \in {"start", "start-post", "running", "reload"}
           THEN Adopt(s) ELSE s
    [] tag = "WATCHDOG" -> service_dispatch_watchdog(s)

service_bus_name_owner_change(s, owned) ==
  LET r == [s EXCEPT !.bus_name_good = owned]
  IN  CASE s.state = "running" -> service_enter_running(r, "success")
        [] s.state = "start" /\ owned -> service_enter_start_post(r)
        [] OTHER -> r

service_clean(s) ==
  service_set_state([service_arm_timer(s) EXCEPT !.control = "alive", !.stopped = FALSE], "cleaning")

service_reset_failed(s) ==
  [(IF s.state = "failed" THEN service_set_state(s, "dead") ELSE s) EXCEPT !.result = "success"]
-----------------------------------------------------------------------------
(* Steps.  What fork() and the search for the main process will do is      *)
(* chosen when a step begins and forgotten when it ends.                   *)

Failures ==
  {{}} \union
  IF others = MaxOthers THEN {}
  ELSE {Commands \union {"next", "restart"}} \union
       { {c} : c \in {"next"} \union { x \in Commands : conf.commands[x] > 0 } }

Findings ==
  IF svc.stray /\ conf.type \in {"forking", "notify"}
    THEN {"no", "the only one", "one of several"} ELSE {"no"}

Chosen(b, f) == [svc EXCEPT !.broken = b, !.found = f]

Chances == { Chosen(b, f) : b \in Failures, f \in Findings }

Step(s, cost) ==
  /\ svc' = [s EXCEPT !.broken = {}, !.found = "no",
                      !.changed = @ \/ Populated(svc) # Populated(s)]
  /\ others' = others + cost
  /\ UNCHANGED conf

Becomes(s) == Step(s, IF s.broken = {} THEN 0 ELSE 1)
Other(s) == others < MaxOthers /\ Step(s, 1)

(* job_run_and_invalidate(); a job that has to wait (-EAGAIN) does so.     *)
Runnable ==
  /\ svc.job # "none" /\ ~svc.running
  /\ svc.job = "start" =>
       /\ ActiveState(svc.state) \notin {"deactivating", "maintenance"}
       /\ svc.state # "auto-restart"
  /\ svc.job = "reload" => ActiveState(svc.state) # "reloading"

job_run_and_invalidate ==
  /\ Runnable
  /\ \E c \in Chances :
       LET s == [c EXCEPT !.running = TRUE]
           ns == ActiveState(s.state)
       IN  \/ /\ s.job = "start" /\ ns \in {"active", "reloading"}
              /\ Becomes(job_finish_and_invalidate(s))
           \/ s.job = "start" /\ ns = "activating" /\ Becomes(s)
           \/ s.job = "start" /\ ns \in Inactive /\ Becomes(service_start(s))
           \/ /\ s.job \in {"stop", "restart"}
              /\ Becomes(IF ns \in Inactive THEN unit_notify(s) ELSE service_stop(s))
           \/ /\ s.job = "reload"
              /\ Becomes(IF ns = "active" THEN service_enter_reload(s)
                         ELSE job_finish_and_invalidate(s))

Outcome(p) == IF p = "ok" THEN "success" ELSE IF p = "skip" THEN "skip" ELSE "failure"

Zombies == svc.main \notin {"none", "alive"} \/ svc.control \notin {"none", "alive"}

service_sigchld_event ==
  /\ \E c \in Chances :
       \/ c.main \in {"ok", "failed"} /\ Becomes(service_sigchld_main(c, Outcome(c.main)))
       \/ c.control \in {"ok", "failed", "skip"}
            /\ Becomes(service_sigchld_control(c, Outcome(c.control)))

on_cgroup_inotify_event ==
  /\ svc.changed
  /\ Becomes([svc EXCEPT !.changed = FALSE, !.empty = ~Populated(svc)])

on_cgroup_empty_event ==
  /\ svc.empty
  /\ \E c \in Chances : Becomes(service_notify_cgroup_empty_event([c EXCEPT !.empty = FALSE]))

Timer ==
  /\ svc.timer
  /\ \E c \in Chances : Becomes(service_dispatch_timer(c))
-----------------------------------------------------------------------------
(* What the processes do.                                                  *)

Ends(p, outcome) ==
  /\ svc[p] = "alive"
  /\ outcome = "skip" => p = "control" /\ svc.state = "condition"
  /\ Becomes([svc EXCEPT ![p] = outcome])

Forks ==
  /\ ~svc.stray /\ Populated(svc)
  /\ Becomes([svc EXCEPT !.stray = TRUE])

StraysEnd ==
  /\ svc.stray
  /\ Becomes([svc EXCEPT !.stray = FALSE])

(* READY=1, execve(), the PID file and the bus name.                       *)
IsUp ==
  /\ \E c \in Chances :
       \/ /\ conf.type = "notify" /\ svc.main # "none"
          /\ Becomes(service_notify_message(c, "READY"))
       \/ /\ conf.type = "exec" /\ svc.state = "start" /\ svc.main # "none"
          /\ Becomes(service_enter_start_post(c))
       \/ /\ conf.type = "dbus" /\ Populated(svc) /\ ~svc.bus_name_good
          /\ Becomes(service_bus_name_owner_change(c, TRUE))
       \/ /\ svc.pid_watch /\ Finds(c)
          /\ Becomes(service_enter_running(Adopt(c), "success"))

(* The bus drops the name when the process is gone.                        *)
NameLost ==
  /\ svc.bus_name_good
  /\ \E c \in Chances :
       LET s == service_bus_name_owner_change(c, FALSE)
       IN  IF Populated(svc) THEN Other(s) ELSE Becomes(s)

(* What users and the service ask for.                                     *)
Request(job) ==
  /\ svc.job # job
  /\ job = "reload" => svc.job = "none" /\ conf.commands["reload"] > 0
  /\ Other(job_install(svc, job))

Cancel == svc.job # "none" /\ Other(job_finish_and_invalidate(svc))

Message(tag) ==
  /\ svc.main # "none" /\ conf.type = "notify"
  /\ \E c \in Chances : Other(service_notify_message(c, tag))

OutOfMemory ==
  /\ conf.oom_policy # "continue"
  /\ Populated(svc) \/ Zombies \/ svc.changed \/ svc.empty
  /\ \E c \in Chances : Other(service_notify_cgroup_oom_event(c))

(* unit_start() asks service_can_start() first, whatever the unit is doing.*)
start_limit_hit ==
  /\ svc.job = "start" /\ ~svc.running
  /\ ActiveState(svc.state) \in {"activating", "deactivating"} \union Inactive
  /\ Other(service_can_start_limit(svc))

Watchdog ==
  /\ conf.watchdog /\ svc.state \in {"start-post", "running", "reload"}
  /\ \E c \in Chances : Other(service_dispatch_watchdog(c))

Clean == svc.state = "dead" /\ svc.job = "none" /\ Other(service_clean(svc))

ResetFailed == svc.result # "success" /\ Other(service_reset_failed(svc))
-----------------------------------------------------------------------------
Manager == job_run_and_invalidate \/ service_sigchld_event \/ on_cgroup_inotify_event
             \/ on_cgroup_empty_event \/ Timer

Processes ==
  \/ \E p \in {"main", "control"}, outcome \in {"ok", "failed", "skip"} : Ends(p, outcome)
  \/ Forks \/ StraysEnd \/ IsUp \/ NameLost

Others ==
  \/ \E job \in {"start", "stop", "restart", "reload"} : Request(job)
  \/ \E tag \in {"RELOADING", "STOPPING", "MAINPID", "WATCHDOG"} : Message(tag)
  \/ Cancel \/ start_limit_hit \/ OutOfMemory \/ Watchdog \/ Clean \/ ResetFailed

Next == Manager \/ Processes \/ Others

(* The event loop serves every source in the end; processes, users and the *)
(* bus owe nothing.  The steps always change the unit, so that each is     *)
(* enabled when its condition holds.                                       *)
Fair ==
  /\ []<>~Runnable \/ []<><<job_run_and_invalidate>>_vars
  /\ []<>~Zombies \/ []<><<service_sigchld_event>>_vars
  /\ []<>~svc.changed \/ []<><<on_cgroup_inotify_event>>_vars
  /\ []<>~svc.empty \/ []<><<on_cgroup_empty_event>>_vars
  /\ []<>~svc.timer \/ []<><<Timer>>_vars

Spec == Init /\ [][Next]_vars /\ Fair
-----------------------------------------------------------------------------
(* Properties.                                                             *)

(* Nothing is left to happen by itself.                                    *)
Quiet ==
  /\ ~Populated(svc) /\ ~Zombies
  /\ ~svc.changed /\ ~svc.empty /\ ~svc.timer /\ ~Runnable

(* What a service waits for although nobody is left to do it: a restart    *)
(* whose job was cancelled or skipped, the PID file of a main process that *)
(* never was known, and READY=1 after RELOADING=1 with ExitType=cgroup.    *)
Stranded == svc.state = "auto-restart" /\ ~svc.timer
Unread == svc.pid_watch /\ ~svc.main_pid_known
Unready == svc.state = "reload" /\ conf.exit_type = "cgroup"

(* In whatever order the ends of the main process, of control processes    *)
(* and of the rest of the control group are noticed, a service none of     *)
(* whose processes is left does not hang in a state in which it waits for  *)
(* one of them (but for the three cases above): service_sigchld_event()    *)
(* and service_notify_cgroup_empty_event() together miss nothing, even     *)
(* with all time-outs set to infinity.                                     *)
NoneLeft ==
  Quiet => svc.state \in {"dead", "failed", "exited"} \/ Stranded \/ Unread \/ Unready

(* Once service_stop() was called, or while a stop job waits, the end of   *)
(* the service does not lead to an automatic restart, however many states  *)
(* and failures it takes until service_enter_dead() decides; only a new    *)
(* start or a clean-up of its directories lifts that.                      *)
StoppedStaysDown ==
  [][svc'.state = "auto-restart" /\ svc.state # "auto-restart" =>
       ~svc'.stopped /\ svc.job # "stop"]_vars

(* With finite time-outs every job ends, even if no process reacts to any  *)
(* signal: each state that a job waits for has its timer, and the timers   *)
(* lead on from state to state (service_dispatch_timer()).  A start job    *)
(* that found the service in auto-restart waits for the timer in vain if   *)
(* that has already gone off.                                              *)
JobsEnd == (conf.timeout /\ svc.job # "none") ~> (svc.job = "none" \/ Stranded)
=============================================================================
