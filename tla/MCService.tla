------------------------------ MODULE MCService ------------------------------
EXTENDS Service

(* Unit files that between them use every setting, each with and without   *)
(* time-outs.                                                              *)
Plain ==
  [type |-> "simple", exit_type |-> "main", restart |-> "no", kill_mode |-> "control-group",
   failure_mode |-> "terminate", oom_policy |-> "continue", remain_after_exit |-> FALSE,
   pid_file |-> FALSE, send_sigkill |-> TRUE, timeout |-> FALSE, runtime_max |-> FALSE,
   watchdog |-> FALSE, commands |-> [c \in Commands |-> IF c = "start" THEN 1 ELSE 0]]

Simple ==
  [Plain EXCEPT !.restart = "always", !.oom_policy = "stop", !.runtime_max = TRUE,
                !.commands["stop"] = 1, !.commands["stop-post"] = 2, !.commands["reload"] = 1]

Forking ==
  [Plain EXCEPT !.type = "forking", !.restart = "on-failure", !.kill_mode = "mixed",
                !.failure_mode = "abort", !.commands["reload"] = 1]

Daemon == [Forking EXCEPT !.pid_file = TRUE, !.restart = "no", !.commands["start-post"] = 1]

Oneshot ==
  [Plain EXCEPT !.type = "oneshot", !.restart = "on-failure", !.remain_after_exit = TRUE,
                !.commands["condition"] = 1, !.commands["start-pre"] = 2,
                !.commands["start"] = 2, !.send_sigkill = FALSE]

Notify ==
  [Plain EXCEPT !.type = "notify", !.watchdog = TRUE, !.failure_mode = "kill",
                !.oom_policy = "kill", !.restart = "on-success", !.commands["start-post"] = 1]

Exec == [Plain EXCEPT !.type = "exec", !.kill_mode = "process", !.send_sigkill = FALSE,
                      !.failure_mode = "kill", !.commands["stop-post"] = 1]

DBus == [Plain EXCEPT !.type = "dbus", !.kill_mode = "none", !.restart = "always"]

UnitFiles ==
  {Simple, Forking, Daemon, Oneshot, Notify, Exec, DBus,
   [Oneshot EXCEPT !.commands = [@ EXCEPT !["start"] = 0]],
   [Daemon EXCEPT !.commands["start-post"] = 0, !.failure_mode = "kill"],
   [Forking EXCEPT !.exit_type = "cgroup"], [Notify EXCEPT !.exit_type = "cgroup"],
   [Exec EXCEPT !.exit_type = "cgroup"], [DBus EXCEPT !.exit_type = "cgroup"]}

MCConfigs == { [u EXCEPT !.timeout = t] : u \in UnitFiles, t \in BOOLEAN }
=============================================================================
