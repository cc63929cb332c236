---------------------------- MODULE ServiceProofs ----------------------------
(***************************************************************************)
(* Proofs about Service: for every unit file, whatever the order in which  *)
(* the ends of processes, the news of the control group, timers, messages  *)
(* and jobs are handled, a service none of whose processes is left waits   *)
(* for none of them, and a service that was stopped is not restarted.      *)
(*                                                                         *)
(* The functions that enter a state need to know next to nothing of the    *)
(* state they leave (Sound) and leave the service Settled: each state that *)
(* waits has something to wait for.  Only the handlers that stay in a      *)
(* state have to know what else it waits for.                              *)
(***************************************************************************)
EXTENDS Service, Integers, TLAPS

States ==
  {"dead", "condition", "start-pre", "start", "start-post", "running", "exited", "reload",
   "auto-restart", "cleaning", "failed"} \union StopStates \union FinalStates

Record ==
  [state : States, result : {"success", "skip", "failure"}, forbid_restart : BOOLEAN,
   notify_state : {"unknown", "ready", "reloading", "stopping"}, bus_name_good : BOOLEAN,
   timer : BOOLEAN, main : {"none", "alive", "ok", "failed"}, main_pid_known : BOOLEAN,
   main_next : Int, control : {"none", "alive", "ok", "failed", "skip"}, control_next : Int,
   pid_watch : BOOLEAN, job : {"none", "start", "stop", "restart", "reload"}, running : BOOLEAN,
   stray : BOOLEAN, changed : BOOLEAN, empty : BOOLEAN,
   broken : SUBSET (Commands \union {"next", "restart"}),
   found : {"no", "the only one", "one of several"}, stopped : BOOLEAN]

Unmain == {"dead", "condition", "start-pre", "exited", "failed", "auto-restart", "cleaning"}
Uncontrol == {"dead", "running", "exited", "failed", "auto-restart"}
Over == {"dead", "failed", "exited"}

(* A main process that is watched, or that has sent a message, is known.   *)
Sound(s) ==
  /\ s \in Record
  /\ s.main # "none" => s.main_pid_known = TRUE
  /\ s.notify_state # "unknown" => s.main_pid_known = TRUE

(* A process is to be reaped, or the control group will be found empty.    *)
Stirs(s) ==
  s.main # "none" \/ s.control # "none" \/ s.stray = TRUE \/ s.changed = TRUE \/ s.empty = TRUE

(* Something can write the PID file, or the service is Unread.             *)
Awaits(s) == s.pid_watch = TRUE /\ (Stirs(s) \/ s.main_pid_known = FALSE)

(* What each state waits for.                                              *)
Waits(s) ==
  /\ s.state \in {"condition", "start-pre", "stop", "cleaning"} => s.control # "none"
  /\ s.state = "start" =>
       \/ s.control # "none" \/ s.main # "none"
       \/ Awaits(s)
       \/ conf.exit_type = "cgroup" /\ Stirs(s)
  /\ s.state = "start-post" => s.control # "none" \/ Awaits(s)
  /\ s.state = "reload" =>
       s.control # "none" \/ s.main # "none" \/ conf.exit_type = "cgroup"
  /\ s.state \in {"running", "stop-watchdog", "stop-sigterm", "stop-sigkill", "stop-post"}
                   \union FinalStates => Stirs(s)

(* What a state has no use for is not there.                               *)
Tidy(s) ==
  /\ s.state \in Unmain => s.main = "none"
  /\ s.state \in Uncontrol => s.control = "none"
  /\ s.state \in Over => s.timer = FALSE
  /\ s.pid_watch = TRUE => conf.pid_file = TRUE /\ s.state \in {"start", "start-post"}
  /\ s.state \in {"dead", "failed"} => ~(s.job = "stop" /\ s.running = TRUE)

Settled(s) == Sound(s) /\ Waits(s) /\ Tidy(s)

(* A stop is remembered until the service is down.                         *)
Firm(s) == s.stopped = TRUE => s.forbid_restart = TRUE

Remembers(s) ==
  /\ s.state \notin {"dead", "failed"} => Firm(s)
  /\ s.state = "auto-restart" => s.stopped = FALSE
  /\ s.job = "stop" /\ s.running = TRUE => s.stopped = TRUE

IInv == conf \in Configs /\ Settled(svc) /\ Remembers(svc)

-----------------------------------------------------------------------------
(* Steps of the functions *)

(* A restart is ruled out.                                                 *)
Held(s) == s.forbid_restart = TRUE \/ (s.job = "stop" /\ s.running = FALSE)

(* What matters for that is left alone.                                    *)
Same(s, t) ==
  /\ t.forbid_restart = s.forbid_restart /\ t.stopped = s.stopped
  /\ t.job = s.job /\ t.running = s.running

Keeps(s, t) ==
  /\ Held(s) => t.state # "auto-restart" /\ (t.state \in {"dead", "failed"} \/ Held(t))
  /\ t.stopped = s.stopped
  /\ Firm(s) => t.state \in {"dead", "failed"} \/ Firm(t)
  /\ t.job = "stop" /\ t.running = TRUE => s.job = "stop" /\ s.running = TRUE

Prepares(s, t) == Sound(t) /\ Same(s, t)
Leads(s, t) == Settled(t) /\ Keeps(s, t)

(* A function that enters a state may be called after one that prepares    *)
(* the unit for it.                                                        *)
LEMMA Then ==
  ASSUME NEW s, NEW t, NEW u, Prepares(s, t), Leads(t, u)
  PROVE  Leads(s, u)
BY DEF Prepares, Leads, Same, Keeps, Held, Firm

LEMMA ThenLeads ==
  ASSUME NEW s, NEW t, NEW u, Leads(s, t), t.state \notin {"dead", "failed"}, Leads(t, u)
  PROVE  Leads(s, u)
BY DEF Leads, Keeps, Held, Firm

LEMMA ThenPrepares ==
  ASSUME NEW s, NEW t, NEW u, Prepares(s, t), Prepares(t, u)
  PROVE  Prepares(s, u)
BY DEF Prepares, Same

(* The settings of a unit file (service_verify()).                         *)
LEMMA Settings ==
  ASSUME conf \in Configs
  PROVE  /\ conf.timeout \in BOOLEAN /\ conf.runtime_max \in BOOLEAN
         /\ conf.pid_file \in BOOLEAN /\ conf.send_sigkill \in BOOLEAN
         /\ conf.remain_after_exit \in BOOLEAN
         /\ \A c \in Commands : conf.commands[c] \in Nat
         /\ conf.exit_type \in {"main", "cgroup"}
         /\ conf.pid_file = TRUE => conf.type = "forking"
         /\ conf.type \in {"simple", "exec", "forking", "oneshot", "notify", "dbus"}
         /\ conf.restart \in {"no", "always", "on-success", "on-failure"}
<1>1. conf.commands \in [Commands -> Nat]
  BY ConfigAssumption
<1>2. {conf.remain_after_exit, conf.pid_file, conf.send_sigkill, conf.timeout, conf.runtime_max,
       conf.watchdog} \subseteq BOOLEAN
  BY ConfigAssumption
<1>3. /\ conf.timeout \in BOOLEAN /\ conf.runtime_max \in BOOLEAN
      /\ conf.pid_file \in BOOLEAN /\ conf.send_sigkill \in BOOLEAN
      /\ conf.remain_after_exit \in BOOLEAN
  BY <1>2
<1>4. conf.pid_file = TRUE => conf.type = "forking"
  BY ConfigAssumption
<1>5. /\ conf.type \in {"simple", "exec", "forking", "oneshot", "notify", "dbus"}
      /\ conf.restart \in {"no", "always", "on-success", "on-failure"}
      /\ conf.exit_type \in {"main", "cgroup"}
  BY ConfigAssumption
<1> QED
  BY <1>1, <1>3, <1>4, <1>5

(* The questions that the functions ask.                                   *)
LEMMA Questions ==
  ASSUME NEW s \in Record
  PROVE  /\ Populated(s) <=> (s.stray = TRUE \/ s.main = "alive" \/ s.control = "alive")
         /\ main_pid_alive(s) <=> (s.main_pid_known = TRUE /\ s.main # "none")
         /\ main_pid_dead(s) <=> (s.main_pid_known = TRUE /\ s.main = "none")
         /\ control_pid_good(s) <=> s.control # "none"
         /\ Finds(s) <=> (s.found # "no" /\ s.stray = TRUE)
         /\ Populated(s) \in BOOLEAN
<1>1. s.stray \in BOOLEAN /\ s.main_pid_known \in BOOLEAN
  BY DEF Record
<1> QED
  BY <1>1, Zenon DEF Populated, main_pid_alive, main_pid_dead, control_pid_good, Finds

-----------------------------------------------------------------------------
(* Functions that change a few fields *)

Results == {"success", "skip", "failure"}

(* Nothing that a state waits for changes.                                 *)
Body(s, t) ==
  /\ t.state = s.state /\ t.main = s.main /\ t.control = s.control
  /\ t.main_pid_known = s.main_pid_known /\ t.notify_state = s.notify_state
  /\ t.stray = s.stray /\ t.changed = s.changed /\ t.empty = s.empty
  /\ t.pid_watch = s.pid_watch /\ t.broken = s.broken /\ t.found = s.found

LEMMA ResultOf ==
  ASSUME NEW s, Sound(s), NEW f \in Results
  PROVE  Prepares(s, Result(s, f)) /\ Body(s, Result(s, f)) /\ Result(s, f).timer = s.timer
<1> DEFINE x == IF s.result = "success" THEN f ELSE s.result
           r == [s EXCEPT !.result = x]
<1>1. s \in Record /\ x \in Results
  BY DEF Sound, Record, Results
<1>2. Result(s, f) = r
  BY DEF Result
<1> HIDE DEF x
<1>3. r \in Record
  BY <1>1, Zenon DEF Record, Results
<1>4. Body(s, r) /\ Same(s, r) /\ r.timer = s.timer
  BY <1>1 DEF Record, Body, Same
<1> HIDE DEF r
<1>5. Sound(r)
  BY <1>3, <1>4, Zenon DEF Sound, Body
<1> QED
  BY <1>2, <1>4, <1>5 DEF Prepares

LEMMA Armed ==
  ASSUME conf \in Configs, NEW s, Sound(s)
  PROVE  /\ Prepares(s, service_arm_timer(s)) /\ Body(s, service_arm_timer(s))
         /\ service_arm_timer(s).timer \in BOOLEAN
<1> DEFINE r == [s EXCEPT !.timer = conf.timeout]
<1>1. s \in Record /\ conf.timeout \in BOOLEAN
  BY Settings DEF Sound
<1>2. service_arm_timer(s) = r
  BY DEF service_arm_timer
<1>3. r \in Record
  BY <1>1, ZenonT(40) DEF Record
<1>4. Body(s, r) /\ Same(s, r) /\ r.timer = conf.timeout
  BY <1>1 DEF Record, Body, Same
<1> HIDE DEF r
<1>5. Sound(r)
  BY <1>3, <1>4, Zenon DEF Sound, Body
<1> QED
  BY <1>1, <1>2, <1>4, <1>5 DEF Prepares

LEMMA UnwatchControl ==
  ASSUME NEW s, Sound(s), NEW r, r = service_unwatch_control_pid(s)
  PROVE  /\ Prepares(s, r) /\ r.control = "none" /\ r.main = s.main
         /\ r.main_pid_known = s.main_pid_known /\ r.notify_state = s.notify_state
         /\ r.broken = s.broken /\ r.state = s.state /\ r.result = s.result
<1> DEFINE x == s.stray \/ s.control = "alive"
<1>1. s \in Record /\ s.stray \in BOOLEAN
  BY DEF Sound, Record
<1>2. x \in BOOLEAN
  BY <1>1, Zenon
<1>3. r = [s EXCEPT !.stray = x, !.control = "none"]
  BY Zenon DEF service_unwatch_control_pid
<1> HIDE DEF x
<1>4. r \in Record
  BY <1>1, <1>2, <1>3, ZenonT(40) DEF Record
<1>5. /\ r.control = "none" /\ r.main = s.main /\ r.state = s.state /\ r.result = s.result
      /\ r.main_pid_known = s.main_pid_known /\ r.notify_state = s.notify_state
      /\ r.broken = s.broken /\ Same(s, r)
  BY <1>1, <1>3 DEF Record, Same
<1>6. Sound(r)
  BY <1>4, <1>5, Zenon DEF Sound
<1> QED
  BY <1>5, <1>6 DEF Prepares

LEMMA UnwatchMain ==
  ASSUME NEW s, Sound(s), NEW r, r = service_unwatch_main_pid(s)
  PROVE  /\ Prepares(s, r) /\ r.main = "none" /\ r.control = s.control
         /\ r.main_pid_known = s.main_pid_known /\ r.notify_state = s.notify_state
         /\ r.broken = s.broken /\ r.state = s.state /\ r.pid_watch = s.pid_watch
         /\ r.timer = s.timer
<1> DEFINE x == s.stray \/ s.main = "alive"
<1>1. s \in Record /\ s.stray \in BOOLEAN
  BY DEF Sound, Record
<1>2. x \in BOOLEAN
  BY <1>1, Zenon
<1>3. r = [s EXCEPT !.stray = x, !.main = "none"]
  BY Zenon DEF service_unwatch_main_pid
<1> HIDE DEF x
<1>4. r \in Record
  BY <1>1, <1>2, <1>3, ZenonT(40) DEF Record
<1>5. /\ r.main = "none" /\ r.control = s.control /\ r.state = s.state
      /\ r.main_pid_known = s.main_pid_known /\ r.notify_state = s.notify_state
      /\ r.broken = s.broken /\ Same(s, r) /\ r.pid_watch = s.pid_watch /\ r.timer = s.timer
  BY <1>1, <1>3 DEF Record, Same
<1>6. Sound(r)
  BY <1>4, <1>5, Zenon DEF Sound
<1> QED
  BY <1>5, <1>6 DEF Prepares

(* service_set_main_pid() leaves the state what it waits for.              *)
LEMMA Adopted ==
  ASSUME NEW s, Sound(s), NEW r, r = Adopt(s)
  PROVE  /\ Prepares(s, r) /\ r.main = "alive" /\ r.main_pid_known = TRUE
         /\ r.control = s.control /\ r.state = s.state
         /\ r.broken = s.broken /\ r.notify_state = s.notify_state
         /\ r.pid_watch = s.pid_watch /\ r.timer = s.timer
<1> DEFINE x == (s.found = "one of several")
           q == [s EXCEPT !.stray = x]
           t == service_unwatch_main_pid(q)
<1>1. s \in Record /\ x \in BOOLEAN
  BY DEF Sound
<1>2. r = [t EXCEPT !.main = "alive", !.main_pid_known = TRUE]
  BY DEF Adopt
<1> HIDE DEF x
<1>3. q \in Record
  BY <1>1, ZenonT(40) DEF Record
<1>4. /\ Same(s, q) /\ q.state = s.state /\ q.main = s.main /\ q.control = s.control
      /\ q.main_pid_known = s.main_pid_known /\ q.notify_state = s.notify_state
      /\ q.broken = s.broken /\ q.pid_watch = s.pid_watch /\ q.timer = s.timer
  BY <1>1 DEF Record, Same
<1> HIDE DEF q
<1>5. Sound(q)
  BY <1>3, <1>4, Zenon DEF Sound
<1>6. /\ Prepares(q, t) /\ t.control = q.control /\ t.notify_state = q.notify_state
      /\ t.broken = q.broken /\ t.state = q.state /\ t.pid_watch = q.pid_watch /\ t.timer = q.timer
  BY <1>5, UnwatchMain
<1> HIDE DEF t
<1>7. t \in Record
  BY <1>6 DEF Prepares, Sound
<1>8. r \in Record
  BY <1>2, <1>7, ZenonT(40) DEF Record
<1>9. /\ r.main = "alive" /\ r.main_pid_known = TRUE /\ r.control = t.control /\ r.state = t.state
      /\ r.broken = t.broken /\ r.notify_state = t.notify_state
      /\ r.pid_watch = t.pid_watch /\ r.timer = t.timer /\ Same(t, r)
  BY <1>2, <1>7 DEF Record, Same
<1>10. Sound(r)
  BY <1>8, <1>9 DEF Sound
<1> QED
  BY <1>4, <1>6, <1>9, <1>10 DEF Prepares, Same

-----------------------------------------------------------------------------
(* The state and the job *)

(* What unit_process_job() leaves, told that the unit is now ns.          *)
Told(s, ns, t) ==
  /\ Sound(t) /\ Body(s, t) /\ t.timer = s.timer
  /\ t.forbid_restart = s.forbid_restart /\ t.stopped = s.stopped /\ t.result = s.result
  /\ t.job = "stop" /\ t.running = TRUE => s.job = "stop" /\ s.running = TRUE
  /\ s.job = "stop" /\ s.running = FALSE /\ ns \notin Inactive =>
       t.job = "stop" /\ t.running = FALSE
  /\ ns \in Inactive => t.job # "stop"

(* unit_process_job() ends a job or turns it over; a waiting stop job only *)
(* ends when the unit is down.                                             *)
LEMMA Processed ==
  ASSUME NEW s, Sound(s), NEW ns, NEW t, t = unit_process_job(s, ns)
  PROVE  Told(s, ns, t)
<1> USE DEF Told
<1> DEFINE over == \/ s.job = "start" /\ (ns \in {"active", "reloading"} \/ (s.running /\ ns \in Inactive))
                   \/ s.job = "stop" /\ (ns \in Inactive \/ (s.running /\ ns # "deactivating"))
                   \/ s.job = "restart" /\ s.running /\ ns \notin {"deactivating"} \union Inactive
                   \/ s.job = "reload" /\ s.running /\ ns \in {"active"} \union Inactive
<1>1. s \in Record
  BY DEF Sound
<1>2. t = IF over THEN [s EXCEPT !.job = "none", !.running = FALSE]
          ELSE IF s.job = "restart" /\ ns \in Inactive
          THEN [s EXCEPT !.job = "start", !.running = FALSE] ELSE s
  BY Zenon DEF unit_process_job, job_finish_and_invalidate
<1>3. over => ~(s.job = "stop" /\ s.running = FALSE /\ ns \notin Inactive)
  BY Zenon
<1>4. ~over => ~(s.job = "stop" /\ ns \in Inactive)
  BY Zenon
<1> HIDE DEF over
<1>5. ASSUME NEW j \in {"none", "start"}, t = [s EXCEPT !.job = j, !.running = FALSE]
      PROVE  /\ t \in Record /\ Body(s, t) /\ t.timer = s.timer
             /\ t.forbid_restart = s.forbid_restart /\ t.stopped = s.stopped /\ t.result = s.result
             /\ t.job # "stop"
  <2>1. t \in Record
    BY <1>1, <1>5, ZenonT(40) DEF Record
  <2>2. /\ Body(s, t) /\ t.timer = s.timer /\ t.job = j
        /\ t.forbid_restart = s.forbid_restart /\ t.stopped = s.stopped /\ t.result = s.result
    BY <1>1, <1>5 DEF Record, Body
  <2> QED
    BY <2>1, <2>2
<1>6. CASE t = s
  <2>1. ~(s.job = "stop" /\ ns \in Inactive)
    <3>1. CASE over
      <4>1. s.job = "none"
        BY <1>1, <1>2, <1>6, <3>1 DEF Record
      <4> QED
        BY <4>1
    <3> QED
      BY <3>1, <1>4
  <2> QED
    BY <1>6, <2>1 DEF Body
<1>7. CASE t # s
  <2>1. t = [s EXCEPT !.job = "none", !.running = FALSE] \/ t = [s EXCEPT !.job = "start", !.running = FALSE]
    BY <1>2, <1>7, Zenon
  <2>2. /\ t \in Record /\ Body(s, t) /\ t.timer = s.timer
        /\ t.forbid_restart = s.forbid_restart /\ t.stopped = s.stopped /\ t.result = s.result
        /\ t.job # "stop"
    BY <2>1, <1>5, Zenon
  <2>3. ~(s.job = "stop" /\ s.running = FALSE /\ ns \notin Inactive)
    BY <1>2, <1>3, <1>7
  <2> QED
    BY <2>2, <2>3 DEF Sound, Body
<1> QED
  BY <1>6, <1>7

(* What service_set_state() does.                                          *)
Entered(s, t, state) ==
  /\ Sound(t) /\ Tidy(t) /\ t.state = state /\ t.pid_watch = FALSE
  /\ state \notin Unmain => t.main = s.main
  /\ state \notin Uncontrol => t.control = s.control
  /\ s.stray = TRUE => t.stray = TRUE
  /\ t.main_pid_known = s.main_pid_known /\ t.notify_state = s.notify_state
  /\ t.broken = s.broken /\ t.result = s.result
  /\ t.forbid_restart = s.forbid_restart /\ t.stopped = s.stopped
  /\ t.job = "stop" /\ t.running = TRUE => s.job = "stop" /\ s.running = TRUE
  /\ s.job = "stop" /\ s.running = FALSE /\ state \notin {"dead", "failed"} =>
       t.job = "stop" /\ t.running = FALSE

LEMMA SetState ==
  ASSUME NEW s, Sound(s), NEW state \in States, NEW t, t = service_set_state(s, state)
  PROVE  Entered(s, t, state)
<1> DEFINE timer == s.timer /\ ~(state \in Over)
           stray == s.stray \/ (state \in Unmain /\ s.main = "alive")
                      \/ (state \in Uncontrol /\ s.control = "alive")
           changed == s.changed /\ (~(state \in Over) \/ Populated(s))
           main == IF state \in Unmain THEN "none" ELSE s.main
           mainnext == IF state \in Unmain THEN 0 ELSE s.main_next
           control == IF state \in Uncontrol THEN "none" ELSE s.control
           controlnext == IF state \in Uncontrol THEN 0 ELSE s.control_next
           q == [s EXCEPT !.state = state, !.pid_watch = FALSE, !.timer = timer,
                          !.main = main, !.main_next = mainnext,
                          !.control = control, !.control_next = controlnext,
                          !.stray = stray, !.changed = changed]
<1>1. s \in Record
  BY DEF Sound
<1>2. t = unit_process_job(q, ActiveState(q.state))
  BY Zenon DEF service_set_state, unit_notify, Unmain, Uncontrol, Over
<1>3. s.timer \in BOOLEAN /\ s.stray \in BOOLEAN /\ s.changed \in BOOLEAN
  BY <1>1 DEF Record
<1>4. /\ timer \in BOOLEAN /\ stray \in BOOLEAN /\ changed \in BOOLEAN
      /\ state \in Over => timer = FALSE
      /\ s.stray = TRUE => stray = TRUE
  BY <1>3, Zenon
<1>5. /\ main \in {"none", "alive", "ok", "failed"} /\ mainnext \in Int
      /\ control \in {"none", "alive", "ok", "failed", "skip"} /\ controlnext \in Int
  <2>1. /\ s.main \in {"none", "alive", "ok", "failed"} /\ s.main_next \in Int
        /\ s.control \in {"none", "alive", "ok", "failed", "skip"} /\ s.control_next \in Int
    BY <1>1 DEF Record
  <2> QED
    BY <2>1
<1>6. /\ state \in Unmain => main = "none"
      /\ state \in Uncontrol => control = "none"
      /\ main = "none" \/ main = s.main
  OBVIOUS
<1> HIDE DEF timer, stray, changed, mainnext, controlnext, main, control
<1>7. q \in Record
  <2> DEFINE p == [s EXCEPT !.state = state, !.pid_watch = FALSE, !.timer = timer,
                            !.main = main, !.main_next = mainnext]
  <2>1. p \in Record
    BY <1>1, <1>4, <1>5, ZenonT(40) DEF Record
  <2>2. q = [p EXCEPT !.control = control, !.control_next = controlnext,
                      !.stray = stray, !.changed = changed]
    OBVIOUS
  <2> HIDE DEF p, q
  <2> QED
    BY <1>4, <1>5, <2>1, <2>2, ZenonT(40) DEF Record
<1>8. /\ q.state = state /\ q.pid_watch = FALSE /\ q.timer = timer /\ q.main = main
      /\ q.control = control /\ q.stray = stray /\ q.main_pid_known = s.main_pid_known
      /\ q.notify_state = s.notify_state /\ q.broken = s.broken /\ q.result = s.result
      /\ Same(s, q)
  BY <1>1 DEF Record, Same
<1> HIDE DEF q
<1>9. Sound(q)
  BY <1>6, <1>7, <1>8, Zenon DEF Sound
<1>10. state \in {"dead", "failed"} <=> ActiveState(q.state) \in Inactive
  BY <1>8 DEF ActiveState, Inactive, States, StopStates, FinalStates
<1>11. /\ Sound(t) /\ Body(q, t) /\ t.timer = q.timer
       /\ t.forbid_restart = q.forbid_restart /\ t.stopped = q.stopped /\ t.result = q.result
       /\ t.job = "stop" /\ t.running = TRUE => q.job = "stop" /\ q.running = TRUE
       /\ q.job = "stop" /\ q.running = FALSE /\ ActiveState(q.state) \notin Inactive =>
            t.job = "stop" /\ t.running = FALSE
       /\ ActiveState(q.state) \in Inactive => t.job # "stop"
  <2>1. Told(q, ActiveState(q.state), t)
    BY <1>2, <1>9, Processed, Zenon
  <2> QED
    BY <2>1 DEF Told
<1>12. Tidy(t)
  BY <1>4, <1>6, <1>8, <1>10, <1>11 DEF Tidy, Body
<1>13. /\ state \notin Unmain => t.main = s.main
       /\ state \notin Uncontrol => t.control = s.control
  BY <1>8, <1>11 DEF Body, main, control
<1> QED
  BY <1>4, <1>8, <1>10, <1>11, <1>12, <1>13 DEF Body, Same, Entered

-----------------------------------------------------------------------------
(* The functions that enter a state *)

LEMMA Enters ==
  ASSUME NEW s, Sound(s), NEW state \in States, state \notin {"dead", "failed", "auto-restart"},
         NEW t, t = service_set_state(s, state), Waits(t)
  PROVE  Leads(s, t)
<1>1. Entered(s, t, state)
  BY SetState
<1> QED
  BY <1>1 DEF Entered, Leads, Settled, Keeps, Held, Firm

LEMMA EnterDead ==
  ASSUME conf \in Configs, NEW s, Sound(s), NEW f \in Results, NEW allow \in BOOLEAN,
         NEW v, v = service_enter_dead(s, f, allow)
  PROVE  /\ Leads(s, v)
         /\ v.state \in {"dead", "failed", "auto-restart"}
         /\ allow = FALSE => v.state \in {"dead", "failed"}
<1> DEFINE r == Result(s, f)
           x == IF r.result = "failure" THEN "failed" ELSE "dead"
           t == service_set_state(r, x)
           q == [t EXCEPT !.timer = TRUE]
           again == allow /\ s.job # "stop" /\ service_shall_restart(r)
           u == IF again THEN service_set_state(q, "auto-restart") ELSE t
<1>1. v = [u EXCEPT !.forbid_restart = FALSE]
  BY Zenon DEF service_enter_dead, DeadOrRestart
<1>2. Sound(r) /\ Same(s, r)
  BY ResultOf DEF Prepares
<1>3. x \in {"dead", "failed"} /\ x \in States
  BY DEF States
<1>4. r.forbid_restart \in BOOLEAN
  BY <1>2 DEF Sound, Record
<1>5. again => s.job # "stop" /\ r.forbid_restart = FALSE /\ allow = TRUE
  BY <1>4, Zenon DEF service_shall_restart
<1> HIDE DEF r, x
<1>6. /\ Sound(t) /\ Tidy(t) /\ t.state = x
      /\ t.forbid_restart = r.forbid_restart /\ t.stopped = r.stopped
      /\ t.job = "stop" /\ t.running = TRUE => r.job = "stop" /\ r.running = TRUE
  <2>1. Entered(r, t, x)
    BY <1>2, <1>3, SetState
  <2> QED
    BY <2>1 DEF Entered
<1> HIDE DEF t, again
<1>7. Sound(q) /\ Same(t, q)
  <2>1. t \in Record
    BY <1>6 DEF Sound
  <2>2. q \in Record
    BY <2>1, ZenonT(40) DEF Record
  <2>3. Same(t, q) /\ Body(t, q)
    BY <2>1 DEF Record, Same, Body
  <2> HIDE DEF q
  <2> QED
    BY <1>6, <2>2, <2>3 DEF Sound, Body
<1> HIDE DEF q
<1>8. /\ Sound(u) /\ Tidy(u) /\ u.state \in {"dead", "failed", "auto-restart"}
      /\ u.state = "auto-restart" => s.job # "stop" /\ s.forbid_restart = FALSE /\ allow = TRUE
      /\ u.stopped = s.stopped
      /\ u.job = "stop" /\ u.running = TRUE => s.job = "stop" /\ s.running = TRUE
  <2>1. CASE again
    <3>1. u = service_set_state(q, "auto-restart") /\ "auto-restart" \in States
      BY <2>1 DEF States
    <3> HIDE DEF u
    <3>2. /\ Sound(u) /\ Tidy(u) /\ u.state = "auto-restart" /\ u.stopped = q.stopped
          /\ u.job = "stop" /\ u.running = TRUE => q.job = "stop" /\ q.running = TRUE
      <4>1. Entered(q, u, "auto-restart")
        BY <1>7, <3>1, SetState
      <4> QED
        BY <4>1 DEF Entered
    <3> QED
      BY <1>2, <1>5, <1>6, <1>7, <2>1, <3>2 DEF Same
  <2>2. CASE ~again
    <3>1. u = t
      BY <2>2
    <3> QED
      BY <1>2, <1>3, <1>6, <3>1 DEF Same
  <2> QED
    BY <2>1, <2>2
<1> HIDE DEF u
<1>9. u \in Record
  BY <1>8 DEF Sound
<1>10. v \in Record
  BY <1>1, <1>9, ZenonT(40) DEF Record
<1>11. /\ Body(u, v) /\ v.timer = u.timer /\ v.job = u.job /\ v.running = u.running
       /\ v.stopped = u.stopped /\ v.forbid_restart = FALSE
  BY <1>1, <1>9 DEF Record, Body
<1>12. Sound(v) /\ Tidy(v)
  <2>1. Sound(v)
    BY <1>8, <1>10, <1>11, Zenon DEF Sound, Body
  <2>2. Tidy(v)
    BY <1>8, <1>11, Zenon DEF Tidy, Body
  <2> QED
    BY <2>1, <2>2
<1>13. Waits(v)
  BY <1>8, <1>11 DEF Waits, Body, FinalStates
<1>14. Keeps(s, v)
  BY <1>8, <1>11 DEF Keeps, Held, Firm, Body
<1> QED
  BY <1>8, <1>11, <1>12, <1>13, <1>14 DEF Leads, Settled, Body

(* States entered by spawning a command have a control process.            *)
LEMMA Spawned ==
  ASSUME conf \in Configs, NEW s, Sound(s), NEW command \in Commands,
         NEW state \in {"condition", "start-pre", "start", "start-post", "reload", "stop", "stop-post"},
         NEW failed, Leads(s, failed)
  PROVE  Leads(s, Spawn(s, command, state, failed))
<1> DEFINE r == service_arm_timer(s)
           n == conf.commands[command] - 1
           q == [r EXCEPT !.control = "alive", !.control_next = n]
           t == service_set_state(q, state)
<1>1. Prepares(s, r) /\ Body(s, r)
  BY Armed
<1>2. r \in Record /\ n \in Int
  BY <1>1, Settings DEF Prepares, Sound
<1> HIDE DEF r, n
<1>3. q \in Record
  BY <1>2, ZenonT(40) DEF Record
<1>4. /\ q.control = "alive" /\ q.main = r.main /\ q.main_pid_known = r.main_pid_known
      /\ q.notify_state = r.notify_state /\ Same(r, q)
  BY <1>2 DEF Record, Same
<1> HIDE DEF q
<1>5. Sound(q)
  BY <1>1, <1>3, <1>4, Zenon DEF Sound, Prepares
<1>6. state \in States /\ state \notin Uncontrol /\ state \notin {"dead", "failed", "auto-restart"}
  BY DEF States, StopStates, Uncontrol
<1>7. t.state = state /\ t.control = q.control
  <2>1. Entered(q, t, state)
    BY <1>5, <1>6, SetState
  <2> QED
    BY <1>6, <2>1 DEF Entered
<1>8. Waits(t)
  BY <1>4, <1>7 DEF Waits, Stirs, FinalStates
<1>9. Leads(q, t)
  BY <1>5, <1>6, <1>8, Enters
<1>10. Leads(s, t)
  <2>1. Prepares(s, q)
    BY <1>1, <1>4, <1>5 DEF Prepares, Same
  <2> QED
    BY <1>9, <2>1, Then
<1>11. Spawn(s, command, state, failed) = failed \/ Spawn(s, command, state, failed) = t
  BY Zenon DEF Spawn, t, q, r, n
<1> QED
  BY <1>10, <1>11, Zenon

SignalStates == {"stop-watchdog", "stop-sigterm", "stop-sigkill"} \union FinalStates

(* States entered by killing wait for what was killed.                     *)
LEMMA Killed ==
  ASSUME conf \in Configs, NEW s, Sound(s), NEW state \in SignalStates,
         NEW otherwise, Leads(s, otherwise)
  PROVE  Leads(s, KillAndWait(s, state, otherwise))
<1> DEFINE r == service_arm_timer(s)
           t == service_set_state(r, state)
<1>1. Prepares(s, r) /\ Body(s, r)
  BY Armed
<1>2. s.stray \in BOOLEAN
  BY DEF Sound, Record
<1>3. /\ state \in States /\ state \notin Uncontrol /\ state \notin Unmain
      /\ state \notin {"dead", "failed", "auto-restart"}
  BY DEF States, StopStates, FinalStates, Uncontrol, Unmain, SignalStates
<1>4. Sound(r)
  BY <1>1 DEF Prepares
<1> HIDE DEF r
<1>5. CASE unit_kill_context(s, state)
  <2>1. s.main # "none" \/ s.control # "none" \/ s.stray = TRUE
    BY <1>2, <1>5, Zenon DEF unit_kill_context
  <2>2. t.state = state /\ t.control = r.control /\ t.main = r.main /\ (r.stray = TRUE => t.stray = TRUE)
    <3>1. Entered(r, t, state)
      BY <1>3, <1>4, SetState
    <3> QED
      BY <1>3, <3>1 DEF Entered
  <2>3. Waits(t)
    BY <1>1, <2>1, <2>2 DEF Waits, Stirs, Body, SignalStates, FinalStates
  <2>4. Leads(r, t)
    BY <1>3, <1>4, <2>3, Enters
  <2>5. Leads(s, t)
    BY <1>1, <2>4, Then
  <2> QED
    BY <1>5, <2>5, Zenon DEF KillAndWait, t, r
<1>6. CASE ~unit_kill_context(s, state)
  BY <1>6, Zenon DEF KillAndWait
<1> QED
  BY <1>5, <1>6

LEMMA EnterFinal ==
  ASSUME conf \in Configs, NEW s, Sound(s), NEW state \in FinalStates, NEW f \in Results
  PROVE  Leads(s, service_enter_final(s, state, f))
<1> DEFINE r == Result(s, f)
           dead == service_enter_dead(r, "success", TRUE)
           killed == KillAndWait(r, "final-sigkill", dead)
           otherwise == IF conf.send_sigkill THEN killed ELSE dead
<1>1. Prepares(s, r)
  BY ResultOf
<1>2. Sound(r)
  BY <1>1 DEF Prepares
<1>3. "success" \in Results /\ state \in SignalStates /\ "final-sigkill" \in SignalStates
  BY DEF Results, SignalStates, FinalStates
<1>4. service_enter_final(s, state, f) = KillAndWait(r, state, otherwise)
  BY Zenon DEF service_enter_final, KillHarder
<1> HIDE DEF r
<1>5. Leads(r, dead)
  BY <1>2, <1>3, EnterDead
<1> HIDE DEF dead
<1>6. Leads(r, killed)
  BY <1>2, <1>3, <1>5, Killed
<1> HIDE DEF killed
<1>7. Leads(r, otherwise)
  BY <1>5, <1>6, Zenon
<1> HIDE DEF otherwise
<1>8. Leads(r, KillAndWait(r, state, otherwise))
  BY <1>2, <1>3, <1>7, Killed
<1> QED
  BY <1>1, <1>4, <1>8, Then

LEMMA EnterStopPost ==
  ASSUME conf \in Configs, NEW s, Sound(s), NEW f \in Results
  PROVE  Leads(s, service_enter_stop_post(s, f))
<1> DEFINE q == Result(s, f)
           r == service_unwatch_control_pid(q)
           failed == service_enter_final(r, "final-sigterm", "failure")
           final == service_enter_final(r, "final-sigterm", "success")
           spawned == Spawn(r, "stop-post", "stop-post", failed)
<1>1. Prepares(s, q)
  BY ResultOf
<1>2. Sound(q)
  BY <1>1 DEF Prepares
<1>3. service_enter_stop_post(s, f) = final \/ service_enter_stop_post(s, f) = spawned
  BY Zenon DEF service_enter_stop_post
<1> HIDE DEF q
<1>4. Prepares(q, r)
  BY <1>2, UnwatchControl
<1> HIDE DEF r
<1>5. Prepares(s, r) /\ Sound(r)
  BY <1>1, <1>4, ThenPrepares DEF Prepares
<1>6. /\ "success" \in Results /\ "failure" \in Results /\ "final-sigterm" \in FinalStates
      /\ "stop-post" \in Commands
  BY DEF Results, FinalStates, Commands
<1>7. Leads(r, final) /\ Leads(r, failed)
  BY <1>5, <1>6, EnterFinal
<1> HIDE DEF final, failed
<1>8. Leads(r, spawned)
  BY <1>5, <1>6, <1>7, Spawned
<1> HIDE DEF spawned
<1>9. Leads(s, final) /\ Leads(s, spawned)
  BY <1>5, <1>7, <1>8, Then
<1> QED
  BY <1>3, <1>9, Zenon

LEMMA EnterSignal ==
  ASSUME conf \in Configs, NEW s, Sound(s), NEW state \in SignalStates, NEW f \in Results
  PROVE  Leads(s, service_enter_signal(s, state, f))
<1>1. CASE state \in FinalStates
  <2>1. service_enter_signal(s, state, f) = service_enter_final(s, state, f)
    BY <1>1, Zenon DEF service_enter_signal
  <2> QED
    BY <1>1, <2>1, EnterFinal
<1>2. CASE state \notin FinalStates
  <2> DEFINE r == Result(s, f)
             post == service_enter_stop_post(r, "success")
             killed == KillAndWait(r, "stop-sigkill", post)
             otherwise == IF conf.send_sigkill THEN killed ELSE post
  <2>1. Prepares(s, r)
    BY ResultOf
  <2>2. Sound(r)
    BY <2>1 DEF Prepares
  <2>3. "success" \in Results /\ "stop-sigkill" \in SignalStates
    BY DEF Results, SignalStates
  <2>4. service_enter_signal(s, state, f) = KillAndWait(r, state, otherwise)
    BY <1>2, Zenon DEF service_enter_signal, KillHarder
  <2> HIDE DEF r
  <2>5. Leads(r, post)
    BY <2>2, <2>3, EnterStopPost
  <2> HIDE DEF post
  <2>6. Leads(r, killed)
    BY <2>2, <2>3, <2>5, Killed
  <2> HIDE DEF killed
  <2>7. Leads(r, otherwise)
    BY <2>5, <2>6, Zenon
  <2> HIDE DEF otherwise
  <2>8. Leads(r, KillAndWait(r, state, otherwise))
    BY <2>2, <2>7, Killed
  <2> QED
    BY <2>1, <2>4, <2>8, Then
<1> QED
  BY <1>1, <1>2

LEMMA EnterStop ==
  ASSUME conf \in Configs, NEW s, Sound(s), NEW f \in Results
  PROVE  Leads(s, service_enter_stop(s, f))
<1> DEFINE q == Result(s, f)
           r == service_unwatch_control_pid(q)
           failed == service_enter_signal(r, "stop-sigterm", "failure")
           signal == service_enter_signal(r, "stop-sigterm", "success")
           spawned == Spawn(r, "stop", "stop", failed)
<1>1. Prepares(s, q)
  BY ResultOf
<1>2. Sound(q)
  BY <1>1 DEF Prepares
<1>3. service_enter_stop(s, f) = signal \/ service_enter_stop(s, f) = spawned
  BY Zenon DEF service_enter_stop
<1> HIDE DEF q
<1>4. Prepares(q, r)
  BY <1>2, UnwatchControl
<1> HIDE DEF r
<1>5. Prepares(s, r) /\ Sound(r)
  BY <1>1, <1>4, ThenPrepares DEF Prepares
<1>6. /\ "success" \in Results /\ "failure" \in Results /\ "stop-sigterm" \in SignalStates
      /\ "stop" \in Commands
  BY DEF Results, SignalStates, Commands
<1>7. Leads(r, signal) /\ Leads(r, failed)
  BY <1>5, <1>6, EnterSignal
<1> HIDE DEF signal, failed
<1>8. Leads(r, spawned)
  BY <1>5, <1>6, <1>7, Spawned
<1> HIDE DEF spawned
<1>9. Leads(s, signal) /\ Leads(s, spawned)
  BY <1>5, <1>7, <1>8, Then
<1> QED
  BY <1>3, <1>9, Zenon

(* A good service has a main process or other processes, and a service     *)
(* that reloads by itself has a main process that can say when it is done. *)
LEMMA Good ==
  ASSUME conf \in Configs, NEW r, Sound(r), r.control = "none", service_good(r)
  PROVE  /\ r.main # "none" \/ r.stray = TRUE
         /\ r.notify_state # "unknown" => r.main # "none" \/ conf.exit_type = "cgroup"
<1>1. r \in Record
  BY DEF Sound
<1>2. \/ main_pid_alive(r)
      \/ ~(main_pid_dead(r) /\ conf.exit_type = "main") /\ Populated(r)
  BY Zenon DEF service_good
<1>3. conf.exit_type \in {"main", "cgroup"}
  BY Settings
<1> QED
  BY <1>1, <1>2, <1>3, Questions DEF Sound

LEMMA EnterByNotify ==
  ASSUME conf \in Configs, NEW s, Sound(s)
  PROVE  /\ s.main # "none" \/ conf.exit_type = "cgroup" =>
              Leads(s, service_enter_reload_by_notify(s))
         /\ s.main # "none" \/ s.stray = TRUE => Leads(s, service_enter_stop_by_notify(s))
<1> DEFINE r == service_arm_timer(s)
           t == service_set_state(r, "reload")
           u == service_set_state(r, "stop-sigterm")
<1>1. Prepares(s, r) /\ Body(s, r)
  BY Armed
<1>2. Sound(r)
  BY <1>1 DEF Prepares
<1>3. service_enter_reload_by_notify(s) = t /\ service_enter_stop_by_notify(s) = u
  BY DEF service_enter_reload_by_notify, service_enter_stop_by_notify
<1> HIDE DEF r
<1>4. "reload" \in States /\ "stop-sigterm" \in States
  BY DEF States, StopStates
<1>5. Entered(r, t, "reload") /\ Entered(r, u, "stop-sigterm")
  BY <1>2, <1>4, SetState
<1>6. ASSUME s.main # "none" \/ conf.exit_type = "cgroup"
      PROVE  Leads(s, t)
  <2>1. t.state = "reload" /\ t.main = r.main
    BY <1>5 DEF Entered, Unmain
  <2>2. Waits(t)
    BY <1>1, <1>6, <2>1 DEF Waits, Body, FinalStates
  <2>3. Leads(r, t)
    BY <1>2, <1>4, <2>2, Enters
  <2> QED
    BY <1>1, <2>3, Then
<1>7. ASSUME s.main # "none" \/ s.stray = TRUE
      PROVE  Leads(s, u)
  <2>1. u.state = "stop-sigterm" /\ u.main = r.main /\ (r.stray = TRUE => u.stray = TRUE)
    BY <1>5 DEF Entered, Unmain
  <2>2. Waits(u)
    BY <1>1, <1>7, <2>1 DEF Waits, Stirs, Body
  <2>3. Leads(r, u)
    BY <1>2, <1>4, <2>2, Enters
  <2> QED
    BY <1>1, <2>3, Then
<1> QED
  BY <1>3, <1>6, <1>7

LEMMA EnterRunning ==
  ASSUME conf \in Configs, NEW s, Sound(s), NEW f \in Results
  PROVE  Leads(s, service_enter_running(s, f))
<1> DEFINE q == Result(s, f)
           r == service_unwatch_control_pid(q)
           t == service_set_state(r, "running")
           u == [t EXCEPT !.timer = conf.runtime_max]
           out == service_enter_running(s, f)
<1>1. Prepares(s, q) /\ q.notify_state = s.notify_state
  BY ResultOf DEF Body
<1>2. Sound(q)
  BY <1>1 DEF Prepares
<1>3. \/ out = service_enter_signal(r, "stop-sigterm", f)
      \/ service_good(r) /\ s.notify_state = "reloading" /\ out = service_enter_reload_by_notify(r)
      \/ service_good(r) /\ s.notify_state = "stopping" /\ out = service_enter_stop_by_notify(r)
      \/ service_good(r) /\ out = u
      \/ out = service_set_state(r, "exited")
      \/ out = service_enter_stop(r, "success")
  BY DEF service_enter_running
<1> HIDE DEF q, out
<1>4. Prepares(q, r) /\ r.notify_state = q.notify_state /\ r.control = "none"
  BY <1>2, UnwatchControl
<1> HIDE DEF r
<1>5. Prepares(s, r) /\ Sound(r)
  BY <1>1, <1>4, ThenPrepares DEF Prepares
<1>6. "stop-sigterm" \in SignalStates /\ "success" \in Results
  BY DEF SignalStates, Results
<1>7. SUFFICES Leads(r, out)
  BY <1>5, <1>7, Then DEF out
<1>8. CASE out = service_enter_signal(r, "stop-sigterm", f)
  BY <1>5, <1>6, <1>8, EnterSignal
<1>9. CASE service_good(r) /\ s.notify_state = "reloading" /\ out = service_enter_reload_by_notify(r)
  <2>1. r.main # "none" \/ conf.exit_type = "cgroup"
    BY <1>1, <1>4, <1>5, <1>9, Good
  <2> QED
    BY <1>5, <1>9, <2>1, EnterByNotify
<1>10. CASE service_good(r) /\ s.notify_state = "stopping" /\ out = service_enter_stop_by_notify(r)
  <2>1. r.main # "none" \/ r.stray = TRUE
    BY <1>4, <1>5, <1>10, Good
  <2> QED
    BY <1>5, <1>10, <2>1, EnterByNotify
<1>11. CASE service_good(r) /\ out = u
  <2>1. r.main # "none" \/ r.stray = TRUE
    BY <1>4, <1>5, <1>11, Good
  <2>2. "running" \in States
    BY DEF States
  <2>3. Entered(r, t, "running")
    BY <1>5, <2>2, SetState
  <2>4. /\ Sound(t) /\ Tidy(t) /\ t.state = "running" /\ t.main = r.main /\ (r.stray = TRUE => t.stray = TRUE)
        /\ Waits(t)
    BY <2>1, <2>3 DEF Entered, Unmain, Waits, Stirs, FinalStates
  <2>5. Leads(r, t)
    BY <1>5, <2>2, <2>4, Enters
  <2> HIDE DEF t
  <2>6. t \in Record /\ conf.runtime_max \in BOOLEAN
    BY <2>4, Settings DEF Sound
  <2>7. u \in Record
    BY <2>6, ZenonT(40) DEF Record
  <2>8. Body(t, u) /\ Same(t, u)
    BY <2>6 DEF Record, Body, Same
  <2> HIDE DEF u
  <2>9. Sound(u)
    BY <2>4, <2>7, <2>8, Zenon DEF Sound, Body
  <2>10. Tidy(u)
    BY <2>4, <2>8 DEF Tidy, Body, Same, Unmain, Over
  <2>11. Waits(u)
    BY <2>4, <2>8 DEF Waits, Stirs, Awaits, Body
  <2>12. Keeps(r, u)
    BY <2>5, <2>8 DEF Leads, Keeps, Held, Firm, Body, Same
  <2> QED
    BY <1>11, <2>9, <2>10, <2>11, <2>12 DEF Leads, Settled
<1>12. CASE out = service_set_state(r, "exited")
  <2>1. "exited" \in States
    BY DEF States
  <2>2. Entered(r, out, "exited")
    BY <1>5, <1>12, <2>1, SetState
  <2>3. Waits(out)
    BY <2>2 DEF Entered, Waits, FinalStates
  <2> QED
    BY <1>5, <1>12, <2>1, <2>3, Enters
<1>13. CASE out = service_enter_stop(r, "success")
  BY <1>5, <1>6, <1>13, EnterStop
<1> QED
  BY <1>3, <1>8, <1>9, <1>10, <1>11, <1>12, <1>13

LEMMA EnterStartPost ==
  ASSUME conf \in Configs, NEW s, Sound(s)
  PROVE  Leads(s, service_enter_start_post(s))
<1> DEFINE r == service_unwatch_control_pid(s)
           running == service_enter_running(r, "success")
           failed == service_enter_stop(r, "failure")
           spawned == Spawn(r, "start-post", "start-post", failed)
<1>1. service_enter_start_post(s) = running \/ service_enter_start_post(s) = spawned
  BY Zenon DEF service_enter_start_post
<1>2. Prepares(s, r)
  BY UnwatchControl
<1> HIDE DEF r
<1>3. Sound(r) /\ "success" \in Results /\ "failure" \in Results /\ "start-post" \in Commands
  BY <1>2 DEF Prepares, Results, Commands
<1>4. Leads(r, running) /\ Leads(r, failed)
  BY <1>3, EnterRunning, EnterStop
<1> HIDE DEF running, failed
<1>5. Leads(r, spawned)
  BY <1>3, <1>4, Spawned
<1> HIDE DEF spawned
<1>6. Leads(s, running) /\ Leads(s, spawned)
  BY <1>2, <1>4, <1>5, Then
<1> QED
  BY <1>1, <1>6, Zenon

(* A function may also be called after a state was entered.                *)
LEMMA ThenEnters ==
  ASSUME NEW s, NEW t, NEW u, NEW state, state \notin {"dead", "failed"},
         Entered(s, t, state), Leads(t, u)
  PROVE  Leads(s, u)
BY DEF Entered, Leads, Keeps, Held, Firm

LEMMA EnterStart ==
  ASSUME conf \in Configs, NEW s, Sound(s)
  PROVE  Leads(s, service_enter_start(s))
<1> DEFINE q == service_unwatch_control_pid(s)
           r == service_unwatch_main_pid(q)
           failed == service_enter_signal(r, "stop-sigterm", "failure")
           timer == conf.timeout /\ conf.type # "simple"
           next == conf.commands["start"] - 1
           main == [r EXCEPT !.main = "alive", !.main_pid_known = TRUE, !.main_next = next,
                             !.timer = timer]
           begun == service_set_state(r, "start")
           started == service_set_state(main, "start")
           out == service_enter_start(s)
<1>1. \/ out = failed
      \/ out = service_enter_start_post(begun)
      \/ out = Spawn(r, "start", "start", failed)
      \/ out = service_enter_start_post(main)
      \/ out = started
  BY Zenon DEF service_enter_start
<1> HIDE DEF out
<1>2. Prepares(s, q)
  BY UnwatchControl
<1>3. Sound(q)
  BY <1>2 DEF Prepares
<1> HIDE DEF q
<1>4. Prepares(q, r)
  BY <1>3, UnwatchMain
<1> HIDE DEF r
<1>5. Prepares(s, r) /\ Sound(r)
  BY <1>2, <1>4, ThenPrepares DEF Prepares
<1>6. SUFFICES Leads(r, out)
  BY <1>5, <1>6, Then DEF out
<1>7. /\ "stop-sigterm" \in SignalStates /\ "failure" \in Results /\ "start" \in Commands
      /\ "start" \in States
  BY DEF SignalStates, Results, Commands, States
<1>8. Leads(r, failed)
  BY <1>5, <1>7, EnterSignal
<1> HIDE DEF failed
<1>9. Prepares(r, main) /\ main.main = "alive"
  <2>1. r \in Record
    BY <1>5 DEF Sound
  <2>2. next \in Int
    BY <1>7, Settings
  <2>3. timer \in BOOLEAN
    BY Settings, Zenon
  <2> HIDE DEF next, timer
  <2>4. main \in Record
    BY <2>1, <2>2, <2>3, ZenonT(40) DEF Record
  <2>5. main.main = "alive" /\ main.main_pid_known = TRUE /\ Same(r, main)
    BY <2>1 DEF Record, Same
  <2> HIDE DEF main
  <2> QED
    BY <2>4, <2>5 DEF Prepares, Sound
<1> HIDE DEF main
<1>10. Sound(main)
  BY <1>9 DEF Prepares
<1>11. CASE out = service_enter_start_post(begun)
  <2>1. Entered(r, begun, "start")
    BY <1>5, <1>7, SetState
  <2>2. Sound(begun)
    BY <2>1 DEF Entered
  <2> HIDE DEF begun
  <2>3. Leads(begun, out)
    BY <1>11, <2>2, EnterStartPost
  <2> QED
    BY <2>1, <2>3, ThenEnters
<1>12. CASE out = Spawn(r, "start", "start", failed)
  BY <1>5, <1>7, <1>8, <1>12, Spawned
<1>13. CASE out = service_enter_start_post(main)
  <2>1. Leads(main, out)
    BY <1>10, <1>13, EnterStartPost
  <2> QED
    BY <1>9, <2>1, Then
<1>14. CASE out = started
  <2>1. Entered(main, out, "start")
    BY <1>7, <1>10, <1>14, SetState
  <2>2. Waits(out)
    BY <1>9, <2>1 DEF Entered, Unmain, Waits, FinalStates
  <2>3. Leads(main, out)
    BY <1>7, <1>10, <1>14, <2>2, Enters
  <2> QED
    BY <1>9, <2>3, Then
<1> QED
  BY <1>1, <1>8, <1>11, <1>12, <1>13, <1>14

LEMMA EnterStartPre ==
  ASSUME conf \in Configs, NEW s, Sound(s)
  PROVE  Leads(s, service_enter_start_pre(s))
<1> DEFINE r == service_unwatch_control_pid(s)
           failed == service_enter_dead(r, "failure", TRUE)
           start == service_enter_start(r)
           spawned == Spawn(r, "start-pre", "start-pre", failed)
<1>1. \/ service_enter_start_pre(s) = start \/ service_enter_start_pre(s) = failed
      \/ service_enter_start_pre(s) = spawned
  BY Zenon DEF service_enter_start_pre
<1>2. Prepares(s, r)
  BY UnwatchControl
<1> HIDE DEF r
<1>3. Sound(r) /\ "failure" \in Results /\ "start-pre" \in Commands
  BY <1>2 DEF Prepares, Results, Commands
<1>4. Leads(r, start) /\ Leads(r, failed)
  BY <1>3, EnterStart, EnterDead
<1> HIDE DEF start, failed
<1>5. Leads(r, spawned)
  BY <1>3, <1>4, Spawned
<1> HIDE DEF spawned
<1>6. Leads(s, start) /\ Leads(s, failed) /\ Leads(s, spawned)
  BY <1>2, <1>4, <1>5, Then
<1> QED
  BY <1>1, <1>6, Zenon

LEMMA EnterCondition ==
  ASSUME conf \in Configs, NEW s, Sound(s)
  PROVE  Leads(s, service_enter_condition(s))
<1> DEFINE r == service_unwatch_control_pid(s)
           failed == service_enter_dead(r, "failure", TRUE)
           pre == service_enter_start_pre(r)
           spawned == Spawn(r, "condition", "condition", failed)
<1>1. \/ service_enter_condition(s) = pre \/ service_enter_condition(s) = failed
      \/ service_enter_condition(s) = spawned
  BY Zenon DEF service_enter_condition
<1>2. Prepares(s, r)
  BY UnwatchControl
<1> HIDE DEF r
<1>3. Sound(r) /\ "failure" \in Results /\ "condition" \in Commands
  BY <1>2 DEF Prepares, Results, Commands
<1>4. Leads(r, pre) /\ Leads(r, failed)
  BY <1>3, EnterStartPre, EnterDead
<1> HIDE DEF pre, failed
<1>5. Leads(r, spawned)
  BY <1>3, <1>4, Spawned
<1> HIDE DEF spawned
<1>6. Leads(s, pre) /\ Leads(s, failed) /\ Leads(s, spawned)
  BY <1>2, <1>4, <1>5, Then
<1> QED
  BY <1>1, <1>6, Zenon

LEMMA EnterReload ==
  ASSUME conf \in Configs, NEW s, Sound(s)
  PROVE  Leads(s, service_enter_reload(s))
<1> DEFINE r == service_unwatch_control_pid(s)
           failed == service_enter_running(r, "success")
           spawned == Spawn(r, "reload", "reload", failed)
<1>1. service_enter_reload(s) = spawned
  BY Zenon DEF service_enter_reload
<1>2. Prepares(s, r)
  BY UnwatchControl
<1> HIDE DEF r
<1>3. Sound(r) /\ "success" \in Results /\ "reload" \in Commands
  BY <1>2 DEF Prepares, Results, Commands
<1>4. Leads(r, failed)
  BY <1>3, EnterRunning
<1> HIDE DEF failed
<1>5. Leads(r, spawned)
  BY <1>3, <1>4, Spawned
<1> HIDE DEF spawned
<1> QED
  BY <1>1, <1>2, <1>5, Then

-----------------------------------------------------------------------------
(* The ends of processes *)

(* A handler enters another state or stays where it is.                    *)
Stays(s, t) ==
  /\ Settled(t) /\ t.state = s.state
  /\ t.forbid_restart = s.forbid_restart /\ t.stopped = s.stopped
  /\ t.job = "stop" /\ t.running = TRUE => s.job = "stop" /\ s.running = TRUE

Goes(s, t) == (Leads(s, t) /\ s.state \notin {"dead", "failed"}) \/ Stays(s, t)

LEMMA ThenGoes ==
  ASSUME NEW s, NEW t, NEW u, Prepares(s, t), t.state = s.state, Goes(t, u)
  PROVE  Goes(s, u)
<1>1. CASE Leads(t, u) /\ t.state \notin {"dead", "failed"}
  BY <1>1, Then DEF Goes
<1>2. CASE Stays(t, u)
  BY <1>2 DEF Goes, Stays, Prepares, Same
<1> QED
  BY <1>1, <1>2 DEF Goes

(* With a main process in a state that has a use for it, or a control      *)
(* process likewise, a service has what it waits for.                      *)
LEMMA MainRuns ==
  ASSUME NEW s, Settled(s), s.state \notin Unmain, NEW t, Sound(t), Same(s, t),
         t.state = s.state, t.main # "none", t.control = s.control, t.pid_watch = s.pid_watch
  PROVE  Stays(s, t)
<1>1. Waits(t)
  BY DEF Settled, Waits, Awaits, Stirs
<1>2. Tidy(t)
  BY DEF Settled, Tidy, Same, Unmain, Over
<1> QED
  BY <1>1, <1>2 DEF Stays, Settled, Same

LEMMA ControlRuns ==
  ASSUME NEW s, Tidy(s), s.state \notin Uncontrol, NEW t, Sound(t), Same(s, t),
         t.state = s.state, t.control # "none", t.main = s.main, t.pid_watch = s.pid_watch
  PROVE  Stays(s, t)
<1>1. Waits(t)
  BY DEF Waits, Awaits, Stirs, Uncontrol
<1>2. Tidy(t)
  BY DEF Tidy, Same, Uncontrol, Over
<1> QED
  BY <1>1, <1>2 DEF Stays, Settled, Same

(* The switch for the main process.                                        *)
LEMMA MainEnds ==
  ASSUME conf \in Configs, NEW s, Sound(s), Tidy(s), s.state \notin Unmain, NEW f \in Results,
         s.state = "stop" => s.control # "none"
  PROVE  Goes(s, MainGone(s, f))
<1> DEFINE out == MainGone(s, f)
<1>1. /\ s.state \in {"start", "start-post", "running", "reload"} \union StopStates \union FinalStates
      /\ s.state \notin {"dead", "failed"}
  BY DEF Sound, Record, States, Unmain
<1>2. conf.type \in {"simple", "exec", "forking", "oneshot", "notify", "dbus"}
  BY Settings
<1>3. /\ "failure" \in Results
      /\ "stop-sigterm" \in SignalStates /\ "final-sigterm" \in SignalStates
  BY DEF Results, SignalStates, FinalStates
<1>4. \/ out = s /\ s.control # "none" /\ s.state \notin Uncontrol
      \/ out = service_enter_stop(s, f)
      \/ out = service_enter_start_post(s)
      \/ out = service_enter_signal(s, "stop-sigterm", f)
      \/ out = service_enter_signal(s, "stop-sigterm", "failure")
      \/ out = service_enter_running(s, f)
      \/ out = service_enter_stop_post(s, f)
      \/ out = service_enter_signal(s, "final-sigterm", f)
      \/ out = service_enter_dead(s, f, TRUE)
  BY <1>1, <1>2 DEF MainGone, control_pid_good, StopStates, FinalStates, Uncontrol
<1> HIDE DEF out
<1>5. s.control # "none" /\ s.state \notin Uncontrol => Stays(s, s)
  <2>1. Same(s, s)
    BY DEF Same
  <2> QED
    BY <2>1, ControlRuns
<1>6. /\ Leads(s, service_enter_signal(s, "stop-sigterm", f))
      /\ Leads(s, service_enter_signal(s, "stop-sigterm", "failure"))
      /\ Leads(s, service_enter_signal(s, "final-sigterm", f))
  BY <1>3, EnterSignal
<1>7. /\ Leads(s, service_enter_stop(s, f)) /\ Leads(s, service_enter_start_post(s))
      /\ Leads(s, service_enter_running(s, f)) /\ Leads(s, service_enter_stop_post(s, f))
      /\ Leads(s, service_enter_dead(s, f, TRUE))
  BY EnterStop, EnterStartPost, EnterRunning, EnterStopPost, EnterDead
<1>8. Leads(s, out) \/ Stays(s, out)
  BY <1>4, <1>5, <1>6, <1>7, Zenon
<1> QED
  BY <1>1, <1>8 DEF Goes, out

LEMMA RunNextMain ==
  ASSUME conf \in Configs, NEW s, Settled(s), s.main # "none",
         NEW r, Prepares(s, r), r.state = s.state, r.main_pid_known = TRUE,
         r.control = s.control, r.pid_watch = s.pid_watch
  PROVE  Goes(s, service_run_next_main(r))
<1> DEFINE q == service_arm_timer(r)
           n == q.main_next - 1
           t == [q EXCEPT !.main = "alive", !.main_next = n]
<1>1. service_run_next_main(r) = service_enter_stop(r, "failure") \/ service_run_next_main(r) = t
  BY Zenon DEF service_run_next_main
<1>2. s.state \notin Unmain /\ s.state \notin {"dead", "failed"}
  BY DEF Settled, Tidy, Unmain
<1>3. Sound(r) /\ "failure" \in Results
  BY DEF Prepares, Results
<1>4. Leads(s, service_enter_stop(r, "failure"))
  <2>1. Leads(r, service_enter_stop(r, "failure"))
    BY <1>3, EnterStop
  <2> QED
    BY <2>1, Then
<1>5. Prepares(r, q) /\ Body(r, q)
  BY <1>3, Armed
<1> HIDE DEF q
<1>6. q \in Record
  BY <1>5 DEF Prepares, Sound
<1>7. n \in Int
  <2>1. q.main_next \in Int
    BY <1>6 DEF Record
  <2> QED
    BY <2>1
<1> HIDE DEF n
<1>8. t \in Record
  BY <1>6, <1>7, ZenonT(40) DEF Record
<1>9. /\ t.main = "alive" /\ t.state = q.state /\ t.control = q.control /\ t.pid_watch = q.pid_watch
      /\ t.main_pid_known = q.main_pid_known /\ Same(q, t)
  BY <1>6 DEF Record, Same
<1> HIDE DEF t
<1>10. Sound(t)
  BY <1>5, <1>8, <1>9 DEF Sound, Body
<1>11. Same(s, t)
  BY <1>5, <1>9 DEF Same, Prepares
<1>12. Stays(s, t)
  BY <1>2, <1>5, <1>9, <1>10, <1>11, MainRuns DEF Body
<1> QED
  BY <1>1, <1>2, <1>4, <1>12 DEF Goes

(* Without the main process a service with ExitType=cgroup goes on.        *)
LEMMA SigchldMain ==
  ASSUME conf \in Configs, NEW s, Settled(s), s.main # "none", NEW f \in Results
  PROVE  Goes(s, service_sigchld_main(s, f))
<1> DEFINE p == [s EXCEPT !.main = "none"]
           r == Result(p, f)
           t == [r EXCEPT !.main_next = 0]
           out == service_sigchld_main(s, f)
<1>1. \/ Finds(s) /\ out = service_load_pid_file(p) /\ conf.pid_file
      \/ out = service_run_next_main(r)
      \/ out = MainGone(t, f)
      \/ conf.exit_type # "main" /\ Populated(t) /\ (out = service_enter_start_post(t) \/ out = t)
  BY Zenon DEF service_sigchld_main
<1>2. s \in Record /\ Sound(s) /\ Tidy(s) /\ Waits(s)
  BY DEF Settled, Sound
<1>3. s.state \notin Unmain /\ s.state \notin {"dead", "failed"} /\ s.main_pid_known = TRUE
  BY <1>2 DEF Tidy, Unmain, Sound
<1>4. p \in Record
  BY <1>2, ZenonT(40) DEF Record
<1>5. /\ p.main = "none" /\ p.state = s.state /\ p.control = s.control /\ p.pid_watch = s.pid_watch
      /\ p.main_pid_known = s.main_pid_known /\ p.stray = s.stray /\ p.found = s.found
      /\ p.timer = s.timer /\ Same(s, p)
  BY <1>2 DEF Record, Same
<1> HIDE DEF p
<1>6. Sound(p) /\ Prepares(s, p)
  BY <1>3, <1>4, <1>5 DEF Sound, Prepares
<1>7. Prepares(p, r) /\ Body(p, r) /\ r.timer = p.timer
  BY <1>6, ResultOf
<1> HIDE DEF r
<1>8. Prepares(s, r)
  BY <1>6, <1>7, ThenPrepares
<1>9. r \in Record
  BY <1>7 DEF Prepares, Sound
<1>10. t \in Record
  <2>1. 0 \in Int
    OBVIOUS
  <2> QED
    BY <1>9, <2>1, ZenonT(40) DEF Record
<1>11. Body(r, t) /\ Same(r, t) /\ t.timer = r.timer
  BY <1>9 DEF Record, Body, Same
<1> HIDE DEF t
<1>12. Sound(t)
  BY <1>7, <1>10, <1>11 DEF Prepares, Sound, Body
<1>13. /\ Prepares(s, t) /\ t.state = s.state /\ t.main = "none" /\ t.control = s.control
       /\ t.pid_watch = s.pid_watch /\ t.main_pid_known = TRUE
  BY <1>3, <1>5, <1>7, <1>8, <1>11, <1>12 DEF Prepares, Body, Same
<1>14. Tidy(t)
  BY <1>2, <1>3, <1>13 DEF Tidy, Unmain, Over, Prepares, Same
<1> SUFFICES Goes(s, out)
  OBVIOUS
<1> HIDE DEF out
<1>15. CASE Finds(s) /\ out = service_load_pid_file(p) /\ conf.pid_file
  <2>1. Finds(p)
    BY <1>2, <1>4, <1>5, <1>15, Questions
  <2>2. out = Adopt(p)
    BY <1>15, <2>1, Zenon DEF service_load_pid_file
  <2>3. /\ Prepares(p, out) /\ out.main = "alive" /\ out.control = p.control /\ out.state = p.state
        /\ out.pid_watch = p.pid_watch
    BY <1>6, <2>2, Adopted
  <2>4. Prepares(s, out)
    BY <1>6, <2>3, ThenPrepares
  <2>5. Sound(out) /\ Same(s, out)
    BY <2>4 DEF Prepares
  <2>6. Stays(s, out)
    BY <1>3, <1>5, <2>3, <2>5, MainRuns
  <2> QED
    BY <2>6 DEF Goes
<1>16. CASE out = service_run_next_main(r)
  <2>1. r.state = s.state /\ r.main_pid_known = TRUE /\ r.control = s.control /\ r.pid_watch = s.pid_watch
    BY <1>3, <1>5, <1>7 DEF Body
  <2> QED
    BY <1>8, <1>16, <2>1, RunNextMain
<1>17. CASE out = MainGone(t, f)
  <2>1. t.state = "stop" => t.control # "none"
    BY <1>2, <1>13 DEF Waits
  <2>2. Goes(t, out)
    BY <1>3, <1>12, <1>13, <1>14, <1>17, <2>1, MainEnds
  <2> QED
    BY <1>13, <2>2, ThenGoes
<1>18. CASE out = service_enter_start_post(t)
  <2>1. Leads(t, out)
    BY <1>12, <1>18, EnterStartPost
  <2>2. Leads(s, out)
    BY <1>13, <2>1, Then
  <2> QED
    BY <1>3, <2>2 DEF Goes
<1>19. CASE conf.exit_type # "main" /\ Populated(t) /\ out = t
  <2>1. Stirs(t)
    BY <1>10, <1>19, Questions DEF Stirs
  <2>2. conf.exit_type = "cgroup"
    BY <1>19, Settings
  <2>3. Waits(t)
    BY <1>2, <1>3, <1>13, <2>1, <2>2 DEF Waits, Awaits, Unmain
  <2> QED
    BY <1>12, <1>13, <1>14, <1>19, <2>3 DEF Goes, Stays, Settled, Prepares, Same
<1> QED
  BY <1>1, <1>15, <1>16, <1>17, <1>18, <1>19

(* The PID file and the search of the control group.                       *)
LEMMA Loaded ==
  ASSUME NEW s, Sound(s)
  PROVE  /\ Prepares(s, service_load_pid_file(s)) /\ Prepares(s, service_search_main_pid(s))
         /\ Sound(service_load_pid_file(s)) /\ Sound(service_search_main_pid(s))
<1>1. Prepares(s, Adopt(s))
  BY Adopted
<1>2. Prepares(s, s)
  BY DEF Prepares, Same
<1>3. Prepares(s, service_load_pid_file(s)) /\ Prepares(s, service_search_main_pid(s))
  BY <1>1, <1>2, Zenon DEF service_load_pid_file, service_search_main_pid
<1> QED
  BY <1>3 DEF Prepares

(* The switch for the control process.                                     *)
LEMMA ControlEnds ==
  ASSUME conf \in Configs, NEW s, Sound(s), Tidy(s), s.state \notin Uncontrol, s.control = "none",
         NEW f \in Results
  PROVE  Goes(s, ControlGone(s, f))
<1> DEFINE out == ControlGone(s, f)
           load == service_load_pid_file(s)
           search == service_search_main_pid(s)
           both == service_search_main_pid(load)
           waiting == [s EXCEPT !.pid_watch = TRUE]
           Staying == {"stop-watchdog", "stop-sigterm", "stop-sigkill", "stop-post"} \union FinalStates
<1>1. /\ s.state \in {"condition", "start-pre", "start", "start-post", "reload", "cleaning"}
                       \union StopStates \union FinalStates
      /\ s.state \notin {"dead", "failed"} /\ s \in Record
  BY DEF Sound, Record, States, Uncontrol
<1>2. /\ "failure" \in Results /\ "success" \in Results
      /\ "stop-sigterm" \in SignalStates /\ "final-sigterm" \in SignalStates
  BY DEF Results, SignalStates, FinalStates
<1>3. \/ out = s /\ main_pid_alive(s) /\ s.state \in Staying
      \/ /\ out = waiting /\ Populated(s) /\ conf.pid_file
         /\ s.state \in {"start", "start-post"}
      \/ \/ out = service_enter_signal(s, "stop-sigterm", f)
         \/ out = service_enter_signal(s, "stop-sigterm", "failure")
         \/ out = service_enter_start_pre(s) \/ out = service_enter_start(s)
         \/ out = service_enter_start_post(load) \/ out = service_enter_start_post(search)
         \/ out = service_enter_stop(s, "failure")
         \/ out = service_enter_running(load, "success") \/ out = service_enter_running(search, "success")
         \/ out = service_enter_running(s, "success") \/ out = service_enter_running(both, "success")
         \/ out = service_enter_stop_post(s, f) \/ out = service_enter_signal(s, "final-sigterm", f)
         \/ out = service_enter_dead(s, f, TRUE) \/ out = service_enter_dead(s, "success", FALSE)
  <2> HIDE DEF load, search, both, waiting, out
  <2>1. CASE s.state \in {"condition", "start-pre", "start", "start-post"} /\ f # "success"
    BY <2>1 DEF ControlGone, out, StopStates, FinalStates
  <2>2. CASE s.state = "condition" /\ f = "success"
    BY <2>2 DEF ControlGone, out, StopStates, FinalStates
  <2>3. CASE s.state = "start-pre" /\ f = "success"
    BY <2>3 DEF ControlGone, out, StopStates, FinalStates
  <2>4. CASE s.state = "start" /\ f = "success"
    BY <2>4 DEF ControlGone, out, StopStates, FinalStates, service_demand_pid_file, load, search, waiting
  <2>5. CASE s.state = "start-post" /\ f = "success"
    BY <2>5 DEF ControlGone, out, StopStates, FinalStates, service_demand_pid_file, load, search, waiting
  <2>6. CASE s.state = "reload"
    BY <2>6 DEF ControlGone, out, StopStates, FinalStates, load, both
  <2>7. CASE s.state \in {"stop", "cleaning"}
    BY <2>7 DEF ControlGone, out, StopStates, FinalStates
  <2>8. CASE s.state \in Staying
    BY <2>8 DEF ControlGone, out, StopStates, FinalStates
  <2> QED
    BY <1>1, <2>1, <2>2, <2>3, <2>4, <2>5, <2>6, <2>7, <2>8 DEF StopStates
<1> SUFFICES Goes(s, out)
  OBVIOUS
<1> HIDE DEF out
<1>4. CASE out = s /\ main_pid_alive(s) /\ s.state \in Staying
  <2>1. s.main # "none"
    BY <1>1, <1>4, Questions
  <2>2. Waits(s)
    BY <1>4, <2>1 DEF Waits, Stirs, FinalStates
  <2> QED
    BY <1>4, <2>2 DEF Goes, Stays, Settled, Same
<1>5. CASE out = waiting /\ Populated(s) /\ conf.pid_file /\ s.state \in {"start", "start-post"}
  <2>1. waiting \in Record
    BY <1>1, ZenonT(40) DEF Record
  <2>2. /\ waiting.pid_watch = TRUE /\ Same(s, waiting) /\ waiting.state = s.state
        /\ waiting.main = s.main /\ waiting.control = s.control /\ waiting.stray = s.stray
        /\ waiting.main_pid_known = s.main_pid_known /\ waiting.notify_state = s.notify_state
        /\ waiting.timer = s.timer
    BY <1>1 DEF Record, Same
  <2> HIDE DEF waiting
  <2>3. Sound(waiting)
    BY <2>1, <2>2 DEF Sound
  <2>4. Stirs(waiting)
    <3>1. s.stray = TRUE \/ s.main = "alive" \/ s.control = "alive"
      BY <1>1, <1>5, Questions
    <3> QED
      BY <2>2, <3>1 DEF Stirs
  <2>5. Waits(waiting)
    BY <1>5, <2>2, <2>4 DEF Waits, Awaits, FinalStates
  <2>6. conf.pid_file = TRUE
    BY <1>5, Settings
  <2>7. Tidy(waiting)
    BY <1>5, <2>2, <2>6 DEF Tidy, Unmain, Uncontrol, Over
  <2>8. Stays(s, waiting)
    BY <2>2, <2>3, <2>5, <2>7 DEF Stays, Settled, Same
  <2> QED
    BY <1>5, <2>8 DEF Goes
<1> HIDE DEF waiting
<1>6. /\ Prepares(s, load) /\ Prepares(s, search) /\ Prepares(s, both)
      /\ Sound(load) /\ Sound(search) /\ Sound(both)
  <2>1. Prepares(s, load) /\ Prepares(s, search) /\ Sound(load) /\ Sound(search)
    BY Loaded
  <2> HIDE DEF load
  <2>2. Prepares(load, both) /\ Sound(both)
    BY <2>1, Loaded
  <2> QED
    BY <2>1, <2>2, ThenPrepares
<1> HIDE DEF load, search, both
<1>7. /\ Leads(s, service_enter_signal(s, "stop-sigterm", f))
      /\ Leads(s, service_enter_signal(s, "stop-sigterm", "failure"))
      /\ Leads(s, service_enter_signal(s, "final-sigterm", f))
  BY <1>2, EnterSignal
<1>8. /\ Leads(s, service_enter_start_pre(s)) /\ Leads(s, service_enter_start(s))
      /\ Leads(s, service_enter_stop(s, "failure")) /\ Leads(s, service_enter_stop_post(s, f))
  BY <1>2, EnterStartPre, EnterStart, EnterStop, EnterStopPost
<1>9. /\ Leads(s, service_enter_dead(s, f, TRUE)) /\ Leads(s, service_enter_dead(s, "success", FALSE))
      /\ Leads(s, service_enter_running(s, "success"))
  BY <1>2, EnterDead, EnterRunning
<1>10. /\ Leads(s, service_enter_start_post(load)) /\ Leads(s, service_enter_start_post(search))
  <2>1. Leads(load, service_enter_start_post(load)) /\ Leads(search, service_enter_start_post(search))
    BY <1>6, EnterStartPost
  <2> QED
    BY <1>6, <2>1, Then
<1>11. /\ Leads(s, service_enter_running(load, "success"))
       /\ Leads(s, service_enter_running(search, "success"))
       /\ Leads(s, service_enter_running(both, "success"))
  <2>1. /\ Leads(load, service_enter_running(load, "success"))
        /\ Leads(search, service_enter_running(search, "success"))
        /\ Leads(both, service_enter_running(both, "success"))
    BY <1>2, <1>6, EnterRunning
  <2> QED
    BY <1>6, <2>1, Then
<1>12. Goes(s, out) \/ Leads(s, out)
  BY <1>3, <1>4, <1>5, <1>7, <1>8, <1>9, <1>10, <1>11, Zenon
<1> QED
  BY <1>1, <1>12 DEF Goes

LEMMA RunNextControl ==
  ASSUME conf \in Configs, NEW s, Settled(s), s.control # "none",
         NEW r, Prepares(s, r), r.state = s.state, r.main = s.main, r.pid_watch = s.pid_watch
  PROVE  Goes(s, service_run_next_control(r))
<1> DEFINE q == service_arm_timer(r)
           n == q.control_next - 1
           t == [q EXCEPT !.control = "alive", !.control_next = n]
           out == service_run_next_control(r)
<1>1. \/ out = t
      \/ out = service_enter_signal(r, "stop-sigterm", "failure")
      \/ out = service_enter_dead(r, "failure", TRUE)
      \/ out = service_enter_running(r, "success") \/ out = service_enter_stop(r, "failure")
  BY DEF service_run_next_control
<1> SUFFICES Goes(s, out)
  OBVIOUS
<1> HIDE DEF out
<1>2. s.state \notin Uncontrol /\ s.state \notin {"dead", "failed"} /\ Tidy(s)
  BY DEF Settled, Tidy, Uncontrol
<1>3. Sound(r) /\ "failure" \in Results /\ "success" \in Results /\ "stop-sigterm" \in SignalStates
  BY DEF Prepares, Results, SignalStates
<1>4. /\ Leads(s, service_enter_signal(r, "stop-sigterm", "failure"))
      /\ Leads(s, service_enter_dead(r, "failure", TRUE))
      /\ Leads(s, service_enter_running(r, "success")) /\ Leads(s, service_enter_stop(r, "failure"))
  <2>1. /\ Leads(r, service_enter_signal(r, "stop-sigterm", "failure"))
        /\ Leads(r, service_enter_dead(r, "failure", TRUE))
        /\ Leads(r, service_enter_running(r, "success")) /\ Leads(r, service_enter_stop(r, "failure"))
    BY <1>3, EnterSignal, EnterDead, EnterRunning, EnterStop
  <2> QED
    BY <2>1, Then
<1>5. Prepares(r, q) /\ Body(r, q)
  BY <1>3, Armed
<1> HIDE DEF q
<1>6. q \in Record
  BY <1>5 DEF Prepares, Sound
<1>7. n \in Int
  <2>1. q.control_next \in Int
    BY <1>6 DEF Record
  <2> QED
    BY <2>1
<1> HIDE DEF n
<1>8. t \in Record
  BY <1>6, <1>7, ZenonT(40) DEF Record
<1>9. /\ t.control = "alive" /\ t.state = q.state /\ t.main = q.main /\ t.pid_watch = q.pid_watch
      /\ t.main_pid_known = q.main_pid_known /\ t.notify_state = q.notify_state /\ Same(q, t)
  BY <1>6 DEF Record, Same
<1> HIDE DEF t
<1>10. Sound(t)
  BY <1>5, <1>8, <1>9 DEF Sound, Prepares
<1>11. Same(s, t)
  BY <1>5, <1>9 DEF Same, Prepares
<1>12. Stays(s, t)
  BY <1>2, <1>5, <1>9, <1>10, <1>11, ControlRuns DEF Body
<1>13. Leads(s, out) \/ Stays(s, out)
  BY <1>1, <1>4, <1>12, Zenon
<1> QED
  BY <1>2, <1>13 DEF Goes

LEMMA SigchldControl ==
  ASSUME conf \in Configs, NEW s, Settled(s), s.control # "none", NEW f \in Results
  PROVE  Goes(s, service_sigchld_control(s, f))
<1> DEFINE g == IF s.state # "condition" /\ f = "skip" THEN "failure" ELSE f
           r == [s EXCEPT !.control = "none"]
           t == IF s.state = "reload" THEN r ELSE Result(r, g)
           u == [t EXCEPT !.control_next = 0]
           out == service_sigchld_control(s, f)
<1>1. out = service_run_next_control(t) \/ out = ControlGone(u, g)
  BY Zenon DEF service_sigchld_control
<1> SUFFICES Goes(s, out)
  OBVIOUS
<1> HIDE DEF out
<1>2. s \in Record /\ Sound(s) /\ Tidy(s) /\ g \in Results
  BY DEF Settled, Sound, Results
<1> HIDE DEF g
<1>3. s.state \notin Uncontrol /\ s.state \notin {"dead", "failed"}
  BY <1>2 DEF Tidy, Uncontrol
<1>4. r \in Record
  BY <1>2, ZenonT(40) DEF Record
<1>5. /\ r.control = "none" /\ r.state = s.state /\ r.main = s.main /\ r.pid_watch = s.pid_watch
      /\ r.main_pid_known = s.main_pid_known /\ r.notify_state = s.notify_state
      /\ r.timer = s.timer /\ Same(s, r)
  BY <1>2 DEF Record, Same
<1> HIDE DEF r
<1>6. Sound(r) /\ Prepares(s, r)
  BY <1>2, <1>4, <1>5 DEF Sound, Prepares
<1>7. Prepares(r, t) /\ Body(r, t) /\ t.timer = r.timer
  <2>1. Prepares(r, Result(r, g)) /\ Body(r, Result(r, g)) /\ Result(r, g).timer = r.timer
    BY <1>2, <1>6, ResultOf
  <2>2. Prepares(r, r) /\ Body(r, r)
    BY <1>6 DEF Prepares, Body, Same
  <2> QED
    BY <2>1, <2>2
<1> HIDE DEF t
<1>8. Prepares(s, t)
  BY <1>6, <1>7, ThenPrepares
<1>9. t \in Record
  BY <1>7 DEF Prepares, Sound
<1>10. u \in Record
  <2>1. 0 \in Int
    OBVIOUS
  <2> QED
    BY <1>9, <2>1, ZenonT(40) DEF Record
<1>11. Body(t, u) /\ Same(t, u) /\ u.timer = t.timer
  BY <1>9 DEF Record, Body, Same
<1> HIDE DEF u
<1>12. Sound(u)
  BY <1>7, <1>10, <1>11 DEF Prepares, Sound, Body
<1>13. /\ Prepares(s, u) /\ u.state = s.state /\ u.control = "none" /\ u.main = s.main
       /\ u.pid_watch = s.pid_watch
  BY <1>5, <1>7, <1>8, <1>11, <1>12 DEF Prepares, Body, Same
<1>14. Tidy(u)
  BY <1>2, <1>3, <1>13 DEF Tidy, Uncontrol, Over, Prepares, Same
<1>15. CASE out = service_run_next_control(t)
  <2>1. t.state = s.state /\ t.main = s.main /\ t.pid_watch = s.pid_watch
    BY <1>5, <1>7 DEF Body
  <2> QED
    BY <1>8, <1>15, <2>1, RunNextControl
<1>16. CASE out = ControlGone(u, g)
  <2>1. Goes(u, out)
    BY <1>2, <1>3, <1>12, <1>13, <1>14, <1>16, ControlEnds
  <2> QED
    BY <1>13, <2>1, ThenGoes
<1> QED
  BY <1>1, <1>15, <1>16

-----------------------------------------------------------------------------
(* The other events *)

LEMMA Prunes ==
  ASSUME NEW s, Sound(s), Tidy(s), s.state \in {"dead", "failed"}
  PROVE  Stays(s, Pruned(s))
<1> DEFINE x == s.changed /\ Populated(s)
           t == [s EXCEPT !.changed = x]
<1>1. s \in Record /\ s.changed \in BOOLEAN
  BY DEF Sound, Record
<1>2. x \in BOOLEAN
  BY <1>1, Questions
<1>3. Pruned(s) = t
  BY Zenon DEF Pruned
<1> HIDE DEF x
<1>4. t \in Record
  BY <1>1, <1>2, ZenonT(40) DEF Record
<1>5. /\ t.state = s.state /\ t.main = s.main /\ t.control = s.control /\ t.timer = s.timer
      /\ t.main_pid_known = s.main_pid_known /\ t.notify_state = s.notify_state
      /\ t.pid_watch = s.pid_watch /\ Same(s, t)
  BY <1>1 DEF Record, Same
<1> HIDE DEF t
<1>6. Sound(t) /\ Tidy(t)
  BY <1>4, <1>5 DEF Sound, Tidy, Same
<1>7. Waits(t)
  BY <1>5 DEF Waits, FinalStates
<1> QED
  BY <1>3, <1>5, <1>6, <1>7 DEF Stays, Settled, Same

(* The control group is empty: what stays in its state waits for a process *)
(* that is not reaped yet.                                                 *)
LEMMA CgroupEmpty ==
  ASSUME conf \in Configs, NEW c, Settled(c), NEW s, s = [c EXCEPT !.empty = FALSE]
  PROVE  Goes(c, service_notify_cgroup_empty_event(s))
<1> DEFINE out == service_notify_cgroup_empty_event(s)
           none == ~main_pid_alive(s) /\ ~control_pid_good(s)
           A == conf.type = "notify" /\ main_pid_dead(s) /\ none
           B == conf.exit_type = "cgroup" /\ ~main_pid_alive(s)
           C == conf.type # "notify" /\ conf.exit_type = "main" /\ s.pid_watch /\ main_pid_dead(s) /\ none
           D == s.pid_watch /\ main_pid_dead(s) /\ none
           Killing == {"stop-watchdog", "stop-sigterm", "stop-sigkill"}
           Finishing == {"stop-post"} \union FinalStates
<1>1. c \in Record /\ Sound(c) /\ Tidy(c) /\ Waits(c)
  BY DEF Settled, Sound
<1>2. s \in Record
  BY <1>1, ZenonT(40) DEF Record
<1>3. /\ s.state = c.state /\ s.main = c.main /\ s.control = c.control /\ s.stray = c.stray
      /\ s.main_pid_known = c.main_pid_known /\ s.notify_state = c.notify_state
      /\ s.pid_watch = c.pid_watch /\ s.timer = c.timer /\ Same(c, s)
  BY <1>1 DEF Record, Same
<1>4. Sound(s) /\ Prepares(c, s)
  BY <1>1, <1>2, <1>3 DEF Sound, Prepares
<1>5. Tidy(s)
  BY <1>1, <1>3 DEF Tidy, Same
<1>6. /\ main_pid_alive(s) <=> s.main # "none"
      /\ main_pid_dead(s) <=> (s.main_pid_known = TRUE /\ s.main = "none")
      /\ control_pid_good(s) <=> s.control # "none"
  BY <1>2, <1>4, Questions DEF Sound
<1>7. /\ s.pid_watch \in BOOLEAN /\ s.state \in States
      /\ s.pid_watch = TRUE => conf.type # "notify"
      /\ conf.exit_type \in {"main", "cgroup"}
  BY <1>2, <1>5, Settings DEF Record, Tidy
<1>8. "success" \in Results /\ "failure" \in Results
  BY DEF Results
<1>9. /\ Leads(s, service_enter_stop_post(s, "failure")) /\ Leads(s, service_enter_stop_post(s, "success"))
      /\ Leads(s, service_enter_stop(s, "failure")) /\ Leads(s, service_enter_running(s, "success"))
      /\ Leads(s, service_enter_dead(s, "success", TRUE))
  BY <1>4, <1>8, EnterStopPost, EnterStop, EnterRunning, EnterDead
<1>10. Waits(s) => Stays(s, s)
  BY <1>4, <1>5 DEF Stays, Settled, Same
<1> SUFFICES Goes(s, out)
  BY <1>3, <1>4, ThenGoes
<1> HIDE DEF out
<1>11. CASE s.state = "start"
  <2>1. A \/ B \/ C \/ Waits(s)
    <3>1. s.main_pid_known \in BOOLEAN
      BY <1>2 DEF Record
    <3>2. \/ s.control # "none" \/ s.main # "none" \/ s.pid_watch = TRUE
          \/ conf.exit_type = "cgroup"
      BY <1>1, <1>3, <1>11 DEF Waits, Awaits
    <3>3. \/ A \/ B \/ C \/ s.control # "none" \/ s.main # "none"
          \/ s.pid_watch = TRUE /\ s.main_pid_known = FALSE
      BY <1>6, <1>7, <3>1, <3>2
    <3>4. (\/ s.control # "none" \/ s.main # "none"
           \/ s.pid_watch = TRUE /\ s.main_pid_known = FALSE) => Waits(s)
      BY <1>11 DEF Waits, Awaits, FinalStates
    <3> QED
      BY <3>3, <3>4, Zenon
  <2>2. \/ out = service_enter_stop_post(s, "failure") \/ out = service_enter_stop_post(s, "success")
        \/ out = s /\ ~A /\ ~B /\ ~C
    BY <1>11, <1>7, Zenon DEF out, service_notify_cgroup_empty_event, FinalStates
  <2> QED
    BY <1>9, <1>10, <1>11, <2>1, <2>2, Zenon DEF Goes
<1>12. CASE s.state = "start-post"
  <2>1. D \/ Waits(s)
    <3>1. s.main_pid_known \in BOOLEAN
      BY <1>2 DEF Record
    <3>2. s.control # "none" \/ s.pid_watch = TRUE
      BY <1>1, <1>3, <1>12 DEF Waits, Awaits
    <3>3. \/ D \/ s.control # "none"
          \/ s.pid_watch = TRUE /\ s.main # "none"
          \/ s.pid_watch = TRUE /\ s.main_pid_known = FALSE
      BY <1>6, <1>7, <3>1, <3>2
    <3>4. (\/ s.control # "none"
           \/ s.pid_watch = TRUE /\ s.main # "none"
           \/ s.pid_watch = TRUE /\ s.main_pid_known = FALSE) => Waits(s)
      BY <1>12 DEF Waits, Awaits, Stirs, FinalStates
    <3> QED
      BY <3>3, <3>4, Zenon
  <2>2. out = service_enter_stop(s, "failure") \/ (out = s /\ ~D)
    BY <1>12, <1>7, Zenon DEF out, service_notify_cgroup_empty_event, FinalStates
  <2> QED
    BY <1>9, <1>10, <1>12, <2>1, <2>2, Zenon DEF Goes
<1>13. CASE s.state = "running"
  <2>1. out = service_enter_running(s, "success")
    BY <1>13 DEF out, service_notify_cgroup_empty_event, FinalStates
  <2> QED
    BY <1>9, <1>13, <2>1 DEF Goes
<1>14. CASE s.state \in Killing \union Finishing
  <2>1. none \/ Waits(s)
    BY <1>6, <1>14 DEF Waits, Stirs, FinalStates
  <2>2. \/ out = service_enter_stop_post(s, "success") \/ out = service_enter_dead(s, "success", TRUE)
        \/ out = s /\ ~none
    BY <1>14 DEF out, service_notify_cgroup_empty_event, FinalStates
  <2>3. s.state \notin {"dead", "failed"}
    BY <1>14 DEF FinalStates
  <2> QED
    BY <1>9, <1>10, <2>1, <2>2, <2>3, Zenon DEF Goes
<1>15. CASE s.state \in {"dead", "failed"}
  <2>1. out = Pruned(s)
    BY <1>15 DEF out, service_notify_cgroup_empty_event, FinalStates
  <2> QED
    BY <1>4, <1>5, <1>15, <2>1, Prunes DEF Goes
<1>16. CASE s.state \in {"condition", "start-pre", "exited", "reload", "auto-restart", "cleaning", "stop"}
  <2>1. out = s
    BY <1>16 DEF out, service_notify_cgroup_empty_event, FinalStates
  <2>2. Waits(s)
    BY <1>1, <1>3, <1>16 DEF Waits, FinalStates
  <2> QED
    BY <1>10, <2>1, <2>2 DEF Goes
<1> QED
  BY <1>7, <1>11, <1>12, <1>13, <1>14, <1>15, <1>16 DEF States, StopStates

LEMMA OutOfMemoryEvent ==
  ASSUME conf \in Configs, NEW s, Settled(s)
  PROVE  Goes(s, service_notify_cgroup_oom_event(s))
<1> DEFINE out == service_notify_cgroup_oom_event(s)
           harder == IF conf.oom_policy = "kill" THEN "stop-sigkill" ELSE "stop-sigterm"
<1>1. Sound(s) /\ Tidy(s) /\ Waits(s)
  BY DEF Settled
<1>2. /\ "failure" \in Results /\ harder \in SignalStates
      /\ "stop-sigkill" \in SignalStates /\ "final-sigkill" \in SignalStates
  BY DEF Results, SignalStates, FinalStates
<1>3. \/ /\ s.state \notin {"dead", "failed"}
         /\ \/ out = service_enter_signal(s, harder, "failure")
            \/ out = service_enter_signal(s, "stop-sigkill", "failure")
            \/ out = service_enter_signal(s, "final-sigkill", "failure")
            \/ out = service_enter_stop(s, "failure")
      \/ out = Result(s, "failure")
      \/ out = s
  BY DEF service_notify_cgroup_oom_event
<1> HIDE DEF out, harder
<1>4. /\ Leads(s, service_enter_signal(s, harder, "failure"))
      /\ Leads(s, service_enter_signal(s, "stop-sigkill", "failure"))
      /\ Leads(s, service_enter_signal(s, "final-sigkill", "failure"))
      /\ Leads(s, service_enter_stop(s, "failure"))
  BY <1>1, <1>2, EnterSignal, EnterStop
<1>5. Stays(s, Result(s, "failure"))
  <2> DEFINE r == Result(s, "failure")
  <2>1. Prepares(s, r) /\ Body(s, r) /\ r.timer = s.timer
    BY <1>1, <1>2, ResultOf
  <2> HIDE DEF r
  <2>2. Waits(r)
    BY <1>1, <2>1 DEF Waits, Awaits, Stirs, Body
  <2>3. Tidy(r)
    BY <1>1, <2>1 DEF Tidy, Body, Prepares, Same
  <2> QED
    BY <2>1, <2>2, <2>3 DEF Stays, Settled, Prepares, Same, Body, r
<1>6. Stays(s, s)
  BY DEF Stays, Same
<1>7. Goes(s, out)
  BY <1>3, <1>4, <1>5, <1>6, Zenon DEF Goes
<1> QED
  BY <1>7 DEF out

LEMMA NewJob ==
  ASSUME NEW s, Settled(s), NEW j \in {"none", "start", "stop", "restart", "reload"}, NEW b \in BOOLEAN,
         j = "stop" /\ b = TRUE => s.job = "stop" /\ s.running = TRUE,
         NEW t, t = [s EXCEPT !.job = j, !.running = b]
  PROVE  Stays(s, t)
<1>1. s \in Record
  BY DEF Settled, Sound
<1>2. t \in Record
  BY <1>1, ZenonT(40) DEF Record
<1>3. /\ Body(s, t) /\ t.timer = s.timer /\ t.forbid_restart = s.forbid_restart
      /\ t.stopped = s.stopped /\ t.job = j /\ t.running = b
  BY <1>1 DEF Record, Body
<1>4. Sound(t)
  BY <1>2, <1>3 DEF Settled, Sound, Body
<1>5. Waits(t)
  BY <1>3 DEF Settled, Waits, Awaits, Stirs, Body
<1>6. Tidy(t)
  BY <1>3 DEF Settled, Tidy, Body
<1> QED
  BY <1>3, <1>4, <1>5, <1>6 DEF Stays, Settled, Body

LEMMA Finished ==
  ASSUME NEW s, Settled(s)
  PROVE  Stays(s, job_finish_and_invalidate(s))
BY NewJob DEF job_finish_and_invalidate

LEMMA Installed ==
  ASSUME NEW s, Settled(s), NEW job \in {"start", "stop", "restart", "reload"}
  PROVE  Stays(s, job_install(s, job))
<1> DEFINE b == s.running /\ s.job = "restart" /\ job # "reload"
           j == Merged(s, job)
           out == job_install(s, job)
<1>1. \/ out = [s EXCEPT !.job = job, !.running = FALSE]
      \/ out = [s EXCEPT !.job = j, !.running = b]
  BY Zenon DEF job_install
<1>2. b \in BOOLEAN
  <2>1. s.running \in BOOLEAN
    BY DEF Settled, Sound, Record
  <2> QED
    BY <2>1
<1>3. j \in {"start", "restart", "reload"}
  BY DEF Merged
<1> SUFFICES Stays(s, out)
  OBVIOUS
<1> HIDE DEF b, j, out
<1>4. CASE out = [s EXCEPT !.job = job, !.running = FALSE]
  BY <1>4, NewJob
<1>5. CASE out = [s EXCEPT !.job = j, !.running = b]
  BY <1>2, <1>3, <1>5, NewJob
<1> QED
  BY <1>1, <1>4, <1>5

(* A timer that is forgotten is needed nowhere.                            *)
LEMMA TimerOff ==
  ASSUME NEW s, Settled(s), NEW r, r = [s EXCEPT !.timer = FALSE]
  PROVE  Prepares(s, r) /\ Settled(r) /\ Body(s, r)
<1>1. s \in Record
  BY DEF Settled, Sound
<1>2. r \in Record
  BY <1>1, ZenonT(40) DEF Record
<1>3. Body(s, r) /\ r.timer = FALSE /\ Same(s, r)
  BY <1>1 DEF Record, Body, Same
<1>4. Sound(r)
  BY <1>2, <1>3 DEF Settled, Sound, Body
<1>5. Waits(r)
  BY <1>3 DEF Settled, Waits, Awaits, Stirs, Body
<1>6. Tidy(r)
  BY <1>3 DEF Settled, Tidy, Body, Same
<1> QED
  BY <1>3, <1>4, <1>5, <1>6 DEF Settled, Prepares

LEMMA EnterRestart ==
  ASSUME conf \in Configs, NEW s, Settled(s), s.state \notin {"dead", "failed"}
  PROVE  Goes(s, service_enter_restart(s))
<1>1. Stays(s, s)
  BY DEF Stays
<1>2. Leads(s, service_enter_dead(s, "failure", FALSE))
  BY EnterDead DEF Settled, Results
<1>3. Stays(s, job_install(s, "restart"))
  BY Installed
<1> QED
  BY <1>1, <1>2, <1>3, Zenon DEF service_enter_restart, Goes

LEMMA DispatchTimer ==
  ASSUME conf \in Configs, NEW s, Settled(s), s.timer = TRUE
  PROVE  Goes(s, service_dispatch_timer(s))
<1> DEFINE r == [s EXCEPT !.timer = FALSE]
           out == service_dispatch_timer(s)
<1>1. Prepares(s, r) /\ Settled(r) /\ Body(s, r)
  BY TimerOff
<1>2. s.state \in States \ Over
  BY DEF Settled, Sound, Record, Tidy
<1>3. \/ \E x \in {"stop-sigterm", "stop-sigkill", "stop-watchdog", "final-sigterm", "final-sigkill", "final-watchdog"} :
           out = service_enter_signal(r, x, "failure")
      \/ out = service_enter_signal(r, "final-sigkill", "success")
      \/ out = service_enter_stop_post(r, "failure") \/ out = service_enter_stop(r, "failure")
      \/ out = service_enter_running(r, "success")
      \/ out = service_enter_dead(r, "failure", FALSE) \/ out = service_enter_dead(r, "failure", TRUE)
      \/ out = service_enter_restart(r)
  <2> DEFINE kill == KillOr(r, "stop-sigkill", service_enter_stop_post(r, "failure"))
             finalkill == KillOr(r, "final-sigkill", service_enter_dead(r, "failure", FALSE))
             terminated == IF conf.failure_mode = "abort"
                           THEN service_enter_signal(r, "stop-watchdog", "failure") ELSE kill
             finished == IF conf.failure_mode = "abort"
                         THEN service_enter_signal(r, "final-watchdog", "failure") ELSE finalkill
  <2>1. kill = service_enter_signal(r, "stop-sigkill", "failure") \/ kill = service_enter_stop_post(r, "failure")
    BY Zenon DEF KillOr
  <2>2. \/ finalkill = service_enter_signal(r, "final-sigkill", "failure")
        \/ finalkill = service_enter_dead(r, "failure", FALSE)
    BY Zenon DEF KillOr
  <2>3. \/ out = service_enter_signal(r, "stop-sigterm", "failure") \/ out = terminated
        \/ out = service_enter_stop(r, "failure") \/ out = service_enter_running(r, "success")
        \/ out = kill \/ out = service_enter_stop_post(r, "failure")
        \/ out = service_enter_signal(r, "final-sigterm", "failure") \/ out = finished
        \/ out = finalkill \/ out = service_enter_dead(r, "failure", TRUE)
        \/ out = service_enter_restart(r) \/ out = service_enter_signal(r, "final-sigkill", "success")
    <3> HIDE DEF out, kill, finalkill, r
    <3> QED
      BY <1>2 DEF out, service_dispatch_timer, States, Over, StopStates, FinalStates, kill, finalkill, r
  <2> HIDE DEF kill, finalkill, out, r
  <2> QED
    BY <2>1, <2>2, <2>3, Zenon
<1> SUFFICES Goes(s, out)
  OBVIOUS
<1> HIDE DEF out, r
<1>4. s.state \notin {"dead", "failed"} /\ r.state = s.state /\ Sound(r)
  BY <1>1, <1>2 DEF Over, Body, Settled
<1>5. "failure" \in Results /\ "success" \in Results /\ "final-sigkill" \in SignalStates
  BY DEF Results, SignalStates, FinalStates
<1>6. \A x \in SignalStates : Leads(r, service_enter_signal(r, x, "failure"))
  BY <1>4, <1>5, EnterSignal
<1>7. /\ Leads(r, service_enter_signal(r, "final-sigkill", "success"))
      /\ Leads(r, service_enter_stop_post(r, "failure")) /\ Leads(r, service_enter_stop(r, "failure"))
      /\ Leads(r, service_enter_running(r, "success"))
      /\ Leads(r, service_enter_dead(r, "failure", FALSE)) /\ Leads(r, service_enter_dead(r, "failure", TRUE))
  BY <1>4, <1>5, EnterSignal, EnterStopPost, EnterStop, EnterRunning, EnterDead
<1>8. Goes(r, service_enter_restart(r))
  BY <1>1, <1>4, EnterRestart
<1>9. {"stop-sigterm", "stop-sigkill", "stop-watchdog", "final-sigterm", "final-sigkill", "final-watchdog"}
        \subseteq SignalStates
  BY DEF SignalStates, FinalStates
<1>10. Leads(r, out) \/ Goes(r, out)
  BY <1>3, <1>6, <1>7, <1>8, <1>9, Zenon
<1>11. Goes(r, out)
  BY <1>4, <1>10 DEF Goes
<1> QED
  BY <1>1, <1>4, <1>11, ThenGoes

LEMMA DispatchWatchdog ==
  ASSUME conf \in Configs, NEW s, Settled(s)
  PROVE  Leads(s, service_dispatch_watchdog(s))
<1>1. "stop-watchdog" \in SignalStates /\ "failure" \in Results /\ Sound(s)
  BY DEF SignalStates, Results, Settled
<1> QED
  BY <1>1, EnterSignal DEF service_dispatch_watchdog

(* A message, which a known main process has sent.                         *)
LEMMA Notified ==
  ASSUME NEW s, Settled(s), s.main # "none", NEW x \in {"ready", "reloading", "stopping"},
         NEW r, r = [s EXCEPT !.notify_state = x]
  PROVE  Prepares(s, r) /\ Settled(r) /\ r.state = s.state /\ r.main # "none" /\ Stays(s, r)
<1>1. s \in Record
  BY DEF Settled, Sound
<1>2. r \in Record
  BY <1>1, ZenonT(40) DEF Record
<1>3. /\ r.state = s.state /\ r.main = s.main /\ r.control = s.control /\ r.pid_watch = s.pid_watch
      /\ r.main_pid_known = s.main_pid_known /\ r.stray = s.stray /\ r.changed = s.changed
      /\ r.empty = s.empty /\ r.timer = s.timer /\ Same(s, r)
  BY <1>1 DEF Record, Same
<1>4. Sound(r)
  BY <1>2, <1>3 DEF Settled, Sound
<1>5. Waits(r)
  BY <1>3 DEF Settled, Waits, Awaits, Stirs
<1>6. Tidy(r)
  BY <1>3 DEF Settled, Tidy, Same
<1> QED
  BY <1>3, <1>4, <1>5, <1>6 DEF Prepares, Settled, Stays, Same

LEMMA NotifyMessage ==
  ASSUME conf \in Configs, NEW s, Settled(s), s.main # "none",
         NEW tag \in {"READY", "RELOADING", "STOPPING", "MAINPID", "WATCHDOG"}
  PROVE  Goes(s, service_notify_message(s, tag))
<1> DEFINE out == service_notify_message(s, tag)
<1>1. s.state \notin Unmain /\ s.state \notin {"dead", "failed"} /\ Sound(s)
  BY DEF Settled, Tidy, Unmain
<1>2. "success" \in Results
  BY DEF Results
<1>3. CASE tag = "READY"
  <2> DEFINE r == [s EXCEPT !.notify_state = "ready"]
             t == IF conf.type = "notify" /\ s.state = "start" THEN service_enter_start_post(r) ELSE r
             u == service_enter_running(t, "success")
  <2>1. out = t \/ (out = u /\ t.state = "reload")
    BY <1>3 DEF service_notify_message
  <2>2. Prepares(s, r) /\ Settled(r) /\ Stays(s, r)
    BY Notified
  <2> HIDE DEF r
  <2>3. Leads(s, service_enter_start_post(r))
    <3>1. Leads(r, service_enter_start_post(r))
      BY <2>2, EnterStartPost DEF Settled
    <3> QED
      BY <2>2, <3>1, Then
  <2>4. t = r \/ Leads(s, t)
    BY <2>3, Zenon
  <2>5. Sound(t)
    BY <2>2, <2>4 DEF Leads, Settled
  <2> HIDE DEF t
  <2>6. Leads(t, u)
    BY <1>2, <2>5, EnterRunning
  <2> HIDE DEF u
  <2>7. t.state = "reload" => Leads(s, u)
    BY <2>2, <2>4, <2>6, Then, ThenLeads
  <2> QED
    BY <1>1, <2>1, <2>2, <2>4, <2>7 DEF Goes
<1>4. CASE tag = "RELOADING"
  <2> DEFINE r == [s EXCEPT !.notify_state = "reloading"]
             t == service_enter_reload_by_notify(r)
  <2>1. out = t \/ out = r
    BY <1>4 DEF service_notify_message
  <2>2. Prepares(s, r) /\ Settled(r) /\ Stays(s, r) /\ r.main # "none"
    BY Notified
  <2> HIDE DEF r
  <2>3. Leads(r, t)
    BY <2>2, EnterByNotify DEF Settled
  <2> HIDE DEF t
  <2>4. Leads(s, t)
    BY <2>2, <2>3, Then
  <2> QED
    BY <1>1, <2>1, <2>2, <2>4 DEF Goes
<1>5. CASE tag = "STOPPING"
  <2> DEFINE r == [s EXCEPT !.notify_state = "stopping"]
             t == service_enter_stop_by_notify(r)
  <2>1. out = t \/ out = r
    BY <1>5 DEF service_notify_message
  <2>2. Prepares(s, r) /\ Settled(r) /\ Stays(s, r) /\ r.main # "none"
    BY Notified
  <2> HIDE DEF r
  <2>3. Leads(r, t)
    BY <2>2, EnterByNotify DEF Settled
  <2> HIDE DEF t
  <2>4. Leads(s, t)
    BY <2>2, <2>3, Then
  <2> QED
    BY <1>1, <2>1, <2>2, <2>4 DEF Goes
<1>6. CASE tag = "MAINPID"
  <2>1. out = Adopt(s) \/ out = s
    BY <1>6 DEF service_notify_message
  <2>2. Stays(s, Adopt(s))
    <3> DEFINE t == Adopt(s)
    <3>1. /\ Prepares(s, t) /\ t.main = "alive" /\ t.control = s.control /\ t.state = s.state
          /\ t.pid_watch = s.pid_watch
      BY <1>1, Adopted
    <3> HIDE DEF t
    <3>2. Sound(t) /\ Same(s, t)
      BY <3>1 DEF Prepares
    <3>3. Stays(s, t)
      BY <1>1, <3>1, <3>2, MainRuns
    <3> QED
      BY <3>3 DEF t
  <2>3. Stays(s, s)
    BY DEF Stays
  <2> QED
    BY <2>1, <2>2, <2>3, Zenon DEF Goes
<1>7. CASE tag = "WATCHDOG"
  <2>1. out = service_dispatch_watchdog(s)
    BY <1>7 DEF service_notify_message
  <2> QED
    BY <1>1, <2>1, DispatchWatchdog DEF Goes
<1> QED
  BY <1>3, <1>4, <1>5, <1>6, <1>7

LEMMA BusName ==
  ASSUME conf \in Configs, NEW s, Settled(s), NEW owned \in BOOLEAN
  PROVE  Goes(s, service_bus_name_owner_change(s, owned))
<1> DEFINE r == [s EXCEPT !.bus_name_good = owned]
           out == service_bus_name_owner_change(s, owned)
<1>1. \/ s.state = "running" /\ out = service_enter_running(r, "success")
      \/ s.state = "start" /\ out = service_enter_start_post(r)
      \/ out = r
  BY Zenon DEF service_bus_name_owner_change
<1> SUFFICES Goes(s, out)
  OBVIOUS
<1> HIDE DEF out
<1>2. s \in Record
  BY DEF Settled, Sound
<1>3. r \in Record
  BY <1>2, ZenonT(40) DEF Record
<1>4. Body(s, r) /\ r.timer = s.timer /\ Same(s, r)
  BY <1>2 DEF Record, Body, Same
<1> HIDE DEF r
<1>5. Sound(r)
  BY <1>3, <1>4 DEF Settled, Sound, Body
<1>6. Waits(r)
  BY <1>4 DEF Settled, Waits, Awaits, Stirs, Body
<1>7. Tidy(r)
  BY <1>4 DEF Settled, Tidy, Body, Same
<1>8. Stays(s, r) /\ Prepares(s, r)
  BY <1>4, <1>5, <1>6, <1>7 DEF Stays, Settled, Prepares, Body, Same
<1>9. Leads(r, service_enter_running(r, "success")) /\ Leads(r, service_enter_start_post(r))
  BY <1>5, EnterRunning, EnterStartPost DEF Results
<1>10. Leads(s, service_enter_running(r, "success")) /\ Leads(s, service_enter_start_post(r))
  BY <1>8, <1>9, Then
<1> QED
  BY <1>1, <1>8, <1>10 DEF Goes

-----------------------------------------------------------------------------
(* What the steps call *)

(* An automatic restart is only begun for a service that nobody stopped.   *)
Allowed(s, t) ==
  t.state = "auto-restart" /\ s.state # "auto-restart" => t.stopped = FALSE /\ s.job # "stop"

Proper(s, t) == Settled(t) /\ Remembers(t) /\ Allowed(s, t)

LEMMA GoesProperly ==
  ASSUME NEW s, Settled(s), Remembers(s), NEW t, Goes(s, t)
  PROVE  Proper(s, t)
<1>1. /\ s.stopped \in BOOLEAN /\ s.forbid_restart \in BOOLEAN /\ s.running \in BOOLEAN
  BY DEF Settled, Sound, Record
<1>2. CASE Leads(s, t) /\ s.state \notin {"dead", "failed"}
  <2>1. Settled(t) /\ t.stopped = s.stopped
    BY <1>2 DEF Leads, Keeps
  <2>2. t.state = "auto-restart" => s.forbid_restart = FALSE /\ ~(s.job = "stop" /\ s.running = FALSE)
    BY <1>1, <1>2 DEF Leads, Keeps, Held
  <2>3. t.state = "auto-restart" => t.stopped = FALSE /\ s.job # "stop"
    BY <1>1, <1>2, <2>1, <2>2 DEF Remembers, Firm
  <2>4. Remembers(t)
    BY <1>2, <2>1, <2>3 DEF Remembers, Leads, Keeps
  <2> QED
    BY <2>1, <2>3, <2>4 DEF Proper, Allowed
<1>3. CASE Stays(s, t)
  BY <1>3 DEF Stays, Proper, Allowed, Remembers, Firm
<1> QED
  BY <1>2, <1>3 DEF Goes

LEMMA Starts ==
  ASSUME conf \in Configs, NEW s, Settled(s), s.state \in {"dead", "failed"}, s.job = "start"
  PROVE  Proper(s, service_start(s))
<1> DEFINE q == [s EXCEPT !.result = "success", !.main_pid_known = FALSE, !.forbid_restart = FALSE,
                          !.notify_state = "unknown", !.stopped = FALSE]
           out == service_enter_condition(q)
<1>1. s \in Record /\ s.main = "none"
  BY DEF Settled, Sound, Tidy, Unmain
<1>2. service_start(s) = out
  BY DEF service_start
<1>3. q \in Record
  BY <1>1, ZenonT(40) DEF Record
<1>4. q.main = s.main /\ q.notify_state = "unknown" /\ q.stopped = FALSE /\ q.job = s.job
  BY <1>1 DEF Record
<1> HIDE DEF q
<1>5. Sound(q)
  BY <1>1, <1>3, <1>4 DEF Sound
<1>6. Leads(q, out)
  BY <1>5, EnterCondition
<1> HIDE DEF out
<1>7. Settled(out) /\ out.stopped = FALSE /\ ~(out.job = "stop" /\ out.running = TRUE)
  BY <1>4, <1>6 DEF Leads, Keeps
<1> QED
  BY <1>2, <1>7 DEF Proper, Remembers, Firm, Allowed

(* A stop is remembered whatever the state is.                             *)
LEMMA Stops ==
  ASSUME conf \in Configs, NEW s, Settled(s), s.state \notin {"dead", "failed"}
  PROVE  /\ Settled(service_stop(s)) /\ Remembers(service_stop(s))
         /\ service_stop(s).state # "auto-restart"
<1> DEFINE t == [s EXCEPT !.forbid_restart = TRUE, !.stopped = TRUE]
           out == service_stop(s)
           dead == service_set_state(t, "dead")
<1>1. \/ out = t /\ s.state # "auto-restart"
      \/ out = dead
      \/ out = service_enter_signal(t, "final-sigkill", "success")
      \/ out = service_enter_stop(t, "success")
      \/ out = service_enter_signal(t, "stop-sigterm", "success")
  BY DEF service_stop, Going, StopStates, FinalStates
<1>2. s \in Record
  BY DEF Settled, Sound
<1>3. t \in Record
  BY <1>2, ZenonT(40) DEF Record
<1>4. /\ Body(s, t) /\ t.timer = s.timer /\ t.job = s.job /\ t.running = s.running
      /\ t.forbid_restart = TRUE /\ t.stopped = TRUE
  BY <1>2 DEF Record, Body
<1> HIDE DEF t
<1>5. Sound(t)
  BY <1>3, <1>4 DEF Settled, Sound, Body
<1>6. Waits(t)
  BY <1>4 DEF Settled, Waits, Awaits, Stirs, Body
<1>7. Tidy(t)
  BY <1>4 DEF Settled, Tidy, Body
<1>8. /\ "dead" \in States /\ "success" \in Results
      /\ "final-sigkill" \in SignalStates /\ "stop-sigterm" \in SignalStates
  BY DEF States, Results, SignalStates, FinalStates
<1>9. ASSUME NEW u, Leads(t, u)
      PROVE  Settled(u) /\ Remembers(u) /\ u.state # "auto-restart"
  <2>1. Settled(u) /\ u.stopped = TRUE /\ u.state # "auto-restart"
    BY <1>4, <1>9 DEF Leads, Keeps, Held
  <2>2. u.state \notin {"dead", "failed"} => Firm(u)
    BY <1>4, <1>9 DEF Leads, Keeps, Firm
  <2> QED
    BY <2>1, <2>2 DEF Remembers
<1>10. Settled(dead) /\ Remembers(dead) /\ dead.state = "dead"
  <2>1. Entered(t, dead, "dead")
    BY <1>5, <1>8, SetState
  <2> HIDE DEF dead
  <2>2. Waits(dead)
    BY <2>1 DEF Entered, Waits, FinalStates
  <2> QED
    BY <1>4, <2>1, <2>2 DEF Entered, Settled, Remembers
<1> HIDE DEF dead
<1>11. /\ Leads(t, service_enter_signal(t, "final-sigkill", "success"))
       /\ Leads(t, service_enter_stop(t, "success"))
       /\ Leads(t, service_enter_signal(t, "stop-sigterm", "success"))
  BY <1>5, <1>8, EnterSignal, EnterStop
<1>12. Settled(t) /\ t.state = s.state /\ (s.state # "auto-restart" => Remembers(t))
  BY <1>4, <1>5, <1>6, <1>7 DEF Settled, Remembers, Firm, Body
<1> SUFFICES Settled(out) /\ Remembers(out) /\ out.state # "auto-restart"
  OBVIOUS
<1> HIDE DEF out
<1>13. CASE out = t /\ s.state # "auto-restart"
  BY <1>12, <1>13
<1>14. CASE out = dead
  BY <1>10, <1>14
<1>15. CASE \/ out = service_enter_signal(t, "final-sigkill", "success")
            \/ out = service_enter_stop(t, "success")
            \/ out = service_enter_signal(t, "stop-sigterm", "success")
  <2>1. Leads(t, out)
    BY <1>11, <1>15, Zenon
  <2> QED
    BY <1>9, <2>1
<1> QED
  BY <1>1, <1>13, <1>14, <1>15

LEMMA StartLimit ==
  ASSUME conf \in Configs, NEW s, Settled(s)
  PROVE  Proper(s, service_can_start_limit(s))
<1> DEFINE d == service_enter_dead(s, "failure", FALSE)
           out == job_finish_and_invalidate(d)
<1>1. service_can_start_limit(s) = out
  BY DEF service_can_start_limit
<1>2. Leads(s, d) /\ d.state \in {"dead", "failed"}
  BY EnterDead DEF Settled, Results
<1> HIDE DEF d
<1>3. Stays(d, out) /\ out.job = "none"
  <2>1. d \in Record /\ Settled(d)
    BY <1>2 DEF Leads, Settled, Sound
  <2>2. out.job = "none"
    BY <2>1 DEF job_finish_and_invalidate, Record
  <2> QED
    BY <2>1, <2>2, Finished
<1> HIDE DEF out
<1> QED
  BY <1>1, <1>2, <1>3 DEF Stays, Proper, Remembers, Allowed

LEMMA Cleans ==
  ASSUME conf \in Configs, NEW s, Settled(s), s.job = "none"
  PROVE  Proper(s, service_clean(s))
<1> DEFINE r == service_arm_timer(s)
           q == [r EXCEPT !.control = "alive", !.stopped = FALSE]
           out == service_set_state(q, "cleaning")
<1>1. service_clean(s) = out
  BY DEF service_clean
<1>2. Prepares(s, r) /\ Body(s, r)
  BY Armed DEF Settled
<1>3. r \in Record
  BY <1>2 DEF Prepares, Sound
<1> HIDE DEF r
<1>4. q \in Record
  BY <1>3, ZenonT(40) DEF Record
<1>5. /\ q.control = "alive" /\ q.stopped = FALSE /\ q.main = r.main /\ q.job = r.job
      /\ q.main_pid_known = r.main_pid_known /\ q.notify_state = r.notify_state
  BY <1>3 DEF Record
<1> HIDE DEF q
<1>6. Sound(q)
  BY <1>2, <1>4, <1>5 DEF Prepares, Sound
<1>7. "cleaning" \in States
  BY DEF States
<1>8. Entered(q, out, "cleaning")
  BY <1>6, <1>7, SetState
<1> HIDE DEF out
<1>9. Waits(out)
  BY <1>5, <1>8 DEF Entered, Uncontrol, Waits, FinalStates
<1>10. q.job = "none"
  BY <1>2, <1>5 DEF Prepares, Same
<1> QED
  BY <1>1, <1>5, <1>8, <1>9, <1>10 DEF Entered, Settled, Proper, Remembers, Firm, Allowed

LEMMA Resets ==
  ASSUME NEW s, Settled(s), Remembers(s)
  PROVE  Proper(s, service_reset_failed(s))
<1> DEFINE d == IF s.state = "failed" THEN service_set_state(s, "dead") ELSE s
           out == [d EXCEPT !.result = "success"]
<1>1. service_reset_failed(s) = out
  BY DEF service_reset_failed
<1>2. /\ Settled(d) /\ Remembers(d) /\ Allowed(s, d)
  <2>1. CASE s.state = "failed"
    <3> DEFINE t == service_set_state(s, "dead")
    <3>1. Entered(s, t, "dead")
      BY SetState DEF Settled, States
    <3> HIDE DEF t
    <3>2. Waits(t)
      BY <3>1 DEF Entered, Waits, FinalStates
    <3>3. Settled(t) /\ Remembers(t) /\ Allowed(s, t)
      BY <3>1, <3>2 DEF Entered, Settled, Remembers, Tidy, Allowed
    <3> QED
      BY <2>1, <3>3 DEF t
  <2>2. CASE s.state # "failed"
    BY <2>2 DEF Allowed
  <2> QED
    BY <2>1, <2>2
<1> HIDE DEF d
<1>3. d \in Record
  BY <1>2 DEF Settled, Sound
<1>4. out \in Record
  BY <1>3, ZenonT(40) DEF Record
<1>5. Body(d, out) /\ out.timer = d.timer /\ Same(d, out)
  BY <1>3 DEF Record, Body, Same
<1> HIDE DEF out
<1>6. Sound(out)
  BY <1>2, <1>4, <1>5 DEF Settled, Sound, Body
<1>7. Waits(out)
  BY <1>2, <1>5 DEF Settled, Waits, Awaits, Stirs, Body
<1>8. Tidy(out)
  BY <1>2, <1>5 DEF Settled, Tidy, Body, Same
<1>9. Remembers(out) /\ Allowed(s, out)
  BY <1>2, <1>5 DEF Remembers, Firm, Allowed, Body, Same
<1> QED
  BY <1>1, <1>6, <1>7, <1>8, <1>9 DEF Proper, Settled

-----------------------------------------------------------------------------
(* Steps *)

LEMMA Fails ==
  ASSUME NEW s \in Record, NEW b \in SUBSET (Commands \union {"next", "restart"})
  PROVE  [s EXCEPT !.broken = b] \in Record
BY ZenonT(40) DEF Record

LEMMA FindsOne ==
  ASSUME NEW s \in Record, NEW f \in {"no", "the only one", "one of several"}
  PROVE  [s EXCEPT !.found = f] \in Record
BY ZenonT(40) DEF Record

LEMMA Choice ==
  ASSUME NEW s \in Record, NEW b \in SUBSET (Commands \union {"next", "restart"}),
         NEW f \in {"no", "the only one", "one of several"},
         NEW u, u = [s EXCEPT !.broken = b, !.found = f]
  PROVE  u \in Record
<1> DEFINE t == [s EXCEPT !.broken = b]
<1>1. t \in Record
  BY Fails
<1>2. u = [t EXCEPT !.found = f]
  OBVIOUS
<1> HIDE DEF t
<1>3. [t EXCEPT !.found = f] \in Record
  BY <1>1, FindsOne
<1> QED
  BY <1>2, <1>3

LEMMA Chance ==
  ASSUME IInv, NEW c \in Chances
  PROVE  /\ Settled(c) /\ Remembers(c)
         /\ c.state = svc.state /\ c.main = svc.main /\ c.control = svc.control
         /\ c.job = svc.job /\ c.timer = svc.timer /\ c.pid_watch = svc.pid_watch
<1>0. PICK b \in Failures, f \in Findings : c = Chosen(b, f)
  BY DEF Chances
<1>1. c = [svc EXCEPT !.broken = b, !.found = f]
  BY <1>0 DEF Chosen
<1>2. b \in SUBSET (Commands \union {"next", "restart"})
  BY DEF Failures
<1>3. f \in {"no", "the only one", "one of several"}
  BY DEF Findings
<1>4. svc \in Record /\ Settled(svc) /\ Remembers(svc)
  BY DEF IInv, Settled, Sound
<1>5. c \in Record
  BY <1>1, <1>2, <1>3, <1>4, Choice
<1>6. /\ c.state = svc.state /\ c.main = svc.main /\ c.control = svc.control /\ c.timer = svc.timer
      /\ c.main_pid_known = svc.main_pid_known /\ c.notify_state = svc.notify_state
      /\ c.stray = svc.stray /\ c.changed = svc.changed /\ c.empty = svc.empty
      /\ c.pid_watch = svc.pid_watch /\ Same(svc, c)
  BY <1>1, <1>4 DEF Record, Same
<1>7. Sound(c)
  BY <1>4, <1>5, <1>6 DEF Settled, Sound
<1>8. Waits(c)
  BY <1>4, <1>6 DEF Settled, Waits, Awaits, Stirs
<1>9. Tidy(c)
  BY <1>4, <1>6 DEF Settled, Tidy, Same
<1>10. Remembers(c)
  BY <1>4, <1>6 DEF Remembers, Firm, Same
<1> QED
  BY <1>6, <1>7, <1>8, <1>9, <1>10 DEF Settled, Same

(* What a handler leaves settled stays so when its step ends.              *)
LEMMA StepEnds ==
  ASSUME IInv, NEW s, Proper(svc, s), NEW cost, Step(s, cost)
  PROVE  IInv' /\ Allowed(svc, svc')
<1> DEFINE x == s.changed \/ Populated(svc) # Populated(s)
<1>1. svc' = [s EXCEPT !.broken = {}, !.found = "no", !.changed = x] /\ conf' = conf
  BY Zenon DEF Step
<1>2. s \in Record /\ s.changed \in BOOLEAN
  BY DEF Proper, Settled, Sound, Record
<1>3. x \in BOOLEAN /\ (s.changed = TRUE => x = TRUE)
  BY <1>2, Zenon
<1> HIDE DEF x
<1>4. svc' \in Record
  <2> DEFINE q == [s EXCEPT !.broken = {}, !.found = "no"]
  <2>1. q \in Record
    BY <1>2, Choice
  <2>2. svc' = [q EXCEPT !.changed = x]
    BY <1>1
  <2> HIDE DEF q
  <2> QED
    BY <1>3, <2>1, <2>2, ZenonT(40) DEF Record
<1>5. /\ svc'.state = s.state /\ svc'.main = s.main /\ svc'.control = s.control /\ svc'.timer = s.timer
      /\ svc'.main_pid_known = s.main_pid_known /\ svc'.notify_state = s.notify_state
      /\ svc'.stray = s.stray /\ svc'.changed = x /\ svc'.empty = s.empty
      /\ svc'.pid_watch = s.pid_watch /\ Same(s, svc')
  BY <1>1, <1>2 DEF Record, Same
<1>6. Sound(svc)'
  BY <1>4, <1>5 DEF Proper, Settled, Sound
<1>7. Waits(svc)'
  BY <1>1, <1>3, <1>5 DEF Proper, Settled, Waits, Awaits, Stirs
<1>8. Tidy(svc)'
  BY <1>1, <1>5 DEF Proper, Settled, Tidy, Same
<1>9. Remembers(svc)' /\ Allowed(svc, svc')
  BY <1>5 DEF Proper, Remembers, Allowed, Firm, Same
<1> QED
  BY <1>1, <1>6, <1>7, <1>8, <1>9 DEF IInv, Settled


(* What the step of a handler keeps.                                       *)
Kept == IInv' /\ Allowed(svc, svc')

LEMMA StepKeeps ==
  ASSUME IInv, NEW s, Proper(svc, s), Becomes(s) \/ Other(s)
  PROVE  Kept
<1>1. \E cost \in Int : Step(s, cost)
  <2>1. CASE Becomes(s)
    <3>1. Step(s, 0) \/ Step(s, 1)
      BY <2>1, Zenon DEF Becomes
    <3> QED
      BY <3>1
  <2>2. CASE Other(s)
    <3>1. Step(s, 1)
      BY <2>2, Zenon DEF Other
    <3> QED
      BY <3>1
  <2> QED
    BY <2>1, <2>2
<1>2. PICK cost \in Int : Step(s, cost)
  BY <1>1
<1> QED
  BY <1>2, StepEnds, Zenon DEF Kept

LEMMA ChanceKeeps ==
  ASSUME IInv, NEW c \in Chances, NEW s, Proper(c, s), Becomes(s) \/ Other(s)
  PROVE  Kept
<1>1. c.state = svc.state /\ c.job = svc.job
  BY Chance
<1>2. Proper(svc, s)
  BY <1>1 DEF Proper, Allowed
<1> QED
  BY <1>2, StepKeeps, Zenon

LEMMA ChanceGoes ==
  ASSUME IInv, NEW c \in Chances, NEW s, Goes(c, s), Becomes(s) \/ Other(s)
  PROVE  Kept
<1>1. Settled(c) /\ Remembers(c)
  BY Chance
<1>2. Proper(c, s)
  BY <1>1, GoesProperly
<1> QED
  BY <1>2, ChanceKeeps, Zenon

LEMMA GoesKeeps ==
  ASSUME IInv, NEW s, Goes(svc, s), Becomes(s) \/ Other(s)
  PROVE  Kept
<1>1. Proper(svc, s)
  BY GoesProperly DEF IInv
<1> QED
  BY <1>1, StepKeeps, Zenon

-----------------------------------------------------------------------------
(* The manager *)

(* A job that begins to run, before its method is called.                  *)
LEMMA Runs ==
  ASSUME NEW c, Settled(c), Remembers(c), NEW s, s = [c EXCEPT !.running = TRUE]
  PROVE  /\ Sound(s) /\ Body(c, s) /\ s.timer = c.timer /\ s.state = c.state /\ s.job = c.job
         /\ s.stopped = c.stopped /\ s.forbid_restart = c.forbid_restart
         /\ c.state \notin {"dead", "failed"} => Settled(s)
         /\ c.job # "stop" => Settled(s) /\ Remembers(s)
<1>1. c \in Record
  BY DEF Settled, Sound
<1>2. s \in Record
  BY <1>1, ZenonT(40) DEF Record
<1>3. /\ Body(c, s) /\ s.timer = c.timer /\ s.job = c.job /\ s.running = TRUE
      /\ s.stopped = c.stopped /\ s.forbid_restart = c.forbid_restart
  BY <1>1 DEF Record, Body
<1>4. Sound(s)
  BY <1>2, <1>3 DEF Settled, Sound, Body
<1>5. Waits(s)
  BY <1>3 DEF Settled, Waits, Awaits, Stirs, Body
<1>6. c.state \notin {"dead", "failed"} \/ c.job # "stop" => Tidy(s)
  BY <1>3 DEF Settled, Tidy, Body
<1>7. c.job # "stop" => Remembers(s)
  BY <1>3 DEF Remembers, Firm, Body
<1> QED
  BY <1>3, <1>4, <1>5, <1>6, <1>7 DEF Settled, Body

LEMMA Lives ==
  ASSUME NEW state \in States
  PROVE  ActiveState(state) \in Inactive <=> state \in {"dead", "failed"}
BY DEF ActiveState, Inactive, States, StopStates, FinalStates

(* A stop or restart job finds the service down.                           *)
LEMMA JobOver ==
  ASSUME NEW c, Settled(c), NEW s, Sound(s), Body(c, s), s.timer = c.timer,
         s.state \in {"dead", "failed"}, NEW ns, ns \in Inactive, NEW t, t = unit_process_job(s, ns)
  PROVE  Settled(t) /\ Remembers(t) /\ t.state = s.state
<1>0. Told(s, ns, t)
  BY Processed, Zenon
<1>1. Sound(t) /\ Body(s, t) /\ t.timer = s.timer /\ t.job # "stop"
  BY <1>0 DEF Told
<1>2. Waits(t)
  BY <1>1 DEF Waits, Body, FinalStates
<1>3. Tidy(t)
  BY <1>1 DEF Settled, Tidy, Body
<1> QED
  BY <1>1, <1>2, <1>3 DEF Settled, Remembers, Body

LEMMA JobRuns ==
  ASSUME IInv, job_run_and_invalidate
  PROVE  Kept
<1> DEFINE S(c) == [c EXCEPT !.running = TRUE]
<1>1. PICK c \in Chances :
        \/ /\ S(c).job = "start" /\ ActiveState(S(c).state) \in {"active", "reloading"}
           /\ Becomes(job_finish_and_invalidate(S(c)))
        \/ S(c).job = "start" /\ ActiveState(S(c).state) = "activating" /\ Becomes(S(c))
        \/ /\ S(c).job = "start" /\ ActiveState(S(c).state) \in Inactive
           /\ Becomes(service_start(S(c)))
        \/ /\ S(c).job \in {"stop", "restart"}
           /\ Becomes(IF ActiveState(S(c).state) \in Inactive THEN unit_notify(S(c))
                      ELSE service_stop(S(c)))
        \/ /\ S(c).job = "reload"
           /\ Becomes(IF ActiveState(S(c).state) = "active" THEN service_enter_reload(S(c))
                      ELSE job_finish_and_invalidate(S(c)))
  BY Zenon DEF job_run_and_invalidate
<1> DEFINE s == S(c)
<1>2. conf \in Configs /\ Settled(c) /\ Remembers(c)
  BY Chance DEF IInv
<1>3. /\ Sound(s) /\ Body(c, s) /\ s.timer = c.timer /\ s.state = c.state /\ s.job = c.job
      /\ s.stopped = c.stopped /\ s.forbid_restart = c.forbid_restart
      /\ c.state \notin {"dead", "failed"} => Settled(s)
      /\ c.job # "stop" => Settled(s) /\ Remembers(s)
  BY <1>2, Runs
<1> SUFFICES ASSUME NEW t, Becomes(t),
                    \/ s.job = "start" /\ t = job_finish_and_invalidate(s)
                    \/ s.job = "start" /\ t = s
                    \/ s.job = "start" /\ ActiveState(s.state) \in Inactive /\ t = service_start(s)
                    \/ /\ s.job \in {"stop", "restart"} /\ ActiveState(s.state) \in Inactive
                       /\ t = unit_notify(s)
                    \/ /\ s.job \in {"stop", "restart"} /\ ActiveState(s.state) \notin Inactive
                       /\ t = service_stop(s)
                    \/ /\ s.job = "reload" /\ ActiveState(s.state) = "active"
                       /\ t = service_enter_reload(s)
                    \/ s.job = "reload" /\ t = job_finish_and_invalidate(s)
             PROVE  Proper(c, t)
  <2> HIDE DEF s
  <2>1. \E t : Becomes(t) /\ Proper(c, t)
    BY <1>1, Zenon DEF s
  <2> QED
    BY <2>1, ChanceKeeps, Zenon
<1> HIDE DEF s, S
<1>4. ActiveState(s.state) \in Inactive <=> s.state \in {"dead", "failed"}
  BY <1>3, Lives DEF Sound, Record
<1>5. CASE s.job \in {"start", "reload"} /\ t = job_finish_and_invalidate(s)
  <2>1. Stays(s, t)
    BY <1>3, <1>5, Finished
  <2>2. Proper(s, t)
    BY <1>3, <1>5, <2>1, GoesProperly DEF Goes
  <2> QED
    BY <1>3, <2>2 DEF Proper, Allowed
<1>6. CASE s.job = "start" /\ t = s
  BY <1>3, <1>6 DEF Proper, Allowed
<1>7. CASE s.job = "start" /\ ActiveState(s.state) \in Inactive /\ t = service_start(s)
  <2>1. Proper(s, t)
    BY <1>2, <1>3, <1>4, <1>7, Starts
  <2> QED
    BY <1>3, <2>1 DEF Proper, Allowed
<1>8. CASE /\ s.job \in {"stop", "restart"} /\ ActiveState(s.state) \in Inactive
           /\ t = unit_notify(s)
  <2> DEFINE ns == ActiveState(s.state)
  <2>1. t = unit_process_job(s, ns) /\ ns \in Inactive
    BY <1>8 DEF unit_notify
  <2> HIDE DEF ns
  <2>2. Settled(t) /\ Remembers(t) /\ t.state = s.state
    BY <1>2, <1>3, <1>4, <1>8, <2>1, JobOver
  <2> QED
    BY <1>4, <1>8, <2>2 DEF Proper, Allowed
<1>9. CASE /\ s.job \in {"stop", "restart"} /\ ActiveState(s.state) \notin Inactive
           /\ t = service_stop(s)
  BY <1>2, <1>3, <1>4, <1>9, Stops DEF Proper, Allowed
<1>10. CASE s.job = "reload" /\ ActiveState(s.state) = "active" /\ t = service_enter_reload(s)
  <2>1. Leads(s, t)
    BY <1>2, <1>3, <1>10, EnterReload
  <2>2. s.state \notin {"dead", "failed"}
    BY <1>4, <1>10 DEF Inactive
  <2>3. Proper(s, t)
    BY <1>3, <1>10, <2>1, <2>2, GoesProperly DEF Goes
  <2> QED
    BY <1>3, <2>3 DEF Proper, Allowed
<1> QED
  BY <1>5, <1>6, <1>7, <1>8, <1>9, <1>10


LEMMA ChildEnds ==
  ASSUME IInv, service_sigchld_event
  PROVE  Kept
<1>1. PICK c \in Chances :
        \/ c.main \in {"ok", "failed"} /\ Becomes(service_sigchld_main(c, Outcome(c.main)))
        \/ /\ c.control \in {"ok", "failed", "skip"}
           /\ Becomes(service_sigchld_control(c, Outcome(c.control)))
  BY Zenon DEF service_sigchld_event
<1>2. conf \in Configs /\ Settled(c)
  BY Chance DEF IInv
<1>3. Outcome(c.main) \in Results /\ Outcome(c.control) \in Results
  BY DEF Outcome, Results
<1>4. CASE c.main \in {"ok", "failed"} /\ Becomes(service_sigchld_main(c, Outcome(c.main)))
  <2>1. Goes(c, service_sigchld_main(c, Outcome(c.main)))
    BY <1>2, <1>3, <1>4, SigchldMain
  <2> QED
    BY <1>4, <2>1, ChanceGoes, Zenon
<1>5. CASE /\ c.control \in {"ok", "failed", "skip"}
           /\ Becomes(service_sigchld_control(c, Outcome(c.control)))
  <2>1. Goes(c, service_sigchld_control(c, Outcome(c.control)))
    BY <1>2, <1>3, <1>5, SigchldControl
  <2> QED
    BY <1>5, <2>1, ChanceGoes, Zenon
<1> QED
  BY <1>1, <1>4, <1>5

LEMMA GroupRead ==
  ASSUME IInv, on_cgroup_inotify_event
  PROVE  Kept
<1> DEFINE x == ~Populated(svc)
           t == [svc EXCEPT !.changed = FALSE, !.empty = x]
<1>1. svc \in Record /\ Settled(svc)
  BY DEF IInv, Settled, Sound
<1>2. x \in BOOLEAN
  OBVIOUS
<1>3. x = TRUE \/ svc.stray = TRUE \/ svc.main = "alive" \/ svc.control = "alive"
  BY <1>1, Questions, Zenon
<1> HIDE DEF x
<1>4. t \in Record
  BY <1>1, <1>2, ZenonT(40) DEF Record
<1>5. /\ t.state = svc.state /\ t.main = svc.main /\ t.control = svc.control /\ t.timer = svc.timer
      /\ t.main_pid_known = svc.main_pid_known /\ t.notify_state = svc.notify_state
      /\ t.stray = svc.stray /\ t.empty = x /\ t.pid_watch = svc.pid_watch /\ Same(svc, t)
  BY <1>1 DEF Record, Same
<1>6. Becomes(t)
  BY Zenon DEF on_cgroup_inotify_event, x
<1> HIDE DEF t
<1>7. Sound(t)
  BY <1>1, <1>4, <1>5 DEF Settled, Sound
<1>8. Stirs(t)
  BY <1>3, <1>5 DEF Stirs
<1>9. Waits(t)
  BY <1>1, <1>5, <1>8 DEF Settled, Waits, Awaits
<1>10. Tidy(t)
  BY <1>1, <1>5 DEF Settled, Tidy, Same
<1>11. Goes(svc, t)
  BY <1>5, <1>7, <1>9, <1>10 DEF Goes, Stays, Settled, Same
<1> QED
  BY <1>6, <1>11, GoesKeeps

LEMMA GroupEmpty ==
  ASSUME IInv, on_cgroup_empty_event
  PROVE  Kept
<1> DEFINE S(c) == [c EXCEPT !.empty = FALSE]
<1>1. PICK c \in Chances : Becomes(service_notify_cgroup_empty_event(S(c)))
  BY Zenon DEF on_cgroup_empty_event
<1>2. Goes(c, service_notify_cgroup_empty_event(S(c)))
  BY Chance, CgroupEmpty DEF IInv
<1> QED
  BY <1>1, <1>2, ChanceGoes, Zenon

LEMMA TimerExpires ==
  ASSUME IInv, Timer
  PROVE  Kept
<1>1. PICK c \in Chances : Becomes(service_dispatch_timer(c))
  BY Zenon DEF Timer
<1>2. c.timer = TRUE /\ Settled(c) /\ conf \in Configs
  <2>1. svc.timer \in BOOLEAN /\ svc.timer
    BY DEF IInv, Settled, Sound, Record, Timer
  <2>2. svc.timer = TRUE
    BY <2>1, Zenon
  <2> QED
    BY <2>2, Chance DEF IInv
<1>3. Goes(c, service_dispatch_timer(c))
  BY <1>2, DispatchTimer
<1> QED
  BY <1>1, <1>3, ChanceGoes, Zenon

-----------------------------------------------------------------------------
(* The processes *)

LEMMA ProcessEnds ==
  ASSUME IInv, NEW p \in {"main", "control"}, NEW outcome \in {"ok", "failed", "skip"},
         Ends(p, outcome)
  PROVE  Kept
<1> DEFINE t == [svc EXCEPT ![p] = outcome]
<1>1. svc \in Record /\ Settled(svc)
  BY DEF IInv, Settled, Sound
<1>2. svc[p] = "alive" /\ (p = "main" => outcome \in {"ok", "failed"}) /\ Becomes(t)
  BY DEF Ends
<1>3. CASE p = "main"
  <2> DEFINE u == [svc EXCEPT !.main = outcome]
  <2>1. t = u /\ svc.main = "alive"
    BY <1>2, <1>3
  <2>2. u \in Record
    BY <1>1, <1>2, <1>3, ZenonT(40) DEF Record
  <2>3. u.state = svc.state /\ u.main = outcome /\ u.control = svc.control
        /\ u.main_pid_known = svc.main_pid_known /\ u.notify_state = svc.notify_state
        /\ u.pid_watch = svc.pid_watch /\ Same(svc, u)
    BY <1>1 DEF Record, Same
  <2> HIDE DEF u, t
  <2>4. Sound(u)
    BY <1>1, <2>1, <2>2, <2>3 DEF Settled, Sound
  <2>5. svc.state \notin Unmain
    BY <1>1, <2>1 DEF Settled, Tidy
  <2>6. Stays(svc, u)
    BY <1>1, <2>3, <2>4, <2>5, MainRuns
  <2> QED
    BY <1>2, <2>1, <2>6, GoesKeeps DEF Goes
<1>4. CASE p = "control"
  <2> DEFINE u == [svc EXCEPT !.control = outcome]
  <2>1. t = u /\ svc.control = "alive"
    BY <1>2, <1>4
  <2>2. u \in Record
    BY <1>1, <1>2, <1>4, ZenonT(40) DEF Record
  <2>3. u.state = svc.state /\ u.main = svc.main /\ u.control = outcome
        /\ u.main_pid_known = svc.main_pid_known /\ u.notify_state = svc.notify_state
        /\ u.pid_watch = svc.pid_watch /\ Same(svc, u)
    BY <1>1 DEF Record, Same
  <2> HIDE DEF u, t
  <2>4. Sound(u)
    BY <1>1, <2>1, <2>2, <2>3 DEF Settled, Sound
  <2>5. svc.state \notin Uncontrol /\ Tidy(svc)
    BY <1>1, <2>1 DEF Settled, Tidy
  <2>6. Stays(svc, u)
    BY <2>3, <2>4, <2>5, ControlRuns
  <2> QED
    BY <1>2, <2>1, <2>6, GoesKeeps DEF Goes
<1> QED
  BY <1>3, <1>4


LEMMA ProcessForks ==
  ASSUME IInv, Forks
  PROVE  Kept
<1> DEFINE t == [svc EXCEPT !.stray = TRUE]
<1>1. svc \in Record /\ Settled(svc)
  BY DEF IInv, Settled, Sound
<1>2. t \in Record
  BY <1>1, ZenonT(40) DEF Record
<1>3. /\ t.state = svc.state /\ t.main = svc.main /\ t.control = svc.control /\ t.timer = svc.timer
      /\ t.main_pid_known = svc.main_pid_known /\ t.notify_state = svc.notify_state
      /\ t.stray = TRUE /\ t.pid_watch = svc.pid_watch /\ Same(svc, t)
  BY <1>1 DEF Record, Same
<1>4. Becomes(t)
  BY Zenon DEF Forks
<1> HIDE DEF t
<1>5. Sound(t)
  BY <1>1, <1>2, <1>3 DEF Settled, Sound
<1>6. Waits(t)
  BY <1>1, <1>3 DEF Settled, Waits, Awaits, Stirs
<1>7. Tidy(t)
  BY <1>1, <1>3 DEF Settled, Tidy, Same
<1>8. Goes(svc, t)
  BY <1>3, <1>5, <1>6, <1>7 DEF Goes, Stays, Settled, Same
<1> QED
  BY <1>4, <1>8, GoesKeeps

(* The kernel tells of the end of the last one.                            *)
LEMMA StraysGone ==
  ASSUME IInv, StraysEnd
  PROVE  Kept
<1> DEFINE t == [svc EXCEPT !.stray = FALSE]
           x == t.changed \/ Populated(svc) # Populated(t)
<1>1. svc \in Record /\ Settled(svc) /\ Remembers(svc) /\ conf \in Configs
  BY DEF IInv, Settled, Sound
<1>2. svc.stray = TRUE
  <2>1. svc.stray \in BOOLEAN /\ svc.stray
    BY <1>1 DEF Record, StraysEnd
  <2> QED
    BY <2>1, Zenon
<1>3. t \in Record
  BY <1>1, ZenonT(40) DEF Record
<1>4. /\ t.state = svc.state /\ t.main = svc.main /\ t.control = svc.control /\ t.timer = svc.timer
      /\ t.main_pid_known = svc.main_pid_known /\ t.notify_state = svc.notify_state
      /\ t.stray = FALSE /\ t.pid_watch = svc.pid_watch /\ t.changed = svc.changed
      /\ t.empty = svc.empty /\ t.broken = svc.broken /\ Same(svc, t)
  BY <1>1 DEF Record, Same
<1>5. svc' = [t EXCEPT !.broken = {}, !.found = "no", !.changed = x] /\ conf' = conf
  BY Zenon DEF StraysEnd, Becomes, Step
<1> HIDE DEF t
<1>6. x \in BOOLEAN
  <2>1. t.changed \in BOOLEAN
    BY <1>3 DEF Record
  <2> QED
    BY <2>1, Zenon
<1>7. x = TRUE \/ t.main # "none" \/ t.control # "none"
  <2>1. Populated(svc)
    BY <1>1, <1>2, Questions
  <2>2. CASE Populated(t)
    <3>1. t.main = "alive" \/ t.control = "alive"
      BY <1>3, <1>4, <2>2, Questions
    <3> QED
      BY <3>1
  <2>3. CASE ~Populated(t)
    BY <1>6, <2>1, <2>3, Zenon
  <2> QED
    BY <2>2, <2>3
<1> HIDE DEF x
<1>8. svc' \in Record
  <2> DEFINE q == [t EXCEPT !.broken = {}, !.found = "no"]
  <2>1. q \in Record
    BY <1>3, Choice
  <2>2. svc' = [q EXCEPT !.changed = x]
    BY <1>5
  <2> HIDE DEF q
  <2> QED
    BY <1>6, <2>1, <2>2, ZenonT(40) DEF Record
<1>9. /\ svc'.state = svc.state /\ svc'.main = svc.main /\ svc'.control = svc.control
      /\ svc'.timer = svc.timer /\ svc'.main_pid_known = svc.main_pid_known
      /\ svc'.notify_state = svc.notify_state /\ svc'.changed = x
      /\ svc'.pid_watch = svc.pid_watch /\ Same(svc, svc')
  BY <1>3, <1>4, <1>5 DEF Record, Same
<1>10. Sound(svc)'
  BY <1>1, <1>8, <1>9 DEF Settled, Sound
<1>11. Stirs(svc)'
  BY <1>4, <1>7, <1>9 DEF Stirs
<1>12. Waits(svc)'
  BY <1>1, <1>5, <1>9, <1>11 DEF Settled, Waits, Awaits
<1>13. Tidy(svc)'
  BY <1>1, <1>5, <1>9 DEF Settled, Tidy, Same
<1>14. Remembers(svc)' /\ Allowed(svc, svc')
  BY <1>1, <1>9 DEF Remembers, Allowed, Firm, Same
<1> QED
  BY <1>1, <1>5, <1>10, <1>12, <1>13, <1>14 DEF Kept, IInv, Settled

LEMMA ServiceIsUp ==
  ASSUME IInv, IsUp
  PROVE  Kept
<1>1. PICK c \in Chances :
        \/ svc.main # "none" /\ Becomes(service_notify_message(c, "READY"))
        \/ svc.state = "start" /\ Becomes(service_enter_start_post(c))
        \/ Becomes(service_bus_name_owner_change(c, TRUE))
        \/ svc.pid_watch /\ Becomes(service_enter_running(Adopt(c), "success"))
  BY Zenon DEF IsUp
<1>2. /\ conf \in Configs /\ Settled(c) /\ Sound(c) /\ c.state = svc.state /\ c.main = svc.main
      /\ c.pid_watch = svc.pid_watch
  BY Chance DEF IInv, Settled
<1>3. CASE svc.main # "none" /\ Becomes(service_notify_message(c, "READY"))
  <2>1. Goes(c, service_notify_message(c, "READY"))
    BY <1>2, <1>3, NotifyMessage
  <2> QED
    BY <1>3, <2>1, ChanceGoes, Zenon
<1>4. CASE svc.state = "start" /\ Becomes(service_enter_start_post(c))
  <2>1. Leads(c, service_enter_start_post(c))
    BY <1>2, EnterStartPost
  <2>2. Goes(c, service_enter_start_post(c))
    BY <1>2, <1>4, <2>1 DEF Goes
  <2> QED
    BY <1>4, <2>2, ChanceGoes, Zenon
<1>5. CASE Becomes(service_bus_name_owner_change(c, TRUE))
  <2>1. Goes(c, service_bus_name_owner_change(c, TRUE))
    BY <1>2, BusName
  <2> QED
    BY <1>5, <2>1, ChanceGoes, Zenon
<1>6. CASE svc.pid_watch /\ Becomes(service_enter_running(Adopt(c), "success"))
  <2> DEFINE t == service_enter_running(Adopt(c), "success")
  <2>1. Prepares(c, Adopt(c))
    BY <1>2, Adopted
  <2>2. Leads(Adopt(c), t)
    BY <1>2, <2>1, EnterRunning DEF Prepares, Results
  <2>3. Becomes(t)
    BY <1>6
  <2> HIDE DEF t
  <2>4. Leads(c, t)
    BY <2>1, <2>2, Then
  <2>5. svc.pid_watch = TRUE
    <3>1. svc.pid_watch \in BOOLEAN
      BY DEF IInv, Settled, Sound, Record
    <3> QED
      BY <1>6, <3>1, Zenon
  <2>6. c.state \notin {"dead", "failed"}
    BY <1>2, <2>5 DEF Settled, Tidy
  <2>7. Goes(c, t)
    BY <2>4, <2>6 DEF Goes
  <2> QED
    BY <2>3, <2>7, ChanceGoes
<1> QED
  BY <1>1, <1>3, <1>4, <1>5, <1>6

LEMMA LosesName ==
  ASSUME IInv, NameLost
  PROVE  Kept
<1>1. PICK c \in Chances : \/ Other(service_bus_name_owner_change(c, FALSE))
                           \/ Becomes(service_bus_name_owner_change(c, FALSE))
  BY Zenon DEF NameLost
<1>2. Goes(c, service_bus_name_owner_change(c, FALSE))
  BY Chance, BusName DEF IInv
<1> QED
  BY <1>1, <1>2, ChanceGoes, Zenon


-----------------------------------------------------------------------------
(* Users and the service *)

LEMMA IsRequested ==
  ASSUME IInv, NEW job \in {"start", "stop", "restart", "reload"}, Request(job)
  PROVE  Kept
<1>1. Goes(svc, job_install(svc, job))
  BY Installed DEF IInv, Goes
<1>2. Other(job_install(svc, job))
  BY DEF Request
<1> QED
  BY <1>1, <1>2, GoesKeeps, Zenon

LEMMA IsCancelled ==
  ASSUME IInv, Cancel
  PROVE  Kept
<1>1. Goes(svc, job_finish_and_invalidate(svc))
  BY Finished DEF IInv, Goes
<1>2. Other(job_finish_and_invalidate(svc))
  BY DEF Cancel
<1> QED
  BY <1>1, <1>2, GoesKeeps, Zenon

LEMMA SendsMessage ==
  ASSUME IInv, NEW tag \in {"RELOADING", "STOPPING", "MAINPID", "WATCHDOG"}, Message(tag)
  PROVE  Kept
<1>1. PICK c \in Chances : Other(service_notify_message(c, tag))
  BY Zenon DEF Message
<1>2. conf \in Configs /\ Settled(c) /\ c.main # "none"
  BY Chance DEF IInv, Message
<1>3. Goes(c, service_notify_message(c, tag))
  BY <1>2, NotifyMessage
<1> QED
  BY <1>1, <1>3, ChanceGoes, Zenon

LEMMA RunsOutOfMemory ==
  ASSUME IInv, OutOfMemory
  PROVE  Kept
<1>1. PICK c \in Chances : Other(service_notify_cgroup_oom_event(c))
  BY Zenon DEF OutOfMemory
<1>2. Goes(c, service_notify_cgroup_oom_event(c))
  BY Chance, OutOfMemoryEvent DEF IInv
<1> QED
  BY <1>1, <1>2, ChanceGoes, Zenon

LEMMA HitsLimit ==
  ASSUME IInv, start_limit_hit
  PROVE  Kept
<1>1. Proper(svc, service_can_start_limit(svc))
  BY StartLimit DEF IInv
<1>2. Other(service_can_start_limit(svc))
  BY DEF start_limit_hit
<1> QED
  BY <1>1, <1>2, StepKeeps, Zenon

LEMMA MissesWatchdog ==
  ASSUME IInv, Watchdog
  PROVE  Kept
<1>1. PICK c \in Chances : Other(service_dispatch_watchdog(c))
  BY Zenon DEF Watchdog
<1>2. conf \in Configs /\ Settled(c) /\ c.state \notin {"dead", "failed"}
  BY Chance DEF IInv, Watchdog
<1>3. Leads(c, service_dispatch_watchdog(c))
  BY <1>2, DispatchWatchdog
<1>4. Goes(c, service_dispatch_watchdog(c))
  BY <1>2, <1>3 DEF Goes
<1> QED
  BY <1>1, <1>4, ChanceGoes, Zenon

LEMMA IsCleaned ==
  ASSUME IInv, Clean
  PROVE  Kept
<1>1. Proper(svc, service_clean(svc))
  BY Cleans DEF IInv, Clean
<1>2. Other(service_clean(svc))
  BY DEF Clean
<1> QED
  BY <1>1, <1>2, StepKeeps, Zenon

LEMMA IsReset ==
  ASSUME IInv, ResetFailed
  PROVE  Kept
<1>1. Proper(svc, service_reset_failed(svc))
  BY Resets DEF IInv
<1>2. Other(service_reset_failed(svc))
  BY DEF ResetFailed
<1> QED
  BY <1>1, <1>2, StepKeeps, Zenon

-----------------------------------------------------------------------------
(* Theorems *)

LEMMA InitInv == Init => IInv
<1> SUFFICES ASSUME Init PROVE IInv
  OBVIOUS
<1>1. svc \in Record
  BY SMTT(30) DEF Init, Record, States
<1>2. /\ svc.state = "dead" /\ svc.notify_state = "unknown" /\ svc.timer = FALSE /\ svc.main = "none"
      /\ svc.control = "none" /\ svc.pid_watch = FALSE /\ svc.job = "none" /\ svc.stopped = FALSE
  BY DEF Init
<1> QED
  BY <1>1, <1>2 DEF Init, IInv, Settled, Sound, Waits, Tidy, Remembers, Unmain, FinalStates

LEMMA NextKeeps ==
  ASSUME IInv, [Next]_vars
  PROVE  IInv' /\ (svc' = svc \/ Allowed(svc, svc'))
<1>1. CASE Manager
  BY <1>1, JobRuns, ChildEnds, GroupRead, GroupEmpty, TimerExpires DEF Manager, Kept
<1>2. CASE Processes
  BY <1>2, ProcessEnds, ProcessForks, StraysGone, ServiceIsUp, LosesName DEF Processes, Kept
<1>3. CASE Others
  BY <1>3, IsRequested, IsCancelled, SendsMessage, RunsOutOfMemory, HitsLimit, MissesWatchdog,
     IsCleaned, IsReset DEF Others, Kept
<1>4. CASE UNCHANGED vars
  <2>1. svc' = svc /\ conf' = conf
    BY <1>4 DEF vars
  <2> QED
    BY <2>1, SMTT(30) DEF IInv, Settled, Sound, Waits, Awaits, Stirs, Tidy, Remembers, Firm
<1> QED
  BY <1>1, <1>2, <1>3, <1>4 DEF Next


LEMMA IInvAlways == Spec => []IInv
<1>1. IInv /\ [Next]_vars => IInv'
  BY NextKeeps
<1> QED
  BY InitInv, <1>1, PTL DEF Spec

(* Whatever the unit file says and in whatever order service.c learns of   *)
(* the ends of the main process, of control processes and of the rest of   *)
(* the control group, a service none of whose processes is left does not   *)
(* wait for one of them, but for the three cases that NoneLeft names.      *)
THEOREM NoneLeftAlways == Spec => []NoneLeft
<1>1. IInv => NoneLeft
  <2> SUFFICES ASSUME IInv, Quiet
               PROVE  svc.state \in Over \/ Stranded \/ Unread \/ Unready
    BY DEF NoneLeft, Over
  <2>1. svc \in Record /\ Waits(svc)
    BY DEF IInv, Settled, Sound
  <2>2. /\ svc.timer \in BOOLEAN /\ svc.changed \in BOOLEAN /\ svc.empty \in BOOLEAN
        /\ svc.stray \in BOOLEAN /\ svc.pid_watch \in BOOLEAN /\ svc.main_pid_known \in BOOLEAN
        /\ svc.state \in States
    BY <2>1 DEF Record
  <2>3. /\ ~Populated(svc) /\ ~Zombies /\ svc.timer = FALSE
        /\ svc.changed = FALSE /\ svc.empty = FALSE
    BY <2>2, Zenon DEF Quiet
  <2>4. svc.stray = FALSE /\ svc.main # "alive" /\ svc.control # "alive"
    BY <2>1, <2>2, <2>3, Questions
  <2>5. svc.main = "none" /\ svc.control = "none"
    BY <2>3, <2>4 DEF Zombies
  <2>6. ~Stirs(svc)
    BY <2>3, <2>4, <2>5 DEF Stirs
  <2>7. Awaits(svc) => Unread
    <3>1. Awaits(svc) => svc.pid_watch = TRUE /\ svc.main_pid_known = FALSE
      BY <2>6 DEF Awaits
    <3> QED
      BY <3>1, Zenon DEF Unread
  <2>8. svc.state = "auto-restart" => Stranded
    BY <2>3, Zenon DEF Stranded
  <2>9. svc.state = "reload" => Unready
    BY <2>1, <2>5 DEF Waits, Unready
  <2>10. svc.state \in {"start", "start-post"} => Unread
    BY <2>1, <2>5, <2>6, <2>7 DEF Waits
  <2>11. svc.state \in Over \union {"auto-restart", "reload", "start", "start-post"}
    BY <2>1, <2>2, <2>5, <2>6 DEF Waits, Over, States, StopStates, FinalStates
  <2> QED
    BY <2>8, <2>9, <2>10, <2>11
<1> QED
  BY IInvAlways, <1>1, PTL

(* Once service_stop() was called, or while a stop job waits, no step of   *)
(* service.c takes the service to auto-restart: forbid_restart, or the     *)
(* waiting job, is still there when service_enter_dead() decides.          *)
THEOREM StoppedStaysDownAlways == Spec => StoppedStaysDown
<1> DEFINE A == svc'.state = "auto-restart" /\ svc.state # "auto-restart" =>
                  ~svc'.stopped /\ svc.job # "stop"
<1>1. IInv /\ [Next]_vars => [A]_vars
  <2> SUFFICES ASSUME IInv, [Next]_vars PROVE A
    OBVIOUS
  <2>1. svc' = svc \/ Allowed(svc, svc')
    BY NextKeeps
  <2>2. CASE svc' = svc
    BY <2>2
  <2>3. CASE Allowed(svc, svc')
    <3>1. svc'.state = "auto-restart" /\ svc.state # "auto-restart" =>
            svc'.stopped = FALSE /\ svc.job # "stop"
      BY <2>3 DEF Allowed
    <3> QED
      BY <3>1, Zenon
  <2> QED
    BY <2>1, <2>2, <2>3
<1> QED
  BY IInvAlways, <1>1, PTL DEF Spec, StoppedStaysDown
=============================================================================
