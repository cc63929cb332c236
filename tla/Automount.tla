------------------------------ MODULE Automount ------------------------------
(***************************************************************************)
(* An automount unit (automount.c), as operators on the record of what the *)
(* service manager and the kernel know of the automount unit and of the    *)
(* mount unit that it triggers; module Mount has the mount unit and the    *)
(* steps of both.                                                          *)
(*                                                                         *)
(* A process that enters the directory waits in the kernel for the answer  *)
(* to its token, and so does the thread that expires an idle mount.  Not   *)
(* modelled: failing to open /dev/autofs, and a unit that is masked.       *)
(***************************************************************************)
EXTENDS Naturals

AutomountStates == {"dead", "waiting", "running", "failed"}

(* automount_send_ready(): the field which of s holds tokens.              *)
automount_send_ready(s, which) ==
  [s EXCEPT !.waiters = @ \ s[which], ![which] = {}]

(* unmount_autofs(): the kernel lets all go whose request was not read.    *)
(* Kernel() of module Mount detaches what is mounted there.                *)
unmount_autofs(s) == [s EXCEPT !.waiters = {}, !.tokens = {}, !.expire_tokens = {}]

automount_set_state(s, state) ==
  LET t == [s EXCEPT !.auto = state, !.timer = @ /\ state = "running"]
  IN  IF state \in {"waiting", "running"} THEN t ELSE unmount_autofs(t)

automount_enter_dead(s, success) ==
  automount_set_state(s, IF success THEN "dead" ELSE "failed")

automount_start_expire(s) == [s EXCEPT !.timer = TRUE]

(* Mutated: a mount that cannot be removed is not reported to the thread   *)
(* that expires it.                                                        *)
Unmountable_failed == {"mounting", "mounting-done", "unmounting-sigterm", "unmounting-sigkill",
                       "failed"}

(* The states after which an attempt to expire the mount has failed.       *)
Unmountable == {"mounting", "mounting-done", "mounted", "remounting", "remounting-sigterm",
                "remounting-sigkill", "unmounting-sigterm", "unmounting-sigkill", "failed"}

(* "The mount is in some unhappy state now."                               *)
Unhappy == {"dead", "unmounting", "remounting-sigterm", "remounting-sigkill",
            "unmounting-sigterm", "unmounting-sigkill", "failed"}

(* The mount unit has changed, or its job is over.                         *)
automount_trigger_notify(s) ==
  LET established ==
        IF s.state \notin {"mounted", "remounting"} THEN s
        ELSE automount_set_state(automount_start_expire(automount_send_ready(s, "tokens")),
                                 "running")
      expired ==
        IF s.state \notin Unmountable \union {"dead"} THEN established
        ELSE automount_send_ready(established, "expire_tokens")
  IN  CASE s.auto \notin {"waiting", "running"} -> s
        [] s.auto \in {"waiting", "running"} /\ s.start_limit_hit ->
             automount_enter_dead(s, FALSE)
        [] s.auto \in {"waiting", "running"} /\ ~s.start_limit_hit /\ s.job # "none" -> s
        [] OTHER -> IF s.state \notin Unhappy THEN expired
                    ELSE automount_set_state(automount_send_ready(expired, "tokens"),
                                             "waiting")
=============================================================================
