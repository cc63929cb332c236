----------------------------- MODULE MountProofs -----------------------------
(***************************************************************************)
(* Proofs about Mount, for any number of mounts, requests, interventions   *)
(* and retries: the mount unit follows the kernel, and whoever waits for   *)
(* the automount point is remembered.                                      *)
(***************************************************************************)
EXTENDS Mount, TLAPS

States == MOUNT_STATE_WITH_PROCESS \union {"dead", "mounted", "failed"}
Token == 1 .. MaxTokens
Commands == {"mount", "umount", "remount", "clean"}

Record ==
  [state : States, success : BOOLEAN, from_proc : BOOLEAN, n_retry : Nat,
   job : {"none", "start", "stop", "reload"}, running : BOOLEAN, start_limit_hit : BOOLEAN,
   process : Commands \union {"none"}, acted : BOOLEAN,
   ended : {"no", "ok", "failed", "killed"}, auto : AutomountStates, timer : BOOLEAN,
   tokens : SUBSET Token, expire_tokens : SUBSET Token, waiters : SUBSET Token,
   astray : BOOLEAN]

Typed ==
  /\ unit \in Record
  /\ mounted \in 0 .. MaxMounts /\ changed \in BOOLEAN
  /\ pipe \in Seq([what : {"missing", "expire"}, token : Token])
  /\ next \in Nat \ {0} /\ others \in Nat

(* The unit watches a process exactly in the states that have one.         *)
Watched(s) ==
  /\ s.process # "none" <=> s.state \in MOUNT_STATE_WITH_PROCESS
  /\ s.ended # "no" => s.process # "none"

(* What a state says about the mount, in the light of the last mountinfo   *)
(* that was read.                                                          *)
Believes(s) ==
  /\ s.state \in {"mounted", "mounting-done"} => s.from_proc
  /\ s.state \in {"dead", "failed", "mounting"} => s.astray \/ ~s.from_proc
  /\ s.state = "cleaning" => s.astray

(* Who waits has a token, or a request among asked; none is left behind by *)
(* an automount unit that is down.                                         *)
Kept(s, asked) ==
  /\ s.waiters \subseteq s.tokens \union s.expire_tokens \union asked
  /\ s.auto \notin {"waiting", "running"} =>
       s.tokens = {} /\ s.expire_tokens = {} /\ s.waiters = {}

(* Tokens are kept only while something is under way.                      *)
Settled(s) ==
  s.tokens # {} \/ s.expire_tokens # {} =>
    s.job # "none" \/ s.state \in MOUNT_STATE_WITH_PROCESS

Asked == {pipe[i].token : i \in DOMAIN pipe}

Good(s, asked) == s \in Record /\ Watched(s) /\ Believes(s) /\ Kept(s, asked) /\ Settled(s)

(* Mountinfo that has not changed since is what the unit remembers.        *)
UpToDate == ~changed => (unit.from_proc <=> mounted > 0)

IInv == Typed /\ Good(unit, Asked) /\ UpToDate

(* The fields of the mount unit that the automount unit has no hand in.    *)
Same(s, t) ==
  /\ t.state = s.state /\ t.from_proc = s.from_proc /\ t.astray = s.astray
  /\ t.process = s.process /\ t.ended = s.ended

LEMMA Ready ==
  ASSUME NEW asked, NEW s \in Record, Kept(s, asked),
         NEW which \in {"tokens", "expire_tokens"},
         NEW t, t = automount_send_ready(s, which)
  PROVE  /\ t \in Record /\ Same(s, t) /\ Kept(t, asked)
         /\ t.job = s.job /\ t.auto = s.auto
         /\ t.tokens = (IF which = "tokens" THEN {} ELSE s.tokens)
         /\ t.expire_tokens = (IF which = "expire_tokens" THEN {} ELSE s.expire_tokens)
  <1>1. CASE which = "tokens"
    <2>1. t = [s EXCEPT !.waiters = s.waiters \ s.tokens, !.tokens = {}]
      BY Zenon, <1>1 DEF automount_send_ready
    <2>2. t \in Record
      BY Zenon, <2>1 DEF Record
    <2>3. t.waiters = s.waiters \ s.tokens /\ t.tokens = {} /\ t.expire_tokens = s.expire_tokens
          /\ Same(s, t) /\ t.job = s.job /\ t.auto = s.auto
      BY <2>1 DEF Record, Same
    <2> QED BY <1>1, <2>2, <2>3 DEF Kept
  <1>2. CASE which = "expire_tokens"
    <2>1. t = [s EXCEPT !.waiters = s.waiters \ s.expire_tokens, !.expire_tokens = {}]
      BY Zenon, <1>2 DEF automount_send_ready
    <2>2. t \in Record
      BY Zenon, <2>1 DEF Record
    <2>3. t.waiters = s.waiters \ s.expire_tokens /\ t.tokens = s.tokens /\ t.expire_tokens = {}
          /\ Same(s, t) /\ t.job = s.job /\ t.auto = s.auto
      BY <2>1 DEF Record, Same
    <2> QED BY <1>2, <2>2, <2>3 DEF Kept
  <1> QED BY <1>1, <1>2


LEMMA AutoState ==
  ASSUME NEW asked, NEW s \in Record, Kept(s, asked), NEW state \in AutomountStates,
         NEW t, t = automount_set_state(s, state)
  PROVE  /\ t \in Record /\ Same(s, t) /\ Kept(t, asked) /\ t.job = s.job
         /\ t.tokens \subseteq s.tokens /\ t.expire_tokens \subseteq s.expire_tokens
         /\ state \notin {"waiting", "running"} => t.tokens = {} /\ t.expire_tokens = {}
  <1> DEFINE b == s.timer /\ state = "running"
             r == [s EXCEPT !.auto = state, !.timer = b]
  <1>1. r \in Record /\ Same(s, r) /\ r.job = s.job /\ r.auto = state
        /\ r.tokens = s.tokens /\ r.expire_tokens = s.expire_tokens /\ r.waiters = s.waiters
    BY Zenon DEF Record, Same
  <1>2. CASE state \in {"waiting", "running"}
    <2>1. t = r
      BY <1>2 DEF automount_set_state
    <2> QED BY <1>1, <1>2, <2>1 DEF Kept
  <1>3. CASE state \notin {"waiting", "running"}
    <2>1. t = [r EXCEPT !.waiters = {}, !.tokens = {}, !.expire_tokens = {}]
      BY <1>3 DEF automount_set_state, unmount_autofs
    <2> HIDE DEF r
    <2>2. t \in Record /\ Same(r, t) /\ t.job = r.job
          /\ t.tokens = {} /\ t.expire_tokens = {} /\ t.waiters = {}
      BY Zenon, <1>1, <2>1 DEF Record, Same
    <2> QED BY <1>1, <1>3, <2>2 DEF Kept, Same
  <1> QED BY <1>2, <1>3

(* The automount unit hears of the mount unit: it answers whom it can.     *)
LEMMA Trigger ==
  ASSUME NEW asked, NEW s \in Record, Kept(s, asked),
         NEW t, t = automount_trigger_notify(s)
  PROVE  t \in Record /\ Same(s, t) /\ Kept(t, asked) /\ t.job = s.job /\ Settled(t)
  <1> DEFINE sent == automount_send_ready(s, "tokens")
             timed == automount_start_expire(sent)
             established == IF s.state \notin {"mounted", "remounting"} THEN s
                            ELSE automount_set_state(timed, "running")
             expired == IF s.state \notin Unmountable \union {"dead"} THEN established
                        ELSE automount_send_ready(established, "expire_tokens")
             answered == automount_send_ready(expired, "tokens")
  <1>1. CASE s.auto \notin {"waiting", "running"}
    <2>1. t = s
      BY <1>1 DEF automount_trigger_notify
    <2> QED BY <1>1, <2>1 DEF Kept, Settled, Same
  <1>2. CASE s.auto \in {"waiting", "running"} /\ s.start_limit_hit
    <2>1. t = automount_set_state(s, "failed")
      BY <1>2 DEF automount_trigger_notify, automount_enter_dead
    <2> QED BY <2>1, AutoState DEF Settled, AutomountStates
  <1>3. CASE s.auto \in {"waiting", "running"} /\ ~s.start_limit_hit /\ s.job # "none"
    <2>1. t = s
      BY <1>3 DEF automount_trigger_notify
    <2> QED BY <1>3, <2>1 DEF Settled, Same
  <1>4. CASE s.auto \in {"waiting", "running"} /\ ~s.start_limit_hit /\ s.job = "none"
    <2>1. t = IF s.state \notin Unhappy THEN expired ELSE automount_set_state(answered, "waiting")
      BY <1>4 DEF automount_trigger_notify
    <2>2. /\ established \in Record /\ Same(s, established) /\ Kept(established, asked)
          /\ established.job = s.job
          /\ s.state \in {"mounted", "remounting"} => established.tokens = {}
      <3>1. CASE s.state \notin {"mounted", "remounting"}
        BY <3>1 DEF Same
      <3>2. CASE s.state \in {"mounted", "remounting"}
        <4>1. sent \in Record /\ Same(s, sent) /\ Kept(sent, asked) /\ sent.job = s.job
              /\ sent.tokens = {}
          BY Ready
        <4>2. timed = [sent EXCEPT !.timer = TRUE]
          BY DEF automount_start_expire
        <4> HIDE DEF sent, timed
        <4>3. timed \in Record /\ Same(sent, timed) /\ Kept(timed, asked) /\ timed.job = sent.job
              /\ timed.tokens = {}
          BY Zenon, <4>1, <4>2 DEF Record, Same, Kept
        <4>4. "running" \in AutomountStates
          BY DEF AutomountStates
        <4> DEFINE e == automount_set_state(timed, "running")
        <4>5. e \in Record /\ Same(timed, e) /\ Kept(e, asked) /\ e.job = timed.job
              /\ e.tokens \subseteq timed.tokens
          BY <4>3, <4>4, AutoState
        <4>6. established = e
          BY <3>2
        <4> QED BY <4>1, <4>3, <4>5, <4>6 DEF Same
      <3> QED BY <3>1, <3>2
    <2> HIDE DEF established
    <2>3. /\ expired \in Record /\ Same(s, expired) /\ Kept(expired, asked)
          /\ expired.job = s.job
          /\ s.state \in {"mounted", "remounting"} => expired.tokens = {}
          /\ s.state \in Unmountable \union {"dead"} => expired.expire_tokens = {}
      <3>1. CASE s.state \notin Unmountable \union {"dead"}
        BY <2>2, <3>1
      <3>2. CASE s.state \in Unmountable \union {"dead"}
        <4>1. expired = automount_send_ready(established, "expire_tokens")
          BY <3>2
        <4>2. /\ expired \in Record /\ Same(established, expired) /\ Kept(expired, asked)
              /\ expired.job = established.job
              /\ expired.tokens = established.tokens /\ expired.expire_tokens = {}
          BY <2>2, <4>1, Ready
        <4> QED BY <2>2, <4>2 DEF Same
      <3> QED BY <3>1, <3>2
    <2> HIDE DEF expired
    <2>4. CASE s.state \notin Unhappy
      <3>1. t = expired
        BY <2>1, <2>4
      <3> QED BY <2>3, <2>4, <3>1 DEF Settled, Same, Unhappy, Unmountable, Record, States
    <2>5. CASE s.state \in Unhappy
      <3>1. /\ answered \in Record /\ Same(expired, answered) /\ Kept(answered, asked)
            /\ answered.job = expired.job
            /\ answered.tokens = {} /\ answered.expire_tokens = expired.expire_tokens
        BY <2>3, Ready
      <3> HIDE DEF answered
      <3>2. t = automount_set_state(answered, "waiting")
        BY <2>1, <2>5
      <3>3. t \in Record /\ Same(answered, t) /\ Kept(t, asked) /\ t.job = answered.job
            /\ t.tokens \subseteq answered.tokens
            /\ t.expire_tokens \subseteq answered.expire_tokens
        <4>1. "waiting" \in AutomountStates
          BY DEF AutomountStates
        <4> QED BY <3>1, <3>2, <4>1, AutoState
      <3>4. Same(s, t) /\ t.job = s.job
        BY <2>3, <3>1, <3>3 DEF Same
      <3>5. t.state \in MOUNT_STATE_WITH_PROCESS \/ t.expire_tokens = {}
        BY <2>3, <2>5, <3>1, <3>3, <3>4
           DEF Unhappy, Unmountable, Same, MOUNT_STATE_WITH_PROCESS
      <3> QED BY <3>1, <3>3, <3>4, <3>5 DEF Settled
    <2> QED BY <2>4, <2>5
  <1> QED BY <1>1, <1>2, <1>3, <1>4


LEMMA Finish ==
  ASSUME NEW asked, NEW s \in Record, Kept(s, asked),
         NEW t, t = job_finish_and_invalidate(s)
  PROVE  t \in Record /\ Same(s, t) /\ Kept(t, asked) /\ Settled(t) /\ t.job = "none"
  <1> DEFINE r == [s EXCEPT !.job = "none", !.running = FALSE]
  <1>1. r \in Record /\ Same(s, r) /\ Kept(r, asked) /\ r.job = "none"
    BY Zenon DEF Record, Same, Kept
  <1> HIDE DEF r
  <1>2. t = automount_trigger_notify(r)
    BY DEF job_finish_and_invalidate, r
  <1>3. t \in Record /\ Same(r, t) /\ Kept(t, asked) /\ t.job = r.job /\ Settled(t)
    BY <1>1, <1>2, Trigger
  <1> QED BY <1>1, <1>3 DEF Same

LEMMA Notify ==
  ASSUME NEW asked, NEW s \in Record, Kept(s, asked), NEW t, t = unit_notify(s)
  PROVE  t \in Record /\ Same(s, t) /\ Kept(t, asked) /\ Settled(t)
  <1> DEFINE r == IF JobEnds(s) THEN job_finish_and_invalidate(s) ELSE s
  <1>1. r \in Record /\ Same(s, r) /\ Kept(r, asked)
    BY Finish DEF Same
  <1> HIDE DEF r
  <1>2. t = automount_trigger_notify(r)
    BY DEF unit_notify, r
  <1>3. t \in Record /\ Same(r, t) /\ Kept(t, asked) /\ Settled(t)
    BY <1>1, <1>2, Trigger
  <1> QED BY <1>1, <1>3 DEF Same

(* The mount unit has entered a state and told everybody.                  *)
Entered(s, t, state, asked) ==
  /\ t \in Record /\ Kept(t, asked) /\ Settled(t)
  /\ t.state = state /\ t.from_proc = s.from_proc
  /\ IF state \in MOUNT_STATE_WITH_PROCESS
     THEN t.process = s.process /\ t.ended = s.ended
     ELSE t.process = "none" /\ t.ended = "no"

LEMMA SetState ==
  ASSUME NEW asked, NEW s \in Record, Kept(s, asked), NEW state \in States,
         NEW t, t = mount_set_state(s, state)
  PROVE  Entered(s, t, state, asked) /\ t.astray = s.astray
  <1> DEFINE r == [s EXCEPT !.state = state]
             q == IF state \in MOUNT_STATE_WITH_PROCESS THEN r
                  ELSE [r EXCEPT !.process = "none", !.acted = FALSE, !.ended = "no"]
  <1>1. /\ r \in Record /\ Kept(r, asked) /\ r.state = state /\ r.from_proc = s.from_proc
        /\ r.process = s.process /\ r.ended = s.ended /\ r.astray = s.astray
    BY DEF Record, Kept
  <1>2. t = unit_notify(q)
    BY DEF mount_set_state
  <1> HIDE DEF r
  <1>3. /\ q \in Record /\ Kept(q, asked) /\ q.state = state /\ q.from_proc = s.from_proc
        /\ q.astray = s.astray
        /\ IF state \in MOUNT_STATE_WITH_PROCESS
           THEN q.process = s.process /\ q.ended = s.ended
           ELSE q.process = "none" /\ q.ended = "no"
    <2>1. CASE state \in MOUNT_STATE_WITH_PROCESS
      BY <1>1, <2>1
    <2>2. CASE state \notin MOUNT_STATE_WITH_PROCESS
      <3>1. q = [r EXCEPT !.process = "none", !.acted = FALSE, !.ended = "no"]
        BY <2>2
      <3> HIDE DEF q
      <3>2. q \in Record
        BY Zenon, <1>1, <3>1 DEF Record
      <3>3. /\ q.state = r.state /\ q.from_proc = r.from_proc /\ q.astray = r.astray
            /\ q.process = "none" /\ q.ended = "no" /\ q.auto = r.auto
            /\ q.tokens = r.tokens /\ q.expire_tokens = r.expire_tokens /\ q.waiters = r.waiters
        BY <1>1, <3>1 DEF Record
      <3>4. Kept(q, asked)
        BY Zenon, <1>1, <3>3 DEF Kept
      <3> QED BY <1>1, <2>2, <3>2, <3>3, <3>4
    <2> QED BY <2>1, <2>2
  <1> HIDE DEF q
  <1>4. t \in Record /\ Same(q, t) /\ Kept(t, asked) /\ Settled(t)
    BY <1>2, <1>3, Notify
  <1> QED BY <1>3, <1>4 DEF Same, Entered

LEMMA EnterDead ==
  ASSUME NEW asked, NEW s \in Record, Kept(s, asked), NEW success \in BOOLEAN,
         NEW t, t = mount_enter_dead(s, success)
  PROVE  /\ \E state \in {"dead", "failed"} : Entered(s, t, state, asked)
         /\ t.astray = s.astray
  <1> DEFINE b == s.success /\ success
             r == [s EXCEPT !.success = b]
             state == IF r.success THEN "dead" ELSE "failed"
  <1>1. r \in Record /\ Kept(r, asked) /\ r.from_proc = s.from_proc /\ r.astray = s.astray
    BY DEF Record, Kept
  <1>2. t = mount_set_state(r, state)
    BY DEF mount_enter_dead
  <1> HIDE DEF r
  <1>3. state \in {"dead", "failed"} /\ state \in States /\ state \notin MOUNT_STATE_WITH_PROCESS
    BY DEF States, MOUNT_STATE_WITH_PROCESS
  <1> HIDE DEF state
  <1>4. Entered(r, t, state, asked) /\ t.astray = r.astray
    BY <1>1, <1>2, <1>3, SetState
  <1>5. Entered(s, t, state, asked)
    BY <1>1, <1>3, <1>4 DEF Entered
  <1> QED BY <1>1, <1>3, <1>4, <1>5

LEMMA EnterMounted ==
  ASSUME NEW asked, NEW s \in Record, Kept(s, asked), NEW success \in BOOLEAN,
         NEW t, t = mount_enter_mounted(s, success)
  PROVE  Entered(s, t, "mounted", asked) /\ ~t.astray
  <1> DEFINE b == s.success /\ success
             r == [s EXCEPT !.success = b, !.astray = FALSE]
  <1>1. r \in Record /\ Kept(r, asked) /\ r.from_proc = s.from_proc /\ ~r.astray
    BY Zenon DEF Record, Kept
  <1>2. t = mount_set_state(r, "mounted")
    BY DEF mount_enter_mounted
  <1> HIDE DEF r
  <1>3. "mounted" \in States /\ "mounted" \notin MOUNT_STATE_WITH_PROCESS
    BY DEF States, MOUNT_STATE_WITH_PROCESS
  <1>4. Entered(r, t, "mounted", asked) /\ t.astray = r.astray
    BY <1>1, <1>2, <1>3, SetState
  <1> QED BY <1>1, <1>3, <1>4 DEF Entered

LEMMA EnterSignal ==
  ASSUME NEW asked, NEW s \in Record, Kept(s, asked), NEW success \in BOOLEAN,
         NEW state \in States, NEW t, t = mount_enter_signal(s, state, success)
  PROVE  Entered(s, t, state, asked) /\ t.astray = s.astray
  <1> DEFINE b == s.success /\ success
             r == [s EXCEPT !.success = b]
  <1>1. r \in Record /\ Kept(r, asked) /\ r.from_proc = s.from_proc /\ r.astray = s.astray
        /\ r.process = s.process /\ r.ended = s.ended
    BY DEF Record, Kept
  <1>2. t = mount_set_state(r, state)
    BY DEF mount_enter_signal
  <1> HIDE DEF r
  <1>3. Entered(r, t, state, asked) /\ t.astray = r.astray
    BY <1>1, <1>2, SetState
  <1> QED BY <1>1, <1>3 DEF Entered

LEMMA Spawned ==
  ASSUME NEW asked, NEW s \in Record, Kept(s, asked),
         NEW process \in Commands,
         NEW state \in MOUNT_STATE_WITH_PROCESS,
         NEW t, t = Spawn(s, process, state)
  PROVE  /\ t \in Record /\ Kept(t, asked) /\ Settled(t)
         /\ t.state = state /\ t.from_proc = s.from_proc /\ t.astray = s.astray
         /\ t.process = process /\ t.ended = "no"
  <1> DEFINE r == [s EXCEPT !.process = process, !.acted = FALSE, !.ended = "no"]
  <1>1. r \in Record /\ Kept(r, asked) /\ r.from_proc = s.from_proc /\ r.astray = s.astray
        /\ r.process = process /\ r.ended = "no"
    BY Zenon DEF Record, Kept
  <1>2. t = mount_set_state(r, state)
    BY DEF Spawn
  <1> HIDE DEF r
  <1>3. Entered(r, t, state, asked) /\ t.astray = r.astray
    BY <1>1, <1>2, SetState DEF States
  <1> QED BY <1>1, <1>3 DEF Entered


LEMMA EnterUnmounting ==
  ASSUME NEW asked, NEW s \in Record, Kept(s, asked), NEW t, t = mount_enter_unmounting(s)
  PROVE  /\ Good(t, asked) /\ t.state = "unmounting" /\ t.ended = "no"
         /\ t.from_proc = s.from_proc /\ t.astray = s.astray
  <1> DEFINE again == s.state \in {"unmounting", "unmounting-sigterm", "unmounting-sigkill"}
             n == IF again THEN s.n_retry ELSE 0
             r == [s EXCEPT !.n_retry = n]
  <1>1. n \in Nat
    BY DEF Record
  <1> HIDE DEF n
  <1>2. r \in Record /\ Kept(r, asked) /\ r.from_proc = s.from_proc /\ r.astray = s.astray
    BY <1>1 DEF Record, Kept
  <1>3. t = Spawn(r, "umount", "unmounting")
    BY DEF mount_enter_unmounting, n
  <1> HIDE DEF r
  <1>4. /\ "unmounting" \in MOUNT_STATE_WITH_PROCESS
        /\ "umount" \in Commands
    BY DEF MOUNT_STATE_WITH_PROCESS, Commands
  <1>5. /\ t \in Record /\ Kept(t, asked) /\ Settled(t)
        /\ t.state = "unmounting" /\ t.from_proc = r.from_proc /\ t.astray = r.astray
        /\ t.process = "umount" /\ t.ended = "no"
    BY <1>2, <1>3, <1>4, Spawned
  <1> QED BY <1>2, <1>4, <1>5 DEF Good, Watched, Believes

LEMMA EnterDeadOrMounted ==
  ASSUME NEW asked, NEW s \in Record, Kept(s, asked), NEW success \in BOOLEAN,
         NEW t, t = mount_enter_dead_or_mounted(s, success)
  PROVE  /\ Good(t, asked) /\ t.state \in {"dead", "failed", "mounted"} /\ t.ended = "no"
         /\ t.from_proc = s.from_proc /\ (t.state = "mounted" <=> t.from_proc)
  <1>1. CASE s.from_proc
    <2>1. t = mount_enter_mounted(s, success)
      BY <1>1 DEF mount_enter_dead_or_mounted
    <2>2. Entered(s, t, "mounted", asked)
      BY <2>1, EnterMounted
    <2> QED BY <1>1, <2>2 DEF Entered, Good, Watched, Believes, MOUNT_STATE_WITH_PROCESS
  <1>2. CASE ~s.from_proc
    <2>1. t = mount_enter_dead(s, success)
      BY <1>2 DEF mount_enter_dead_or_mounted
    <2>2. PICK state \in {"dead", "failed"} : Entered(s, t, state, asked)
      BY <2>1, EnterDead
    <2> QED BY <1>2, <2>2 DEF Entered, Good, Watched, Believes, MOUNT_STATE_WITH_PROCESS
  <1> QED BY <1>1, <1>2

(* Mountinfo is read: the unit remembers what it says, and a process that  *)
(* runs goes on.                                                           *)
LEMMA Mountinfo ==
  ASSUME NEW asked, NEW s, Good(s, asked), mounted \in Nat, NEW params \in BOOLEAN,
         NEW t, t = mount_process_proc_self_mountinfo(s, params)
  PROVE  /\ Good(t, asked)
         /\ t.from_proc <=> (IF changed THEN mounted > 0 ELSE s.from_proc)
         /\ s.state \in MOUNT_STATE_WITH_PROCESS =>
              t.state \in MOUNT_STATE_WITH_PROCESS /\ t.ended = s.ended
         /\ s.ended = "no" => t.ended = "no"
  <1> DEFINE gone == [s EXCEPT !.from_proc = FALSE]
             here == [s EXCEPT !.from_proc = TRUE]
             just == ~s.from_proc \/ s.state = "mounting" \/ params
  <1>0. s \in Record /\ Watched(s) /\ Believes(s) /\ Kept(s, asked) /\ Settled(s)
        /\ s.state \in States
    BY DEF Good, Record
  <1>1. CASE ~changed
    <2>1. t = s
      BY <1>1 DEF mount_process_proc_self_mountinfo
    <2> QED BY <1>1, <2>1
  <1>2. CASE changed /\ mounted = 0
    <2>1. gone \in Record /\ Kept(gone, asked) /\ gone.from_proc = FALSE
          /\ gone.state = s.state /\ gone.process = s.process /\ gone.ended = s.ended
          /\ gone.astray = s.astray /\ Settled(gone)
      BY Zenon, <1>0 DEF Record, Kept, Settled
    <2>2. t = CASE s.state = "mounted" -> mount_enter_dead(gone, TRUE)
                [] s.state = "mounting-done" -> mount_set_state(gone, "mounting")
                [] OTHER -> gone
      BY <1>2 DEF mount_process_proc_self_mountinfo
    <2> HIDE DEF gone
    <2>3. CASE s.state = "mounted"
      <3>1. t = mount_enter_dead(gone, TRUE)
        BY <2>2, <2>3
      <3>2. PICK state \in {"dead", "failed"} : Entered(gone, t, state, asked)
        BY Zenon, <2>1, <3>1, EnterDead
      <3> QED BY <1>2, <2>1, <2>3, <3>2
              DEF Entered, Good, Watched, Believes, MOUNT_STATE_WITH_PROCESS
    <2>4. CASE s.state = "mounting-done"
      <3>1. t = mount_set_state(gone, "mounting")
        BY <2>2, <2>4
      <3>2. "mounting" \in States
        BY DEF States, MOUNT_STATE_WITH_PROCESS
      <3>3. Entered(gone, t, "mounting", asked)
        BY <2>1, <3>1, <3>2, SetState
      <3> QED BY <1>0, <1>2, <2>1, <2>4, <3>3
              DEF Entered, Good, Watched, Believes, MOUNT_STATE_WITH_PROCESS
    <2>5. CASE s.state \notin {"mounted", "mounting-done"}
      <3>1. t = gone
        BY Zenon, <2>2, <2>5
      <3> QED BY <1>0, <1>2, <2>1, <2>5, <3>1 DEF Good, Watched, Believes
    <2> QED BY <2>3, <2>4, <2>5
  <1>3. CASE changed /\ mounted # 0
    <2>0. mounted > 0
      BY <1>3
    <2>1. here \in Record /\ Kept(here, asked) /\ here.from_proc = TRUE
          /\ here.state = s.state /\ here.process = s.process /\ here.ended = s.ended
          /\ here.astray = s.astray /\ Settled(here)
      BY Zenon, <1>0 DEF Record, Kept, Settled
    <2>2. t = CASE ~just -> here
                [] just /\ s.state \in {"dead", "failed"} ->
                     mount_enter_mounted(mount_cycle_clear(here), TRUE)
                [] just /\ s.state = "mounting" -> mount_set_state(here, "mounting-done")
                [] just /\ s.state \notin {"dead", "failed", "mounting"} ->
                     mount_set_state(here, s.state)
      BY Zenon, <1>3 DEF mount_process_proc_self_mountinfo
    <2> HIDE DEF here
    <2>3. CASE ~just
      <3>1. t = here /\ s.from_proc
        BY <2>2, <2>3
      <3> QED BY <1>0, <1>3, <2>0, <2>1, <2>3, <3>1 DEF Good, Watched, Believes
    <2>4. CASE just /\ s.state \in {"dead", "failed"}
      <3> DEFINE r == mount_cycle_clear(here)
      <3>1. t = mount_enter_mounted(r, TRUE)
        BY Zenon, <2>2, <2>4
      <3>2. r \in Record /\ Kept(r, asked) /\ r.from_proc = TRUE
        BY Zenon, <2>1 DEF mount_cycle_clear, Record, Kept
      <3> HIDE DEF r
      <3>3. Entered(r, t, "mounted", asked)
        BY Zenon, <3>1, <3>2, EnterMounted
      <3> QED BY <1>3, <2>0, <2>4, <3>2, <3>3
              DEF Entered, Good, Watched, Believes, MOUNT_STATE_WITH_PROCESS
    <2>5. CASE just /\ s.state = "mounting"
      <3>1. t = mount_set_state(here, "mounting-done")
        BY <2>2, <2>5
      <3>2. "mounting-done" \in States
        BY DEF States, MOUNT_STATE_WITH_PROCESS
      <3>3. Entered(here, t, "mounting-done", asked)
        BY <2>1, <3>1, <3>2, SetState
      <3> QED BY <1>0, <1>3, <2>0, <2>1, <2>5, <3>3
              DEF Entered, Good, Watched, Believes, MOUNT_STATE_WITH_PROCESS
    <2>6. CASE just /\ s.state \notin {"dead", "failed", "mounting"}
      <3>1. t = mount_set_state(here, s.state)
        BY Zenon, <2>2, <2>6
      <3>2. Entered(here, t, s.state, asked) /\ t.astray = here.astray
        BY <1>0, <2>1, <3>1, SetState
      <3> QED BY <1>0, <1>3, <2>0, <2>1, <2>6, <3>2 DEF Entered, Good, Watched, Believes
    <2> QED BY <2>3, <2>4, <2>5, <2>6
  <1> QED BY <1>1, <1>2, <1>3


(* The process has ended: from what mountinfo says follows whether the     *)
(* unit is mounted or to be unmounted once more.                           *)
LEMMA EndOfProcess ==
  ASSUME NEW asked, NEW s, Good(s, asked), s.state \in MOUNT_STATE_WITH_PROCESS,
         NEW success \in BOOLEAN, NEW t, t = Ended(s, success)
  PROVE  /\ Good(t, asked) /\ t.ended = "no" /\ t.from_proc = s.from_proc
         /\ ~t.astray => (t.state \in {"mounted", "unmounting"} <=> t.from_proc)
  <1> DEFINE r == [s EXCEPT !.process = "none", !.acted = FALSE, !.ended = "no"]
             b == s.success /\ success
             q == IF s.state \in {"mounting", "unmounting", "remounting", "remounting-sigterm",
                                  "remounting-sigkill"} THEN r
                  ELSE [r EXCEPT !.success = r.success /\ success]
  <1>0. s \in Record /\ Believes(s) /\ Kept(s, asked)
    BY DEF Good
  <1>1. r \in Record /\ Kept(r, asked) /\ r.from_proc = s.from_proc /\ r.astray = s.astray
        /\ r.n_retry = s.n_retry
    BY Zenon, <1>0 DEF Record, Kept
  <1> HIDE DEF r
  <1>2. q \in Record /\ Kept(q, asked) /\ q.from_proc = s.from_proc /\ q.astray = s.astray
        /\ q.n_retry = s.n_retry
    <2> DEFINE c == r.success /\ success
               p == [r EXCEPT !.success = c]
    <2>1. p \in Record /\ Kept(p, asked) /\ p.from_proc = r.from_proc /\ p.astray = r.astray
          /\ p.n_retry = r.n_retry
      BY <1>1 DEF Record, Kept
    <2>2. q = r \/ q = p
      OBVIOUS
    <2> HIDE DEF p, q
    <2> QED BY <1>1, <2>1, <2>2
  <1>3. t = CASE s.state = "mounting" -> mount_enter_dead(q, FALSE)
        [] s.state = "mounting-done" -> mount_enter_mounted(q, success)
        [] s.state \in {"remounting", "remounting-sigterm", "remounting-sigkill"} ->
             mount_enter_dead_or_mounted(q, TRUE)
        [] s.state = "unmounting" /\ success /\ s.from_proc ->
             IF s.n_retry < RetryMax
               THEN mount_enter_unmounting([q EXCEPT !.n_retry = @ + 1])
               ELSE mount_enter_mounted(q, FALSE)
        [] s.state = "unmounting" /\ ~(success /\ s.from_proc) ->
             mount_enter_dead_or_mounted(q, success \/ (s.ended = "failed" /\ ~s.from_proc))
        [] s.state \in {"unmounting-sigterm", "unmounting-sigkill"} ->
             mount_enter_dead_or_mounted(q, success)
        [] s.state = "cleaning" -> mount_enter_dead(q, TRUE)
    BY DEF Ended, r
  <1> HIDE DEF q
  <1>4. ASSUME NEW ok \in BOOLEAN, t = mount_enter_dead(q, ok),
               s.state \in {"mounting", "cleaning"}
        PROVE  /\ Good(t, asked) /\ t.ended = "no" /\ t.from_proc = s.from_proc
               /\ ~t.astray => (t.state \in {"mounted", "unmounting"} <=> t.from_proc)
    <2>1. PICK state \in {"dead", "failed"} : Entered(q, t, state, asked)
      BY <1>2, <1>4, EnterDead
    <2>2. t.astray = q.astray
      BY <1>2, <1>4, EnterDead
    <2>3. t.astray \/ ~t.from_proc
      BY <1>0, <1>2, <1>4, <2>1, <2>2 DEF Believes, Entered
    <2> QED BY <1>2, <2>1, <2>3
            DEF Entered, Good, Watched, Believes, MOUNT_STATE_WITH_PROCESS
  <1>5. ASSUME NEW ok \in BOOLEAN, t = mount_enter_mounted(q, ok), s.from_proc
        PROVE  /\ Good(t, asked) /\ t.ended = "no" /\ t.from_proc = s.from_proc
               /\ t.state \in {"mounted", "unmounting"} <=> t.from_proc
    <2>1. Entered(q, t, "mounted", asked)
      BY <1>2, <1>5, EnterMounted
    <2> QED BY Zenon, <1>2, <1>5, <2>1
            DEF Entered, Good, Watched, Believes, MOUNT_STATE_WITH_PROCESS
  <1>6. ASSUME NEW ok \in BOOLEAN, t = mount_enter_dead_or_mounted(q, ok)
        PROVE  /\ Good(t, asked) /\ t.ended = "no" /\ t.from_proc = s.from_proc
               /\ t.state \in {"mounted", "unmounting"} <=> t.from_proc
    <2>1. /\ Good(t, asked) /\ t.state \in {"dead", "failed", "mounted"} /\ t.ended = "no"
          /\ t.from_proc = q.from_proc /\ (t.state = "mounted" <=> t.from_proc)
      BY <1>2, <1>6, EnterDeadOrMounted
    <2> QED BY <1>2, <2>1
  <1>7. CASE s.state = "unmounting" /\ success /\ s.from_proc
    <2>1. CASE s.n_retry < RetryMax
      <3> DEFINE p == [q EXCEPT !.n_retry = q.n_retry + 1]
      <3>1. p \in Record /\ Kept(p, asked) /\ p.from_proc = q.from_proc
        BY <1>2 DEF Record, Kept
      <3>2. t = mount_enter_unmounting(p)
        BY <1>3, <1>7, <2>1
      <3> HIDE DEF p
      <3>3. Good(t, asked) /\ t.state = "unmounting" /\ t.ended = "no" /\ t.from_proc = p.from_proc
        BY <3>1, <3>2, EnterUnmounting
      <3> QED BY Zenon, <1>2, <1>7, <3>1, <3>3
    <2>2. CASE ~(s.n_retry < RetryMax)
      <3>1. t = mount_enter_mounted(q, FALSE)
        BY <1>3, <1>7, <2>2
      <3> QED BY Zenon, <1>5, <1>7, <3>1
    <2> QED BY <2>1, <2>2
  <1>8. CASE s.state = "unmounting" /\ ~(success /\ s.from_proc)
    <2> DEFINE ok == success \/ (s.ended = "failed" /\ ~s.from_proc)
    <2>1. t = mount_enter_dead_or_mounted(q, ok) /\ ok \in BOOLEAN
      BY Zenon, <1>3, <1>8
    <2> QED BY Zenon, <1>6, <2>1
  <1>9. CASE s.state = "mounting"
    <2>1. t = mount_enter_dead(q, FALSE)
      BY <1>3, <1>9
    <2> QED BY Zenon, <1>4, <1>9, <2>1
  <1>10. CASE s.state = "mounting-done"
    <2>1. t = mount_enter_mounted(q, success) /\ s.from_proc
      BY <1>0, <1>3, <1>10 DEF Believes
    <2> QED BY Zenon, <1>5, <2>1
  <1>11. CASE s.state \in {"remounting", "remounting-sigterm", "remounting-sigkill"}
    <2>1. t = mount_enter_dead_or_mounted(q, TRUE)
      BY Zenon, <1>3, <1>11
    <2> QED BY Zenon, <1>6, <2>1
  <1>12. CASE s.state \in {"unmounting-sigterm", "unmounting-sigkill"}
    <2>1. t = mount_enter_dead_or_mounted(q, success)
      BY Zenon, <1>3, <1>12
    <2> QED BY <1>6, <2>1
  <1>13. CASE s.state = "cleaning"
    <2>1. t = mount_enter_dead(q, TRUE)
      BY <1>3, <1>13
    <2> QED BY Zenon, <1>4, <1>13, <2>1
  <1> QED BY <1>7, <1>8, <1>9, <1>10, <1>11, <1>12, <1>13 DEF MOUNT_STATE_WITH_PROCESS


(* The end of a process is handled in the light of what it has done.       *)
Noticed(s, t, m) ==
  (/\ s.ended # "no" /\ t.ended = "no"
   /\ s.state \notin {"remounting-sigkill", "unmounting-sigkill"} /\ ~t.astray) =>
    (t.state \in {"mounted", "unmounting"} <=> m > 0)

LEMMA Alike ==
  ASSUME NEW asked, NEW before, NEW s, Good(s, before), NEW t \in Record, Same(s, t),
         Kept(t, asked), Settled(t)
  PROVE  /\ Good(t, asked) /\ t.from_proc = s.from_proc /\ t.astray = s.astray
         /\ t.state = s.state /\ t.ended = s.ended
  BY DEF Good, Same, Watched, Believes

(* What unmount_autofs() may do to the mounts.                             *)
LEMMA KernelStep ==
  ASSUME mounted \in 0 .. MaxMounts, NEW pending \in BOOLEAN, Kernel(pending)
  PROVE  /\ mounted' \in 0 .. MaxMounts /\ changed' \in BOOLEAN
         /\ \/ mounted' = mounted /\ changed' = pending
            \/ changed' = TRUE
  <1> DEFINE d == /\ unit.auto \in {"waiting", "running"}
                  /\ unit'.auto \notin {"waiting", "running"}
                  /\ mounted > 0
  <1>1. mounted' = (IF d THEN 0 ELSE mounted) /\ changed' = (d \/ pending)
    BY Zenon DEF Kernel
  <1> HIDE DEF d
  <1>2. 0 \in 0 .. MaxMounts
    BY MountAssumption
  <1>3. CASE d
    BY Zenon, <1>1, <1>2, <1>3
  <1>4. CASE ~d
    BY Zenon, <1>1, <1>4
  <1> QED BY <1>3, <1>4

(* A step of the manager that leaves the pipe alone, and the mounts but    *)
(* for what unmount_autofs() does.                                         *)
LEMMA Quiet ==
  ASSUME IInv, Good(unit', Asked), unit'.from_proc = unit.from_proc, Kernel(changed),
         UNCHANGED <<pipe, next>>, others' \in Nat
  PROVE  IInv'
  <1>0. /\ mounted' \in 0 .. MaxMounts /\ changed' \in BOOLEAN
        /\ \/ mounted' = mounted /\ changed' = changed
           \/ changed' = TRUE
    BY KernelStep DEF IInv, Typed
  <1>1. Asked' = Asked
    BY DEF Asked
  <1>2. Typed'
    BY <1>0 DEF IInv, Typed, Good
  <1>3. UpToDate'
    BY <1>0 DEF IInv, UpToDate
  <1>4. Good(unit, Asked)'
    BY <1>1, Zenon DEF Good, Watched, Believes, Kept, Settled
  <1> QED BY <1>2, <1>3, <1>4 DEF IInv

LEMMA Facts ==
  ASSUME IInv
  PROVE  /\ Good(unit, Asked) /\ unit \in Record /\ Kept(unit, Asked) /\ Watched(unit)
         /\ Believes(unit) /\ Settled(unit) /\ unit.state \in States
         /\ unit.ended \in {"no", "ok", "failed", "killed"}
         /\ mounted \in Nat /\ others \in Nat
         /\ unit.ended # "no" => unit.state \in MOUNT_STATE_WITH_PROCESS
  BY MountAssumption DEF IInv, Typed, Good, Watched, Record

LEMMA SigchldStep ==
  ASSUME IInv, mount_sigchld_event
  PROVE  IInv' /\ Noticed(unit, unit', mounted)
  <1>0. Good(unit, Asked) /\ mounted \in Nat /\ unit.state \in MOUNT_STATE_WITH_PROCESS
        /\ Typed /\ UpToDate
    BY Facts DEF mount_sigchld_event, IInv
  <1>1. PICK params \in BOOLEAN :
          unit' = Ended(mount_process_proc_self_mountinfo(unit, params), unit.ended = "ok")
    BY DEF mount_sigchld_event
  <1> DEFINE s == mount_process_proc_self_mountinfo(unit, params)
             success == unit.ended = "ok"
  <1>2. /\ Good(s, Asked) /\ s.state \in MOUNT_STATE_WITH_PROCESS
        /\ s.from_proc <=> (IF changed THEN mounted > 0 ELSE unit.from_proc)
    BY <1>0, Mountinfo
  <1>3. s.from_proc <=> mounted > 0
    BY <1>0, <1>2 DEF UpToDate
  <1> HIDE DEF s
  <1>4. success \in BOOLEAN /\ unit' = Ended(s, success)
    BY <1>1 DEF s
  <1> HIDE DEF success
  <1>5. /\ Good(unit', Asked) /\ unit'.ended = "no" /\ unit'.from_proc = s.from_proc
        /\ ~unit'.astray => (unit'.state \in {"mounted", "unmounting"} <=> unit'.from_proc)
    BY <1>2, <1>4, EndOfProcess
  <1>6. Asked' = Asked
    BY DEF Asked, mount_sigchld_event
  <1>11. /\ mounted' \in 0 .. MaxMounts /\ changed' \in BOOLEAN
        /\ \/ mounted' = mounted /\ changed' = FALSE
           \/ changed' = TRUE
    BY <1>0, KernelStep DEF Typed, mount_sigchld_event
  <1>7. Typed'
    BY Zenon, <1>0, <1>5, <1>11 DEF Typed, Good, mount_sigchld_event
  <1>8. UpToDate'
    BY <1>3, <1>5, <1>11 DEF UpToDate
  <1>9. Good(unit, Asked)'
    BY <1>5, <1>6, Zenon DEF Good, Watched, Believes, Kept, Settled
  <1>10. Noticed(unit, unit', mounted)
    BY <1>3, <1>5 DEF Noticed
  <1> QED BY <1>7, <1>8, <1>9, <1>10 DEF IInv

LEMMA DispatchStep ==
  ASSUME IInv, mount_dispatch_io
  PROVE  IInv' /\ Noticed(unit, unit', mounted)
  <1>0. /\ Good(unit, Asked) /\ mounted \in Nat /\ Typed /\ changed
        /\ unit.ended # "no" => unit.state \in MOUNT_STATE_WITH_PROCESS
    BY Facts DEF mount_dispatch_io, IInv
  <1>1. PICK params \in BOOLEAN : unit' = mount_process_proc_self_mountinfo(unit, params)
    BY DEF mount_dispatch_io
  <1>2. /\ Good(unit', Asked)
        /\ unit'.from_proc <=> (IF changed THEN mounted > 0 ELSE unit.from_proc)
        /\ unit.state \in MOUNT_STATE_WITH_PROCESS => unit'.ended = unit.ended
    BY <1>0, <1>1, Mountinfo
  <1>6. Asked' = Asked
    BY DEF Asked, mount_dispatch_io
  <1>11. /\ mounted' \in 0 .. MaxMounts /\ changed' \in BOOLEAN
        /\ \/ mounted' = mounted /\ changed' = FALSE
           \/ changed' = TRUE
    BY <1>0, KernelStep DEF Typed, mount_dispatch_io
  <1>7. Typed'
    BY Zenon, <1>0, <1>2, <1>11 DEF Typed, Good, mount_dispatch_io
  <1>8. UpToDate'
    BY <1>0, <1>2, <1>11 DEF UpToDate
  <1>9. Good(unit, Asked)'
    BY <1>2, <1>6, Zenon DEF Good, Watched, Believes, Kept, Settled
  <1>10. Noticed(unit, unit', mounted)
    BY <1>0, <1>2 DEF Noticed
  <1> QED BY <1>7, <1>8, <1>9, <1>10 DEF IInv

(* The states that send a signal to the process, and leave it as it is.    *)
Signals == {"remounting-sigterm", "remounting-sigkill", "unmounting-sigterm",
            "unmounting-sigkill"}

LEMMA SignalStates ==
  /\ "remounting-sigterm" \in Signals /\ "remounting-sigkill" \in Signals
  /\ "unmounting-sigterm" \in Signals /\ "unmounting-sigkill" \in Signals
  BY DEF Signals

LEMMA StillWatched ==
  ASSUME NEW asked, NEW s \in Record, Good(s, asked), s.state \in MOUNT_STATE_WITH_PROCESS,
         NEW state \in Signals, NEW t, Entered(s, t, state, asked)
  PROVE  /\ Good(t, asked) /\ t.from_proc = s.from_proc /\ t.ended = s.ended
  BY DEF Entered, Good, Watched, Believes, Signals, MOUNT_STATE_WITH_PROCESS

LEMMA Signalled ==
  ASSUME NEW asked, NEW s \in Record, Good(s, asked), s.state \in MOUNT_STATE_WITH_PROCESS,
         NEW success \in BOOLEAN, NEW state \in Signals,
         NEW t, t = mount_enter_signal(s, state, success)
  PROVE  /\ Good(t, asked) /\ t.from_proc = s.from_proc /\ t.ended = s.ended
  <1>1. s \in Record /\ Kept(s, asked) /\ state \in States
    BY DEF Good, States, MOUNT_STATE_WITH_PROCESS, Signals
  <1>2. Entered(s, t, state, asked)
    BY <1>1, EnterSignal
  <1> QED BY <1>2, StillWatched

LEMMA TimerStep ==
  ASSUME IInv, mount_dispatch_timer
  PROVE  IInv' /\ Noticed(unit, unit', mounted)
  <1>0. Good(unit, Asked) /\ unit.state \in MOUNT_STATE_WITH_PROCESS /\ others \in Nat
        /\ unit \in Record /\ Kept(unit, Asked)
    BY Facts DEF mount_dispatch_timer
  <1>1. /\ Good(unit', Asked) /\ unit'.from_proc = unit.from_proc
        /\ \/ unit'.ended = unit.ended
           \/ unit.state \in {"remounting-sigkill", "unmounting-sigkill"}
    <2>1. CASE unit.state \notin {"remounting-sigkill", "unmounting-sigkill"}
      <3>1. PICK ok \in BOOLEAN, state \in Signals : unit' = mount_enter_signal(unit, state, ok)
        BY Zenon, <1>0, <2>1, SignalStates DEF mount_dispatch_timer, MOUNT_STATE_WITH_PROCESS
      <3> QED BY <1>0, <3>1, Signalled
    <2>2. CASE unit.state \in {"remounting-sigkill", "unmounting-sigkill"}
      <3>1. PICK ok \in BOOLEAN : unit' = mount_enter_dead_or_mounted(unit, ok)
        BY Zenon, <2>2 DEF mount_dispatch_timer
      <3> QED BY <1>0, <2>2, <3>1, EnterDeadOrMounted
    <2> QED BY <2>1, <2>2
  <1>2. Kernel(changed) /\ UNCHANGED <<pipe, next>> /\ others' \in Nat
    BY <1>0 DEF mount_dispatch_timer
  <1> QED BY <1>1, <1>2, Quiet DEF Noticed


LEMMA StatesActive ==
  ASSUME NEW state \in States
  PROVE  /\ ActiveState(state) \in {"inactive", "failed"} => state \in {"dead", "failed"}
         /\ ActiveState(state) = "active" => state = "mounted"
  BY DEF ActiveState, States, MOUNT_STATE_WITH_PROCESS

(* A job is put in the place of another one, and may have to run again.    *)
LEMMA Replaced ==
  ASSUME NEW asked, NEW r \in Record, Kept(r, asked),
         NEW job \in {"start", "stop", "reload"}, NEW b \in BOOLEAN,
         NEW q, q = [r EXCEPT !.job = job, !.running = b]
  PROVE  q \in Record /\ Same(r, q) /\ Kept(q, asked) /\ Settled(q)
  <1>1. q \in Record /\ q.job = job
    BY Zenon DEF Record
  <1>2. Same(r, q) /\ q.auto = r.auto /\ q.waiters = r.waiters
        /\ q.tokens = r.tokens /\ q.expire_tokens = r.expire_tokens
    BY DEF Record, Same
  <1>3. Kept(q, asked)
    BY Zenon, <1>1, <1>2 DEF Kept
  <1> QED BY <1>1, <1>2, <1>3 DEF Settled

LEMMA InstalledKept ==
  ASSUME NEW asked, NEW s \in Record, Kept(s, asked),
         NEW job \in {"start", "stop", "reload"}, NEW t, t = Installed(s, job)
  PROVE  t \in Record /\ Same(s, t) /\ Kept(t, asked) /\ Settled(t)
  <1> DEFINE f == job_finish_and_invalidate(s)
             c == Collapsed(s, job)
             b == s.running /\ s.job = job /\ job # "reload"
  <1>1. f \in Record /\ Same(s, f) /\ Kept(f, asked) /\ Same(s, s)
    BY Finish DEF Same
  <1>2. \/ t = [s EXCEPT !.job = job, !.running = FALSE]
        \/ t = [f EXCEPT !.job = job, !.running = FALSE]
        \/ t = [s EXCEPT !.job = c, !.running = b]
    BY Zenon DEF Installed
  <1>3. c \in {"start", "stop", "reload"}
    BY DEF Collapsed
  <1>4. b \in BOOLEAN
    OBVIOUS
  <1> HIDE DEF f, c, b
  <1>5. PICK r \in Record, type \in {"start", "stop", "reload"}, again \in BOOLEAN :
          /\ Same(s, r) /\ Kept(r, asked)
          /\ t = [r EXCEPT !.job = type, !.running = again]
    BY Zenon, <1>1, <1>2, <1>3, <1>4
  <1>6. t \in Record /\ Same(r, t) /\ Kept(t, asked) /\ Settled(t)
    BY <1>5, Replaced
  <1> QED BY <1>5, <1>6 DEF Same

LEMMA StopGood ==
  ASSUME NEW asked, NEW s, Good(s, asked), NEW t, t = mount_stop(s)
  PROVE  /\ Good(t, asked) /\ t.from_proc = s.from_proc /\ t.ended = s.ended
  <1>0. s \in Record /\ Kept(s, asked) /\ Watched(s) /\ s.state \in States
    BY DEF Good, Record
  <1>1. CASE s.state \in {"mounting", "mounting-done", "remounting", "cleaning"}
    <2>1. PICK ok \in BOOLEAN, state \in Signals : t = mount_enter_signal(s, state, ok)
      BY Zenon, <1>1, SignalStates DEF mount_stop
    <2>2. s.state \in MOUNT_STATE_WITH_PROCESS
      BY <1>1 DEF MOUNT_STATE_WITH_PROCESS
    <2> QED BY <1>0, <2>1, <2>2, Signalled
  <1>2. CASE s.state \in {"remounting-sigterm", "remounting-sigkill"}
    <2>1. PICK state \in Signals : t = mount_set_state(s, state)
      BY Zenon, <1>2, SignalStates DEF mount_stop
    <2>2. s.state \in MOUNT_STATE_WITH_PROCESS /\ state \in States
      BY <1>2 DEF MOUNT_STATE_WITH_PROCESS, States, Signals
    <2>3. Entered(s, t, state, asked)
      BY <1>0, <2>1, <2>2, SetState
    <2> QED BY <1>0, <2>2, <2>3, StillWatched
  <1>3. CASE s.state = "mounted"
    <2>1. t = mount_enter_unmounting(s)
      BY <1>3 DEF mount_stop
    <2>2. Good(t, asked) /\ t.ended = "no" /\ t.from_proc = s.from_proc
      BY <1>0, <2>1, EnterUnmounting
    <2>3. s.ended = "no"
      BY <1>0, <1>3 DEF Watched, MOUNT_STATE_WITH_PROCESS
    <2> QED BY <2>2, <2>3
  <1>4. CASE s.state \notin {"mounting", "mounting-done", "remounting", "cleaning",
                             "remounting-sigterm", "remounting-sigkill", "mounted"}
    <2>1. t = s
      BY Zenon, <1>4 DEF mount_stop
    <2> QED BY <2>1
  <1> QED BY <1>1, <1>2, <1>3, <1>4

LEMMA LimitGood ==
  ASSUME NEW asked, NEW s \in Record, Kept(s, asked), s.astray \/ ~s.from_proc,
         NEW t, t = mount_can_start_limit(s)
  PROVE  Good(t, asked) /\ t.from_proc = s.from_proc /\ t.astray = s.astray /\ t.ended = "no"
  <1> DEFINE r == [s EXCEPT !.start_limit_hit = TRUE]
  <1>1. r \in Record /\ Kept(r, asked) /\ r.from_proc = s.from_proc /\ r.astray = s.astray
    BY Zenon DEF Record, Kept
  <1>2. t = mount_enter_dead(r, FALSE)
    BY DEF mount_can_start_limit
  <1> HIDE DEF r
  <1>3. PICK state \in {"dead", "failed"} : Entered(r, t, state, asked)
    BY Zenon, <1>1, <1>2, EnterDead
  <1>4. t.astray = r.astray
    BY Zenon, <1>1, <1>2, EnterDead
  <1> QED BY <1>1, <1>3, <1>4 DEF Entered, Good, Watched, Believes, MOUNT_STATE_WITH_PROCESS

LEMMA StartGood ==
  ASSUME NEW asked, NEW s, Good(s, asked), s.state \in {"dead", "failed"},
         NEW limited \in BOOLEAN, NEW t, t = mount_start(s, limited)
  PROVE  Good(t, asked) /\ t.from_proc = s.from_proc /\ t.ended = s.ended
  <1>0. s \in Record /\ Kept(s, asked) /\ (s.astray \/ ~s.from_proc) /\ s.ended = "no"
    BY DEF Good, Believes, Watched, MOUNT_STATE_WITH_PROCESS
  <1>1. CASE limited
    <2>1. t = mount_can_start_limit(s)
      BY <1>1 DEF mount_start
    <2> QED BY <1>0, <2>1, LimitGood
  <1>2. CASE ~limited
    <2> DEFINE q == [s EXCEPT !.start_limit_hit = FALSE]
               r == mount_cycle_clear(q)
    <2>1. t = Spawn(r, "mount", "mounting")
      BY <1>2 DEF mount_start
    <2>2. q \in Record /\ Kept(q, asked) /\ q.from_proc = s.from_proc /\ q.astray = s.astray
      BY Zenon, <1>0 DEF Record, Kept
    <2> HIDE DEF q
    <2>3. r \in Record /\ Kept(r, asked) /\ r.from_proc = q.from_proc /\ r.astray = q.astray
      BY Zenon, <2>2 DEF mount_cycle_clear, Record, Kept
    <2> HIDE DEF r
    <2>4. "mount" \in Commands /\ "mounting" \in MOUNT_STATE_WITH_PROCESS
      BY DEF Commands, MOUNT_STATE_WITH_PROCESS
    <2>5. /\ t \in Record /\ Kept(t, asked) /\ Settled(t)
          /\ t.state = "mounting" /\ t.from_proc = r.from_proc /\ t.astray = r.astray
          /\ t.process = "mount" /\ t.ended = "no"
      BY <2>1, <2>3, <2>4, Spawned
    <2> QED BY <1>0, <2>2, <2>3, <2>4, <2>5 DEF Good, Watched, Believes
  <1> QED BY <1>1, <1>2

LEMMA RunStep ==
  ASSUME IInv, job_run_and_invalidate
  PROVE  IInv' /\ Noticed(unit, unit', mounted)
  <1> DEFINE s == [unit EXCEPT !.running = TRUE]
  <1>0. Good(unit, Asked) /\ unit \in Record /\ others \in Nat /\ unit.state \in States
    BY Facts
  <1>1. Good(s, Asked) /\ s.from_proc = unit.from_proc /\ s.ended = unit.ended
        /\ s.state = unit.state
    <2>1. s \in Record /\ Same(unit, s) /\ Kept(s, Asked) /\ Settled(s)
      BY Zenon, <1>0 DEF Good, Record, Same, Kept, Settled
    <2> HIDE DEF s
    <2> QED BY <1>0, <2>1, Alike
  <1>2. Kernel(changed) /\ UNCHANGED <<pipe, next>> /\ others' \in Nat
    BY <1>0 DEF job_run_and_invalidate
  <1>3. \/ unit' = s
        \/ unit' = job_finish_and_invalidate(s)
        \/ /\ unit.state \in {"dead", "failed"}
           /\ \E limited \in BOOLEAN : unit' = mount_start(s, limited)
        \/ unit' = mount_stop(s)
        \/ unit.state = "mounted" /\ unit' = Spawn(s, "remount", "remounting")
    BY Zenon, <1>0, StatesActive DEF job_run_and_invalidate
  <1> HIDE DEF s
  <1>4. Good(unit', Asked) /\ unit'.from_proc = unit.from_proc /\ unit'.ended = unit.ended
    <2>0. s \in Record /\ Kept(s, Asked) /\ Watched(s)
      BY <1>1 DEF Good
    <2>1. CASE unit' = s
      BY <1>1, <2>1
    <2>2. CASE unit' = job_finish_and_invalidate(s)
      <3>1. unit' \in Record /\ Same(s, unit') /\ Kept(unit', Asked) /\ Settled(unit')
        BY <2>0, <2>2, Finish
      <3> QED BY <1>1, <3>1, Alike
    <2>3. CASE /\ unit.state \in {"dead", "failed"}
               /\ \E limited \in BOOLEAN : unit' = mount_start(s, limited)
      BY <1>1, <2>3, StartGood
    <2>4. CASE unit' = mount_stop(s)
      BY <1>1, <2>4, StopGood
    <2>5. CASE unit.state = "mounted" /\ unit' = Spawn(s, "remount", "remounting")
      <3>1. "remount" \in Commands /\ "remounting" \in MOUNT_STATE_WITH_PROCESS
        BY DEF Commands, MOUNT_STATE_WITH_PROCESS
      <3>2. /\ unit' \in Record /\ Kept(unit', Asked) /\ Settled(unit')
            /\ unit'.state = "remounting" /\ unit'.from_proc = s.from_proc
            /\ unit'.process = "remount" /\ unit'.ended = "no"
        BY <2>0, <2>5, <3>1, Spawned
      <3>3. s.ended = "no"
        BY <1>1, <2>0, <2>5 DEF Watched, MOUNT_STATE_WITH_PROCESS
      <3> QED BY <1>1, <3>1, <3>2, <3>3 DEF Good, Watched, Believes
    <2> QED BY <1>3, <2>1, <2>2, <2>3, <2>4, <2>5
  <1> QED BY <1>2, <1>4, Quiet DEF Noticed


LEMMA RequestStep ==
  ASSUME IInv, NEW job \in Jobs, Request(job)
  PROVE  IInv' /\ Noticed(unit, unit', mounted)
  <1>1. Good(unit, Asked) /\ unit \in Record /\ Kept(unit, Asked) /\ others \in Nat
    BY Facts
  <1>2. /\ job \in {"start", "stop", "reload"} /\ unit' = Installed(unit, job)
        /\ Kernel(changed) /\ UNCHANGED <<pipe, next>> /\ others' \in Nat
    BY <1>1, MountAssumption DEF Request, Intervene
  <1>3. unit' \in Record /\ Same(unit, unit') /\ Kept(unit', Asked) /\ Settled(unit')
    BY <1>1, <1>2, InstalledKept
  <1>4. Good(unit', Asked) /\ unit'.from_proc = unit.from_proc /\ unit'.ended = unit.ended
    BY <1>1, <1>3, Alike
  <1> QED BY <1>2, <1>4, Quiet DEF Noticed

LEMMA CancelStep ==
  ASSUME IInv, Cancel
  PROVE  IInv' /\ Noticed(unit, unit', mounted)
  <1>1. Good(unit, Asked) /\ unit \in Record /\ Kept(unit, Asked) /\ others \in Nat
    BY Facts
  <1>2. /\ unit' = job_finish_and_invalidate(unit)
        /\ Kernel(changed) /\ UNCHANGED <<pipe, next>> /\ others' \in Nat
    BY <1>1 DEF Cancel, Intervene
  <1>3. unit' \in Record /\ Same(unit, unit') /\ Kept(unit', Asked) /\ Settled(unit')
    BY <1>1, <1>2, Finish
  <1>4. Good(unit', Asked) /\ unit'.from_proc = unit.from_proc /\ unit'.ended = unit.ended
    BY <1>1, <1>3, Alike
  <1> QED BY <1>2, <1>4, Quiet DEF Noticed

LEMMA LimitStep ==
  ASSUME IInv, start_limit_hit
  PROVE  IInv' /\ Noticed(unit, unit', mounted)
  <1> DEFINE s == [unit EXCEPT !.running = TRUE, !.astray = TRUE]
  <1>1. unit \in Record /\ Kept(unit, Asked) /\ others \in Nat
    BY Facts
  <1>2. /\ unit' = mount_can_start_limit(s)
        /\ Kernel(changed) /\ UNCHANGED <<pipe, next>> /\ others' \in Nat
    BY <1>1 DEF start_limit_hit, Intervene
  <1>3. s \in Record /\ Kept(s, Asked) /\ s.astray /\ s.from_proc = unit.from_proc
    BY Zenon, <1>1 DEF Record, Kept
  <1> HIDE DEF s
  <1>4. Good(unit', Asked) /\ unit'.from_proc = s.from_proc /\ unit'.astray = s.astray
    BY Zenon, <1>2, <1>3, LimitGood
  <1> QED BY <1>2, <1>3, <1>4, Quiet DEF Noticed

LEMMA CleanStep ==
  ASSUME IInv, mount_clean
  PROVE  IInv' /\ Noticed(unit, unit', mounted)
  <1> DEFINE s == [unit EXCEPT !.astray = TRUE]
  <1>1. unit \in Record /\ Kept(unit, Asked) /\ others \in Nat
    BY Facts
  <1>2. /\ unit' = Spawn(s, "clean", "cleaning")
        /\ Kernel(changed) /\ UNCHANGED <<pipe, next>> /\ others' \in Nat
    BY <1>1 DEF mount_clean, Intervene
  <1>3. s \in Record /\ Kept(s, Asked) /\ s.astray = TRUE /\ s.from_proc = unit.from_proc
    BY Zenon, <1>1 DEF Record, Kept
  <1> HIDE DEF s
  <1>4. "clean" \in Commands /\ "cleaning" \in MOUNT_STATE_WITH_PROCESS
    BY DEF Commands, MOUNT_STATE_WITH_PROCESS
  <1>5. /\ unit' \in Record /\ Kept(unit', Asked) /\ Settled(unit')
        /\ unit'.state = "cleaning" /\ unit'.from_proc = s.from_proc /\ unit'.astray = s.astray
        /\ unit'.process = "clean" /\ unit'.ended = "no"
    <2>1. PICK process \in Commands, state \in MOUNT_STATE_WITH_PROCESS :
            process = "clean" /\ state = "cleaning" /\ unit' = Spawn(s, process, state)
      BY <1>2, <1>4
    <2> QED BY <1>3, <2>1, Spawned
  <1>6. Good(unit', Asked)
    BY <1>3, <1>4, <1>5 DEF Good, Watched, Believes
  <1> QED BY <1>2, <1>3, <1>5, <1>6, Quiet DEF Noticed

LEMMA ResetStep ==
  ASSUME IInv, mount_reset_failed
  PROVE  IInv' /\ Noticed(unit, unit', mounted)
  <1> DEFINE s == IF unit.state = "failed" THEN mount_set_state(unit, "dead") ELSE unit
  <1>1. /\ unit \in Record /\ Kept(unit, Asked) /\ others \in Nat /\ Believes(unit)
        /\ Good(unit, Asked) /\ Settled(unit)
        /\ (unit.ended # "no" => unit.state \in MOUNT_STATE_WITH_PROCESS)
    BY Facts
  <1>2. /\ unit' = [s EXCEPT !.success = TRUE, !.start_limit_hit = FALSE]
        /\ Kernel(changed) /\ UNCHANGED <<pipe, next>> /\ others' \in Nat
    BY <1>1 DEF mount_reset_failed
  <1>3. Good(s, Asked) /\ s.from_proc = unit.from_proc /\ s.ended = unit.ended
    <2>1. CASE unit.state = "failed"
      <3>1. "dead" \in States /\ "dead" \notin MOUNT_STATE_WITH_PROCESS /\ unit.ended = "no"
        BY <1>1, <2>1 DEF States, MOUNT_STATE_WITH_PROCESS
      <3>2. s = mount_set_state(unit, "dead")
        BY <2>1
      <3> HIDE DEF s
      <3>3. Entered(unit, s, "dead", Asked) /\ s.astray = unit.astray
        BY <1>1, <3>1, <3>2, SetState
      <3> QED BY <1>1, <2>1, <3>1, <3>3 DEF Entered, Good, Watched, Believes
    <2>2. CASE unit.state # "failed"
      BY <1>1, <2>2
    <2> QED BY <2>1, <2>2
  <1> HIDE DEF s
  <1>4. unit' \in Record /\ Same(s, unit') /\ Kept(unit', Asked) /\ Settled(unit')
    BY Zenon, <1>2, <1>3 DEF Good, Record, Same, Kept, Settled
  <1>5. Good(unit', Asked) /\ unit'.from_proc = unit.from_proc /\ unit'.ended = unit.ended
    BY <1>3, <1>4, Alike
  <1> QED BY <1>2, <1>5, Quiet DEF Noticed

(* After a reload the unit is where mountinfo says that it must be.        *)
LEMMA ReloadStep ==
  ASSUME IInv, Reload
  PROVE  IInv' /\ Noticed(unit, unit', mounted)
  <1>1. /\ unit \in Record /\ Kept(unit, Asked) /\ Watched(unit) /\ Believes(unit)
        /\ Settled(unit) /\ mounted \in Nat /\ others \in Nat
        /\ unit.ended # "no" => unit.state \in MOUNT_STATE_WITH_PROCESS
    BY Facts
  <1> DEFINE f == mounted > 0
             g == unit.auto = "running"
             t == [unit EXCEPT !.from_proc = f, !.timer = g, !.start_limit_hit = FALSE]
             Restored(s) ==
               CASE f /\ s.state \in {"dead", "failed"} ->
                      mount_enter_mounted(mount_cycle_clear(s), TRUE)
                 [] f /\ s.state = "mounting" -> mount_set_state(s, "mounting-done")
                 [] mounted = 0 /\ s.state = "mounting-done" -> mount_set_state(s, "mounting")
                 [] mounted = 0 /\ s.state = "mounted" -> mount_enter_dead(s, TRUE)
                 [] OTHER -> s
  <1>2. /\ \/ unit' = Restored(t)
           \/ unit' = Restored(automount_trigger_notify(t))
        /\ UNCHANGED <<mounted, changed, pipe, next, others>>
    BY Zenon DEF Reload
  <1>3. f \in BOOLEAN /\ g \in BOOLEAN /\ (f <=> mounted # 0)
    BY <1>1
  <1> HIDE DEF f, g
  <1>4. /\ t \in Record /\ Kept(t, Asked) /\ Settled(t) /\ t.from_proc = f
        /\ t.state = unit.state /\ t.process = unit.process /\ t.ended = unit.ended
        /\ t.astray = unit.astray
    BY Zenon, <1>1, <1>3 DEF Record, Kept, Settled
  <1> HIDE DEF t
  <1>5. PICK s : /\ unit' = Restored(s)
                 /\ s \in Record /\ Same(t, s) /\ Kept(s, Asked) /\ Settled(s)
    <2>1. t \in Record /\ Same(t, t) /\ Kept(t, Asked) /\ Settled(t)
      BY <1>4 DEF Same
    <2> DEFINE n == automount_trigger_notify(t)
    <2>2. n \in Record /\ Same(t, n) /\ Kept(n, Asked) /\ Settled(n)
      BY <1>4, Trigger
    <2>3. unit' = Restored(t) \/ unit' = Restored(n)
      BY Zenon, <1>2
    <2> HIDE DEF n, Restored
    <2> QED BY <2>1, <2>2, <2>3
  <1>6. /\ s.from_proc = f /\ s.state = unit.state /\ s.process = unit.process
        /\ s.ended = unit.ended /\ s.astray = unit.astray /\ Watched(s)
    BY <1>1, <1>4, <1>5 DEF Same, Watched
  <1>7. /\ Good(unit', Asked) /\ unit'.from_proc = f
        /\ unit.ended # "no" => unit'.ended # "no"
    <2>1. CASE f /\ s.state \in {"dead", "failed"}
      <3> DEFINE r == mount_cycle_clear(s)
      <3>1. unit' = mount_enter_mounted(r, TRUE)
        BY Zenon, <1>5, <2>1
      <3>2. r \in Record /\ Kept(r, Asked) /\ r.from_proc = f
        BY Zenon, <1>5, <1>6 DEF mount_cycle_clear, Record, Kept
      <3> HIDE DEF r
      <3>3. Entered(r, unit', "mounted", Asked)
        BY Zenon, <3>1, <3>2, EnterMounted
      <3> QED BY <1>1, <1>6, <2>1, <3>2, <3>3
              DEF Entered, Good, Watched, Believes, MOUNT_STATE_WITH_PROCESS
    <2>2. CASE f /\ s.state = "mounting"
      <3>1. unit' = mount_set_state(s, "mounting-done")
        BY <1>5, <2>2
      <3>2. "mounting-done" \in States /\ "mounting-done" \in MOUNT_STATE_WITH_PROCESS
            /\ "mounting" \in MOUNT_STATE_WITH_PROCESS
        BY DEF States, MOUNT_STATE_WITH_PROCESS
      <3>3. Entered(s, unit', "mounting-done", Asked)
        BY Zenon, <1>5, <3>1, <3>2, SetState
      <3> QED BY <1>6, <2>2, <3>2, <3>3 DEF Entered, Good, Watched, Believes
    <2>3. CASE mounted = 0 /\ s.state = "mounting-done"
      <3>1. unit' = mount_set_state(s, "mounting")
        BY <1>3, <1>5, <2>3
      <3>2. "mounting" \in States /\ "mounting-done" \in MOUNT_STATE_WITH_PROCESS
            /\ "mounting" \in MOUNT_STATE_WITH_PROCESS
        BY DEF States, MOUNT_STATE_WITH_PROCESS
      <3>3. Entered(s, unit', "mounting", Asked)
        BY Zenon, <1>5, <3>1, <3>2, SetState
      <3> QED BY <1>3, <1>6, <2>3, <3>2, <3>3 DEF Entered, Good, Watched, Believes
    <2>4. CASE mounted = 0 /\ s.state = "mounted"
      <3>1. unit' = mount_enter_dead(s, TRUE)
        BY <1>3, <1>5, <2>4
      <3>2. PICK state \in {"dead", "failed"} : Entered(s, unit', state, Asked)
        BY Zenon, <1>5, <3>1, EnterDead
      <3> QED BY <1>1, <1>3, <1>6, <2>4, <3>2
              DEF Entered, Good, Watched, Believes, MOUNT_STATE_WITH_PROCESS
    <2>5. CASE /\ ~(f /\ s.state \in {"dead", "failed", "mounting"})
               /\ ~(mounted = 0 /\ s.state \in {"mounting-done", "mounted"})
      <3>1. unit' = s
        BY Zenon, <1>5, <2>5
      <3>2. Believes(s)
        BY <1>1, <1>3, <1>6, <2>5 DEF Believes
      <3> QED BY Zenon, <1>5, <1>6, <3>1, <3>2 DEF Good
    <2> QED BY <2>1, <2>2, <2>3, <2>4, <2>5
  <1>8. Asked' = Asked /\ Typed'
    BY <1>2, <1>7 DEF Asked, IInv, Typed, Good
  <1>9. UpToDate'
    BY Zenon, <1>2, <1>7 DEF UpToDate, f
  <1>10. Good(unit, Asked)'
    BY <1>7, <1>8, Zenon DEF Good, Watched, Believes, Kept, Settled
  <1> QED BY <1>7, <1>8, <1>9, <1>10 DEF IInv, Noticed


(* A step that changes the mounts: mountinfo will have to be read.         *)
LEMMA Loud ==
  ASSUME IInv, Good(unit', Asked), mounted' \in 0 .. MaxMounts, changed' = TRUE,
         UNCHANGED <<pipe, next>>, others' \in Nat
  PROVE  IInv'
  <1>1. Asked' = Asked
    BY DEF Asked
  <1>2. Typed' /\ UpToDate'
    BY DEF IInv, Typed, Good, UpToDate
  <1>3. Good(unit, Asked)'
    BY <1>1, Zenon DEF Good, Watched, Believes, Kept, Settled
  <1> QED BY <1>2, <1>3 DEF IInv

Requests == [what : {"missing", "expire"}, token : Token]

(* A step that changes the pipe of the automount point.                    *)
LEMMA Piped ==
  ASSUME IInv, NEW asked, asked = Asked', Good(unit', asked),
         unit'.from_proc = unit.from_proc,
         UNCHANGED <<mounted, changed>> \/ Kernel(changed),
         pipe' \in Seq(Requests), next' \in Nat \ {0}, others' \in Nat
  PROVE  IInv'
  <1>0. /\ mounted' \in 0 .. MaxMounts /\ changed' \in BOOLEAN
        /\ \/ mounted' = mounted /\ changed' = changed
           \/ changed' = TRUE
    BY KernelStep DEF IInv, Typed
  <1>1. Typed'
    BY <1>0 DEF IInv, Typed, Good, Requests
  <1>2. UpToDate'
    BY <1>0 DEF IInv, UpToDate
  <1>3. Good(unit, Asked)'
    BY Zenon DEF Good, Watched, Believes, Kept, Settled
  <1> QED BY <1>1, <1>2, <1>3 DEF IInv

LEMMA ActStep ==
  ASSUME IInv, Act
  PROVE  IInv' /\ Noticed(unit, unit', mounted)
  <1>1. Good(unit, Asked) /\ unit \in Record /\ Kept(unit, Asked) /\ Settled(unit)
        /\ mounted \in Nat /\ others \in Nat
    BY Facts
  <1>2. /\ unit' = [unit EXCEPT !.acted = TRUE] /\ mounted' \in 0 .. MaxMounts /\ changed' = TRUE
        /\ UNCHANGED <<pipe, next, others>>
    BY <1>1, MountAssumption DEF Act, SetMounted, IInv, Typed
  <1>3. unit' \in Record /\ Same(unit, unit') /\ Kept(unit', Asked) /\ Settled(unit')
    BY Zenon, <1>1, <1>2 DEF Record, Same, Kept, Settled
  <1>4. Good(unit', Asked) /\ unit'.ended = unit.ended
    BY <1>1, <1>3, Alike
  <1> QED BY <1>1, <1>2, <1>4, Loud DEF Noticed

(* The process that the unit watches has ended, which it has yet to hear.  *)
LEMMA Over ==
  ASSUME NEW asked, NEW s, Good(s, asked), s.process # "none",
         NEW how \in {"ok", "failed", "killed"}, NEW t, t = [s EXCEPT !.ended = how]
  PROVE  Good(t, asked) /\ t.from_proc = s.from_proc
  <1>1. /\ t \in Record /\ t.state = s.state /\ t.from_proc = s.from_proc /\ t.astray = s.astray
        /\ t.process = s.process /\ t.tokens = s.tokens /\ t.expire_tokens = s.expire_tokens
        /\ t.waiters = s.waiters /\ t.auto = s.auto /\ t.job = s.job
    BY DEF Good, Record
  <1> QED BY <1>1 DEF Good, Watched, Believes, Kept, Settled

LEMMA UndoStep ==
  ASSUME IInv, Undo
  PROVE  IInv' /\ Noticed(unit, unit', mounted)
  <1>1. Good(unit, Asked) /\ mounted \in Nat /\ others \in Nat
    BY Facts
  <1>2. /\ unit' = [unit EXCEPT !.ended = "failed"] /\ unit.process # "none" /\ unit.ended = "no"
        /\ mounted' \in 0 .. MaxMounts /\ changed' = TRUE
        /\ UNCHANGED <<pipe, next, others>>
    BY <1>1, MountAssumption DEF Undo, SetMounted, IInv, Typed
  <1>3. Good(unit', Asked)
    BY <1>1, <1>2, Over
  <1> QED BY <1>1, <1>2, <1>3, Loud DEF Noticed

LEMMA EndStep ==
  ASSUME IInv, NEW how \in {"ok", "failed", "killed"}, End(how)
  PROVE  IInv' /\ Noticed(unit, unit', mounted)
  <1>1. Good(unit, Asked) /\ others \in Nat
    BY Facts
  <1>2. /\ unit' = [unit EXCEPT !.ended = how] /\ unit.process # "none" /\ unit.ended = "no"
        /\ UNCHANGED <<mounted, changed, pipe, next>> /\ others' \in Nat
    BY <1>1 DEF End
  <1>3. Good(unit', Asked) /\ unit'.from_proc = unit.from_proc
    BY <1>1, <1>2, Over
  <1>4. unit'.auto = unit.auto
    BY <1>1, <1>2 DEF Good, Record
  <1>5. Kernel(changed)
    BY <1>2, <1>4, Facts DEF Kernel, IInv, Typed
  <1> QED BY <1>2, <1>3, <1>5, Quiet DEF Noticed

LEMMA OtherStep ==
  ASSUME IInv, NEW n \in 0 .. MaxMounts, Other(n)
  PROVE  IInv' /\ Noticed(unit, unit', mounted)
  <1>1. Good(unit, Asked) /\ others \in Nat
    BY Facts
  <1>2. /\ unit' = unit /\ mounted' \in 0 .. MaxMounts /\ changed' = TRUE
        /\ UNCHANGED <<pipe, next>> /\ others' \in Nat
    BY <1>1 DEF Other, Intervene, SetMounted
  <1> QED BY <1>1, <1>2, Loud DEF Noticed

LEMMA AskStep ==
  ASSUME IInv, NEW what \in {"missing", "expire"}, Ask(what)
  PROVE  IInv' /\ Noticed(unit, unit', mounted)
  <1> DEFINE q == [what |-> what, token |-> next]
  <1>1. Good(unit, Asked) /\ unit \in Record /\ Kept(unit, Asked) /\ Settled(unit)
        /\ others \in Nat
    BY Facts
  <1>2. /\ unit.auto \in {"waiting", "running"} /\ pipe' = Append(pipe, q)
        /\ unit' = [unit EXCEPT !.waiters = @ \union {next}] /\ next' = next + 1
        /\ UNCHANGED <<mounted, changed, others>> /\ next <= MaxTokens
    BY DEF Ask
  <1>3. next \in Token /\ next' \in Nat \ {0} /\ q \in Requests /\ pipe \in Seq(Requests)
    BY <1>2, MountAssumption DEF IInv, Typed, Token, Requests
  <1> HIDE DEF q
  <1>4. pipe' \in Seq(Requests) /\ Asked' = Asked \union {q.token}
    <2>1. DOMAIN pipe' = DOMAIN pipe \union {Len(pipe) + 1} /\ pipe' \in Seq(Requests)
          /\ pipe'[Len(pipe) + 1] = q /\ \A i \in DOMAIN pipe : pipe'[i] = pipe[i]
      BY <1>2, <1>3
    <2> QED BY <2>1 DEF Asked
  <1>5. /\ unit' \in Record /\ Same(unit, unit') /\ unit'.waiters = unit.waiters \union {next}
        /\ unit'.tokens = unit.tokens /\ unit'.expire_tokens = unit.expire_tokens
        /\ unit'.auto = unit.auto /\ unit'.job = unit.job
    BY Zenon, <1>1, <1>2, <1>3 DEF Record, Same
  <1>6. PICK asked : asked = Asked'
    OBVIOUS
  <1>7. Kept(unit', asked) /\ Settled(unit')
    BY <1>1, <1>2, <1>4, <1>5, <1>6 DEF Kept, Settled, Same, q
  <1>8. Good(unit', asked) /\ unit'.from_proc = unit.from_proc /\ unit'.ended = unit.ended
    BY <1>1, <1>5, <1>7, Alike
  <1> QED BY Zenon, <1>1, <1>2, <1>3, <1>4, <1>6, <1>8, Piped DEF Noticed


LEMMA PipeStep ==
  ASSUME IInv, automount_dispatch_io
  PROVE  IInv' /\ Noticed(unit, unit', mounted)
  <1> DEFINE h == Head(pipe)
             t == h.token
  <1>1. /\ Good(unit, Asked) /\ unit \in Record /\ Kept(unit, Asked) /\ Settled(unit)
        /\ others \in Nat /\ pipe \in Seq(Requests) /\ next \in Nat \ {0}
    BY Facts DEF IInv, Typed, Requests
  <1>2. /\ unit.auto \in {"waiting", "running"} /\ pipe # <<>> /\ pipe' = Tail(pipe)
        /\ Kernel(changed) /\ UNCHANGED <<next, others>>
    BY DEF automount_dispatch_io
  <1>3. h \in Requests /\ t \in Token /\ pipe' \in Seq(Requests)
    <2>1. h \in Requests /\ pipe' \in Seq(Requests)
      BY <1>1, <1>2
    <2> HIDE DEF h
    <2> QED BY <2>1 DEF Requests
  <1>4. PICK asked : asked = Asked'
    OBVIOUS
  <1>5. Asked \subseteq asked \union {t}
    <2>1. \A i \in DOMAIN pipe : i = 1 \/ (i - 1 \in DOMAIN pipe' /\ pipe'[i - 1] = pipe[i])
      BY <1>1, <1>2
    <2>2. h = pipe[1]
      BY <1>1, <1>2
    <2> QED BY <1>4, <2>1, <2>2 DEF Asked
  <1>6. /\ h.what = "missing" =>
             unit' = automount_enter_running([unit EXCEPT !.tokens = @ \union {t}])
        /\ h.what # "missing" =>
             unit' = Installed([unit EXCEPT !.expire_tokens = @ \union {t}, !.timer = FALSE],
                               "stop")
    BY DEF automount_dispatch_io
  <1> HIDE DEF h, t
  <1>7. unit' \in Record /\ Same(unit, unit') /\ Kept(unit', asked) /\ Settled(unit')
    <2>1. CASE h.what = "missing"
      <3> DEFINE s == [unit EXCEPT !.tokens = @ \union {t}]
      <3>1. /\ s \in Record /\ Same(unit, s) /\ Kept(s, asked)
            /\ s.expire_tokens = unit.expire_tokens /\ s.job = unit.job
        BY Zenon, <1>1, <1>2, <1>3, <1>5 DEF Record, Same, Kept
      <3>2. unit' = automount_enter_running(s)
        BY <1>6, <2>1
      <3> HIDE DEF s
      <3>3. CASE mounted > 0
        <4>1. unit' = automount_send_ready(s, "tokens")
          BY <3>2, <3>3 DEF automount_enter_running
        <4>2. /\ unit' \in Record /\ Same(s, unit') /\ Kept(unit', asked)
              /\ unit'.job = s.job /\ unit'.tokens = {} /\ unit'.expire_tokens = s.expire_tokens
          BY <3>1, <4>1, Ready
        <4> QED BY <1>1, <3>1, <4>2 DEF Same, Settled
      <3>4. CASE ~(mounted > 0)
        <4> DEFINE r == Installed(s, "start")
        <4>1. "start" \in {"start", "stop", "reload"} /\ "running" \in AutomountStates
          BY DEF AutomountStates
        <4>2. r \in Record /\ Same(s, r) /\ Kept(r, asked) /\ Settled(r)
          BY <3>1, <4>1, InstalledKept
        <4>3. unit' = automount_set_state(r, "running")
          BY <3>2, <3>4 DEF automount_enter_running
        <4> HIDE DEF r
        <4>4. /\ unit' \in Record /\ Same(r, unit') /\ Kept(unit', asked) /\ unit'.job = r.job
              /\ unit'.tokens \subseteq r.tokens /\ unit'.expire_tokens \subseteq r.expire_tokens
          BY <4>1, <4>2, <4>3, AutoState
        <4> QED BY <3>1, <4>2, <4>4 DEF Same, Settled
      <3> QED BY <3>3, <3>4
    <2>2. CASE h.what # "missing"
      <3> DEFINE s == [unit EXCEPT !.expire_tokens = @ \union {t}, !.timer = FALSE]
      <3>1. s \in Record /\ Same(unit, s) /\ Kept(s, asked)
        BY Zenon, <1>1, <1>2, <1>3, <1>5 DEF Record, Same, Kept
      <3>2. unit' = Installed(s, "stop") /\ "stop" \in {"start", "stop", "reload"}
        BY <1>6, <2>2
      <3> HIDE DEF s
      <3>3. unit' \in Record /\ Same(s, unit') /\ Kept(unit', asked) /\ Settled(unit')
        BY <3>1, <3>2, InstalledKept
      <3> QED BY <3>1, <3>3 DEF Same
    <2> QED BY <2>1, <2>2
  <1>8. Good(unit', asked) /\ unit'.from_proc = unit.from_proc /\ unit'.ended = unit.ended
    BY <1>1, <1>7, Alike
  <1> QED BY <1>1, <1>2, <1>3, <1>4, <1>8, Piped DEF Noticed

LEMMA StopAutoStep ==
  ASSUME IInv, automount_stop
  PROVE  IInv' /\ Noticed(unit, unit', mounted)
  <1>1. Good(unit, Asked) /\ unit \in Record /\ Kept(unit, Asked) /\ others \in Nat
    BY Facts
  <1>2. /\ unit' = automount_set_state(unit, "dead") /\ "dead" \in AutomountStates
        /\ Kernel(changed) /\ UNCHANGED <<pipe, next>> /\ others' \in Nat
    BY <1>1 DEF automount_stop, automount_enter_dead, AutomountStates
  <1>3. /\ unit' \in Record /\ Same(unit, unit') /\ Kept(unit', Asked)
        /\ unit'.tokens = {} /\ unit'.expire_tokens = {}
    BY <1>1, <1>2, AutoState
  <1>4. Good(unit', Asked) /\ unit'.from_proc = unit.from_proc /\ unit'.ended = unit.ended
    <2>1. Settled(unit')
      BY <1>3 DEF Settled
    <2> QED BY <1>1, <1>3, <2>1, Alike
  <1> QED BY <1>2, <1>4, Quiet DEF Noticed

LEMMA StartAutoStep ==
  ASSUME IInv, automount_start
  PROVE  IInv' /\ Noticed(unit, unit', mounted)
  <1> DEFINE s == [unit EXCEPT !.tokens = {}]
  <1>1. Good(unit, Asked) /\ unit \in Record /\ Kept(unit, Asked) /\ others \in Nat
        /\ next \in Nat \ {0}
    BY Facts DEF IInv, Typed
  <1>2. /\ unit.auto \notin {"waiting", "running"} /\ pipe' = <<>>
        /\ unit' = automount_set_state(s, "waiting") /\ "waiting" \in AutomountStates
        /\ UNCHANGED <<mounted, changed, next, others>>
    BY DEF automount_start, AutomountStates
  <1>3. Asked' = {} /\ pipe' \in Seq(Requests)
    BY <1>2 DEF Asked
  <1>4. PICK asked : asked = Asked'
    OBVIOUS
  <1>5. /\ s \in Record /\ Same(unit, s) /\ Kept(s, asked)
        /\ s.tokens = {} /\ s.expire_tokens = {}
    BY <1>1, <1>2 DEF Record, Same, Kept
  <1> HIDE DEF s
  <1>6. /\ unit' \in Record /\ Same(s, unit') /\ Kept(unit', asked)
        /\ unit'.tokens \subseteq s.tokens /\ unit'.expire_tokens \subseteq s.expire_tokens
    BY <1>2, <1>5, AutoState
  <1>7. Good(unit', asked) /\ unit'.from_proc = unit.from_proc /\ unit'.ended = unit.ended
    <2>1. Settled(unit') /\ Same(unit, unit')
      BY <1>5, <1>6 DEF Settled, Same
    <2> QED BY <1>1, <1>6, <2>1, Alike
  <1> QED BY <1>1, <1>2, <1>3, <1>4, <1>7, Piped DEF Noticed

LEMMA InitInv ==
  ASSUME Init
  PROVE  IInv
  <1>1. unit \in Record /\ Watched(unit) /\ Believes(unit) /\ Settled(unit) /\ Kept(unit, Asked)
    BY DEF Init, Record, States, MOUNT_STATE_WITH_PROCESS, AutomountStates, Watched, Believes,
           Settled, Kept
  <1>2. /\ mounted \in 0 .. MaxMounts /\ changed \in BOOLEAN /\ next \in Nat \ {0}
        /\ others \in Nat /\ pipe = <<>>
    <2>1. mounted = 0 /\ changed = FALSE /\ pipe = <<>> /\ next = 1 /\ others = 0
      BY Zenon DEF Init
    <2>2. mounted \in 0 .. MaxMounts /\ next \in Nat \ {0} /\ others \in Nat
      <3>1. MaxMounts \in Nat /\ mounted = 0 /\ next = 1 /\ others = 0
        BY <2>1, MountAssumption
      <3> QED BY <3>1
    <2>3. changed \in BOOLEAN
      BY Zenon, <2>1
    <2> QED BY <2>1, <2>2, <2>3
  <1>3. pipe \in Seq([what : {"missing", "expire"}, token : Token])
    BY <1>2
  <1>4. UpToDate
    BY DEF Init, UpToDate
  <1> QED BY Zenon, <1>1, <1>2, <1>3, <1>4 DEF IInv, Good, Typed

LEMMA NextInv ==
  ASSUME IInv, [Next]_vars
  PROVE  IInv' /\ (Noticed(unit, unit', mounted) \/ UNCHANGED vars)
  <1>1. CASE Next
    BY <1>1, SigchldStep, DispatchStep, TimerStep, RunStep, PipeStep, RequestStep,
       CancelStep, LimitStep, CleanStep, ResetStep, ReloadStep, ActStep, UndoStep, EndStep,
       OtherStep, AskStep, StopAutoStep, StartAutoStep DEF Next, Manager
  <1>2. CASE UNCHANGED vars
    <2>1. /\ Good(unit', Asked) /\ unit' = unit /\ Kernel(changed) /\ UNCHANGED <<pipe, next>>
          /\ others' \in Nat
      <3>1. /\ unit' = unit /\ mounted' = mounted /\ changed' = changed
            /\ UNCHANGED <<pipe, next>> /\ others' = others
        BY <1>2 DEF vars
      <3>2. Good(unit', Asked) /\ others' \in Nat
        BY <3>1, Facts
      <3>3. Kernel(changed)
        BY Zenon, <3>1 DEF Kernel, IInv, Typed
      <3> QED BY <3>1, <3>2, <3>3
    <2> QED BY <1>2, <2>1, Quiet
  <1> QED BY <1>1, <1>2


-----------------------------------------------------------------------------
LEMMA IInvAlways == Spec => []IInv
  <1>1. Init => IInv
    BY InitInv
  <1>2. IInv /\ [Next]_vars => IInv'
    BY NextInv
  <1> QED BY <1>1, <1>2, PTL DEF Spec

(* The states, the job, the tokens and the process that the unit watches   *)
(* are of their types: mount_set_state() drops the process in every state  *)
(* that has none.                                                          *)
THEOREM TypeCorrect == Spec => []TypeOK
  <1>1. IInv => TypeOK
    BY DEF IInv, Typed, Good, Watched, Record, States, TypeOK, Token
  <1> QED BY <1>1, IInvAlways, PTL

(* mount_process_proc_self_mountinfo(), mount_sigchld_event(), the timers, *)
(* jobs and a reload keep the unit in step with the kernel: when mountinfo *)
(* was read and no process is at work, the unit is mounted exactly if      *)
(* there is a mount, unless systemctl clean or the start limit led it      *)
(* astray.                                                                 *)
THEOREM FollowsAlways == Spec => []Follows
  <1>1. IInv => Follows
    BY DEF IInv, Good, Believes, UpToDate, Record, States, Follows
  <1> QED BY <1>1, IInvAlways, PTL

(* Whoever waits for the automount point has a request that was not read,  *)
(* or a token of the automount unit; and tokens are kept only while a job  *)
(* or a process of the mount unit will make it answer.                     *)
THEOREM NoneIsForgotten == Spec => []NoneForgotten
  <1>1. IInv => NoneForgotten
    BY DEF IInv, Good, Kept, Settled, Asked, NoneForgotten
  <1> QED BY <1>1, IInvAlways, PTL

(* mount_sigchld_event() reads mountinfo before it looks at how mount(8)   *)
(* or umount(8) ended, so that what they have done is seen, whatever the   *)
(* exit status says.                                                       *)
THEOREM DoneIsSeen == Spec => DoneSeen
  <1> DEFINE Seen == (/\ unit.ended # "no" /\ unit'.ended = "no"
                      /\ unit.state \notin {"remounting-sigkill", "unmounting-sigkill"}
                      /\ ~unit'.astray) =>
                       (unit'.state \in {"mounted", "unmounting"} <=> mounted > 0)
  <1>1. IInv /\ [Next]_vars => [Seen]_vars
    BY NextInv DEF Noticed
  <1> QED BY <1>1, IInvAlways, PTL DEF Spec, DoneSeen
=============================================================================
