-------------------------- MODULE UdevQueueProofs ---------------------------
(***************************************************************************)
(* udevd handles the events of conflicting devices in their order, and     *)
(* loses none, for any devices, workers and numbers of events.             *)
(***************************************************************************)
EXTENDS UdevQueue, WellFoundedInduction, TLAPS

Event ==
  [state : {"queued", "running"}, blocker : Nat, retry : {"no", "wait", "again"},
   late : BOOLEAN, timer : BOOLEAN]
Worker == [state : {"running", "idle", "killing", "killed"}, event : Nat]
Answer == [worker : Workers, again : BOOLEAN]
Process == {"none", "exited", "crashed", "idle", "busy"}

(* What TypeOK says without the ranges of the numbers, and the socket.     *)
Typed ==
  /\ device \in Seq(Devices)
  /\ DOMAIN events \subseteq Numbers
  /\ \A e \in DOMAIN events : events[e] \in Event
  /\ Tracked \subseteq Workers
  /\ \A w \in Tracked : workers[w] \in Worker
  /\ proc \in [Workers -> Process]
  /\ work \in [Workers -> Nat]
  /\ answers \in Seq(Answer)
  /\ cursor \in {0} \union DOMAIN events
  /\ term \subseteq Tracked

(* A process that is busy handles the event that the daemon believes it    *)
(* handles.                                                                *)
Known ==
  \A w \in Workers :
    /\ proc[w] = "none" <=> w \notin Tracked
    /\ Busy(w) => proc[w] = "busy" /\ w \in Tracked /\ workers[w].event = work[w]

(* worker->event and worker->state agree with the event.                   *)
Assigned ==
  \A w \in Tracked :
    /\ workers[w].event # 0 => /\ workers[w].event \in DOMAIN events
                               /\ events[workers[w].event].state = "running"
    /\ workers[w].state = "idle" => workers[w].event = 0
    /\ workers[w].state \in {"running", "killing"} => workers[w].event # 0

(* No two workers have the same event.                                     *)
Alone ==
  \A v, w \in Tracked : workers[v].event = workers[w].event => v = w \/ workers[w].event = 0

(* An answer is the only one of its process, which is not busy any more,   *)
(* and for the event that the daemon has noted for it.                     *)
Answered ==
  \A i \in DOMAIN answers :
    /\ ~Busy(answers[i].worker)
    /\ answers[i].worker \in Tracked => workers[answers[i].worker].event # 0
    /\ \A j \in DOMAIN answers : answers[i].worker = answers[j].worker => i = j

(* event->blocker_seqnum: no earlier event that conflicts is older than    *)
(* the blocker, and an event that is handled has itself as the blocker.    *)
InOrder ==
  \A e \in DOMAIN events :
    /\ events[e].state = "running" => events[e].blocker = e
    /\ \A f \in DOMAIN events : f < e /\ Conflicting(e, f) => events[e].blocker <= f

IInv == Typed /\ Known /\ Assigned /\ Alone /\ Answered /\ InOrder

-----------------------------------------------------------------------------
(* Sequences and numbers *)

LEMMA Appended ==
  ASSUME NEW S, NEW s \in Seq(S), NEW x \in S
  PROVE  /\ Append(s, x) \in Seq(S) /\ Len(Append(s, x)) = Len(s) + 1
         /\ DOMAIN s = 1..Len(s) /\ DOMAIN Append(s, x) = 1..(Len(s) + 1)
         /\ \A i \in 1..Len(s) : Append(s, x)[i] = s[i]
         /\ Append(s, x)[Len(s) + 1] = x
OBVIOUS

LEMMA Popped ==
  ASSUME NEW S, NEW s \in Seq(S), s # <<>>
  PROVE  /\ Tail(s) \in Seq(S) /\ Head(s) = s[1] /\ Head(s) \in S
         /\ 1 \in DOMAIN s
         /\ \A i \in DOMAIN Tail(s) : i + 1 \in DOMAIN s /\ Tail(s)[i] = s[i + 1] /\ i + 1 # 1
OBVIOUS

LEMMA LeastOf ==
  ASSUME NEW S \in SUBSET Nat, S # {}
  PROVE  Least(S) \in S /\ \A f \in S : Least(S) <= f
<1>1. \E x \in S : \A y \in S : <<y, x>> \notin OpToRel(<, Nat)
  BY Zenon, WFMin, NatLessThanWellFounded
<1>2. \E x \in S : \A y \in S : ~(y < x)
  BY Zenon, <1>1 DEF OpToRel
<1>3. \E x \in S : \A y \in S : x <= y
  BY <1>2
<1> QED
  BY Zenon, <1>3 DEF Least

LEMMA AfterType ==
  ASSUME Typed, NEW e
  PROVE  After(e) \in {0} \union DOMAIN events
<1> DEFINE S == {f \in DOMAIN events : f > e}
<1>1. S \in SUBSET Nat
  BY DEF Typed, Numbers
<1>2. S # {} => Least(S) \in S
  BY Zenon, <1>1, LeastOf
<1> QED
  BY <1>2 DEF After

-----------------------------------------------------------------------------
(* The order *)

LEMMA EventNumbers ==
  ASSUME Typed, NEW e \in DOMAIN events
  PROVE  e \in Nat /\ e # 0 /\ events[e] \in Event /\ events[e].blocker \in Nat
BY DEF Typed, Numbers, Event

(* What event_requeue() changes.                                           *)
LEMMA EventRequeued ==
  ASSUME NEW v \in Event, NEW x, x = [v EXCEPT !.state = "queued", !.retry = "wait", !.timer = FALSE]
  PROVE  x \in Event /\ x.state = "queued" /\ x.blocker = v.blocker
<1>1. x = [state |-> "queued", blocker |-> v.blocker, retry |-> "wait", late |-> v.late, timer |-> FALSE]
  BY Zenon DEF Event
<1> QED
  BY <1>1 DEF Event

(* A step that starts no event and leaves the blockers alone.              *)
LEMMA OrderKept ==
  ASSUME InOrder, DOMAIN events' \subseteq DOMAIN events, device' = device,
         \A e \in DOMAIN events' : /\ events'[e].blocker = events[e].blocker
                                   /\ events'[e].state = "running" => events[e].state = "running"
  PROVE  InOrder'
BY DEF InOrder, Conflicting

(* event_is_blocked() notes the blocker: what it no longer looks at is gone.*)
LEMMA BlockerIsOldest ==
  ASSUME Typed, InOrder, NEW e \in DOMAIN events
  PROVE  /\ BlockerOf(e) \in Nat
         /\ \A f \in DOMAIN events : f < e /\ Conflicting(e, f) => BlockerOf(e) <= f
<1> DEFINE b == events[e].blocker
<1>1. e \in Nat /\ b \in Nat
  BY EventNumbers
<1>2. \A f \in DOMAIN events : f \in Nat /\ (f < e /\ Conflicting(e, f) => b <= f)
  BY EventNumbers DEF InOrder
<1>3. CASE events[e].retry = "wait" \/ b \in DOMAIN events
  <2>1. BlockerOf(e) = b
    BY <1>3 DEF BlockerOf
  <2> QED
    BY <1>1, <1>2, <2>1
<1>4. CASE events[e].retry # "wait" /\ b \notin DOMAIN events
  <2>1. BlockerOf(e) = IF Blockers(e) = {} THEN e ELSE Least(Blockers(e))
    BY <1>4 DEF BlockerOf
  <2>2. Blockers(e) \subseteq Nat /\ (Blockers(e) # {} => Least(Blockers(e)) \in Blockers(e)
                                       /\ \A f \in Blockers(e) : Least(Blockers(e)) <= f)
    <3>1. Blockers(e) \subseteq Nat
      BY <1>2 DEF Blockers
    <3> QED
      BY Zenon, <3>1, LeastOf
  <2>3. \A f \in DOMAIN events : f < e /\ Conflicting(e, f) => f \in Blockers(e)
    BY <1>1, <1>2, <1>4 DEF Blockers
  <2> QED
    BY <1>1, <1>2, <2>1, <2>2, <2>3
<1> QED
  BY <1>3, <1>4

(* An event that is not blocked has no earlier event that conflicts.       *)
LEMMA NotBlocked ==
  ASSUME Typed, InOrder, NEW e \in DOMAIN events, ~event_is_blocked(e)
  PROVE  BlockerOf(e) = e
<1>1. e \in Nat /\ events[e].blocker \in Nat
  BY EventNumbers
<1> QED
  BY <1>1 DEF event_is_blocked, BlockerOf

(* A step that notes the blocker of one event, and may start it if it is   *)
(* not blocked.                                                            *)
LEMMA OrderNoted ==
  ASSUME Typed, InOrder, NEW e \in DOMAIN events, device' = device,
         DOMAIN events' = DOMAIN events, events'[e].blocker = BlockerOf(e),
         events'[e].state = "running" => BlockerOf(e) = e,
         \A f \in DOMAIN events : f # e => events'[f] = events[f]
  PROVE  InOrder'
<1>1. ASSUME NEW d \in DOMAIN events', NEW f \in DOMAIN events', f < d, Conflicting(d, f)'
      PROVE  events'[d].blocker <= f
  <2>1. Conflicting(d, f)
    BY <1>1 DEF Conflicting
  <2>2. CASE d = e
    BY <1>1, <2>1, <2>2, BlockerIsOldest
  <2>3. CASE d # e
    BY <1>1, <2>1, <2>3 DEF InOrder
  <2> QED
    BY <2>2, <2>3
<1>2. ASSUME NEW d \in DOMAIN events', events'[d].state = "running"
      PROVE  events'[d].blocker = d
  BY <1>2 DEF InOrder
<1> QED
  BY <1>1, <1>2 DEF InOrder

-----------------------------------------------------------------------------
(* The worker processes *)

LEMMA Answers ==
  ASSUME Typed, NEW i \in DOMAIN answers
  PROVE  answers[i] \in Answer /\ answers[i].worker \in Workers
<1>1. answers[i] \in Answer
  BY DEF Typed
<1> QED
  BY <1>1 DEF Answer

LEMMA AnswerStep ==
  ASSUME IInv, NEW w \in Workers, worker_process_device(w)
  PROVE  IInv'
<1>1. PICK a \in Answer : a.worker = w /\ answers' = Append(answers, a)
  <2>1. PICK again \in BOOLEAN : answers' = Append(answers, [worker |-> w, again |-> again])
    BY DEF worker_process_device
  <2> QED
    BY <2>1 DEF Answer
<1>2. /\ proc' = [proc EXCEPT ![w] = "idle"] /\ work' = [work EXCEPT ![w] = 0] /\ Busy(w)
      /\ UNCHANGED <<device, events, workers, cursor, term>>
  BY DEF worker_process_device, daemon
<1>3. Typed /\ Known /\ Assigned /\ Alone /\ Answered /\ InOrder /\ answers \in Seq(Answer)
  BY DEF IInv, Typed
<1>4. /\ answers' \in Seq(Answer)
      /\ \A i \in DOMAIN answers' : \/ i \in DOMAIN answers /\ answers'[i] = answers[i]
                                    \/ i \notin DOMAIN answers /\ answers'[i].worker = w
      /\ \A i, j \in DOMAIN answers' : i \notin DOMAIN answers /\ j \notin DOMAIN answers => i = j
  BY <1>1, <1>3, Appended
<1>5. Typed'
  BY <1>2, <1>3, <1>4 DEF Typed, Process, Numbers, Tracked
<1>6. /\ w \in Tracked /\ workers[w].event = work[w] /\ work[w] # 0
      /\ \A i \in DOMAIN answers : answers[i].worker # w
  BY <1>2, <1>3 DEF Known, Answered, Busy
<1>7. Known'
  BY <1>2, <1>3, <1>6 DEF Typed, Known, Busy, Tracked
<1>8. Assigned' /\ Alone'
  BY <1>2, <1>3 DEF Assigned, Alone, Tracked
<1>9. Answered'
  <2> SUFFICES ASSUME NEW i \in DOMAIN answers'
        PROVE  /\ work'[answers'[i].worker] = 0
               /\ answers'[i].worker \in Tracked' => workers'[answers'[i].worker].event # 0
               /\ \A j \in DOMAIN answers' : answers'[i].worker = answers'[j].worker => i = j
    BY DEF Answered, Busy
  <2>1. \A k \in DOMAIN answers : work[answers[k].worker] = 0 /\ answers[k].worker \in Workers
    BY <1>3, Answers DEF Answered, Busy
  <2>2. work'[answers'[i].worker] = 0
    BY <1>2, <1>3, <1>4, <2>1 DEF Typed
  <2> QED
    BY <1>2, <1>3, <1>4, <1>6, <2>2 DEF Answered, Tracked
<1>10. InOrder'
  BY <1>2, <1>3, OrderKept
<1> QED
  BY <1>5, <1>7, <1>8, <1>9, <1>10 DEF IInv

(* A process is no longer busy.                                            *)
LEMMA ProcessEnds ==
  ASSUME Typed, Known, Answered, NEW w \in Workers, NEW p \in Process \ {"none"}, proc[w] # "none",
         proc' = [proc EXCEPT ![w] = p], work' = [work EXCEPT ![w] = 0], answers' = answers,
         Tracked' = Tracked, \A v \in Tracked : workers'[v].event = workers[v].event
  PROVE  Known' /\ Answered'
<1>1. Known'
  BY DEF Typed, Known, Busy
<1>2. \A i \in DOMAIN answers : answers[i].worker \in Workers
  BY Answers
<1>3. Answered'
  BY <1>2 DEF Typed, Answered, Busy
<1> QED
  BY <1>1, <1>3

LEMMA CrashStep ==
  ASSUME IInv, NEW w \in Workers, Crash(w)
  PROVE  IInv'
<1>1. Typed /\ Known /\ Assigned /\ Alone /\ Answered /\ InOrder /\ proc[w] # "none"
  BY DEF IInv, Known, Crash
<1>2. /\ proc' = [proc EXCEPT ![w] = "crashed"] /\ work' = [work EXCEPT ![w] = 0]
      /\ UNCHANGED <<device, events, workers, cursor, term, answers>>
  BY DEF Crash, daemon
<1>3. Typed'
  BY <1>1, <1>2 DEF Typed, Process, Numbers, Tracked
<1>4. Known' /\ Answered'
  BY <1>1, <1>2, ProcessEnds DEF Process, Tracked
<1>5. Assigned' /\ Alone'
  BY <1>1, <1>2 DEF Assigned, Alone, Tracked
<1>6. InOrder'
  BY <1>1, <1>2, OrderKept
<1> QED
  BY <1>3, <1>4, <1>5, <1>6 DEF IInv

LEMMA TerminateStep ==
  ASSUME IInv, NEW w \in Workers, Terminate(w)
  PROVE  IInv'
<1>1. /\ Typed /\ Known /\ Assigned /\ Alone /\ Answered /\ InOrder
      /\ proc[w] = "idle" /\ work[w] = 0
  BY DEF IInv, Known, Terminate, Busy
<1>2. /\ proc' = [proc EXCEPT ![w] = "exited"]
      /\ UNCHANGED <<device, events, workers, cursor, work, term, answers>>
  BY DEF Terminate, daemon
<1>3. work' = [work EXCEPT ![w] = 0]
  BY <1>1, <1>2 DEF Typed
<1>4. Typed'
  BY <1>1, <1>2 DEF Typed, Process, Numbers, Tracked
<1>5. Known' /\ Answered'
  BY <1>1, <1>2, <1>3, ProcessEnds DEF Process, Tracked
<1>6. Assigned' /\ Alone'
  BY <1>1, <1>2 DEF Assigned, Alone, Tracked
<1>7. InOrder'
  BY <1>1, <1>2, OrderKept
<1> QED
  BY <1>4, <1>5, <1>6, <1>7 DEF IInv

-----------------------------------------------------------------------------
(* Steps of the daemon that give no worker an event and take none from it. *)

(* Workers keep their events; they may only be marked as going.            *)
LEMMA WorkersKeep ==
  ASSUME Known, Assigned, Alone, Answered, UNCHANGED <<proc, work, answers>>,
         Tracked' = Tracked,
         \A w \in Tracked :
           /\ workers'[w].event = workers[w].event
           /\ workers'[w].state = "idle" => workers[w].state = "idle"
           /\ workers'[w].state \in {"running", "killing"} => workers[w].state \in {"running", "killing"},
         \A e \in DOMAIN events : events[e].state = "running" =>
           e \in DOMAIN events' /\ events'[e].state = "running"
  PROVE  Known' /\ Assigned' /\ Alone' /\ Answered'
<1>1. Known'
  BY DEF Known, Busy
<1>2. Assigned'
  BY DEF Assigned
<1>3. Alone'
  BY DEF Alone
<1>4. Answered'
  BY DEF Answered, Busy
<1> QED
  BY <1>1, <1>2, <1>3, <1>4

(* The same if only events are touched, of which none starts or ends.      *)
LEMMA EventsTouched ==
  ASSUME IInv, UNCHANGED <<device, workers, proc, work, term, answers>>,
         DOMAIN events' = DOMAIN events, cursor' \in {0} \union DOMAIN events,
         \A e \in DOMAIN events : events'[e] \in Event /\ events'[e].state = events[e].state
  PROVE  Typed' /\ Known' /\ Assigned' /\ Alone' /\ Answered'
<1>1. Typed /\ Known /\ Assigned /\ Alone /\ Answered
  BY DEF IInv
<1>2. Typed'
  BY <1>1 DEF Typed, Numbers, Tracked
<1>3. Known' /\ Assigned' /\ Alone' /\ Answered'
  <2>1. workers' = workers /\ Tracked' = Tracked
    BY DEF Tracked
  <2> QED
    BY <1>1, <2>1, WorkersKeep
<1> QED
  BY <1>2, <1>3

(* Unlocked() changes nothing but when an event is tried again.            *)
LEMMA UnlockedType ==
  ASSUME Typed, NEW d
  PROVE  /\ DOMAIN Unlocked(events, d) = DOMAIN events
         /\ \A e \in DOMAIN events :
              /\ Unlocked(events, d)[e] \in Event
              /\ Unlocked(events, d)[e].state = events[e].state
              /\ Unlocked(events, d)[e].blocker = events[e].blocker
<1>1. \A e \in DOMAIN events : events[e] \in Event
  BY DEF Typed
<1> QED
  BY <1>1 DEF Unlocked, Event

LEMMA InotifyStep ==
  ASSUME IInv, NEW d, on_inotify(d)
  PROVE  IInv'
<1>1. /\ events' = Unlocked(events, d)
      /\ UNCHANGED <<device, workers, proc, work, term, answers, cursor>>
  BY DEF on_inotify, Callback, procs
<1>2. Typed /\ InOrder /\ cursor \in {0} \union DOMAIN events
  BY DEF IInv, Typed
<1>3. /\ DOMAIN events' = DOMAIN events
      /\ \A e \in DOMAIN events : /\ events'[e] \in Event /\ events'[e].state = events[e].state
                                  /\ events'[e].blocker = events[e].blocker
  BY <1>1, <1>2, UnlockedType
<1>4. Typed' /\ Known' /\ Assigned' /\ Alone' /\ Answered'
  BY <1>1, <1>2, <1>3, EventsTouched
<1>5. InOrder'
  BY <1>1, <1>2, <1>3, OrderKept
<1> QED
  BY <1>4, <1>5 DEF IInv

(* on_event_retry() and the timeout that it looks at.                      *)
LEMMA RetryStep ==
  ASSUME IInv, NEW e, on_event_retry(e) \/ Expire(e)
  PROVE  IInv'
<1>1. /\ e \in DOMAIN events
      /\ \/ events' = [events EXCEPT ![e].retry = "again"]
         \/ events' = [events EXCEPT ![e].late = TRUE]
      /\ UNCHANGED <<device, workers, proc, work, term, answers, cursor>>
  BY Zenon DEF on_event_retry, Expire, Callback, procs
<1>2. Typed /\ InOrder /\ cursor \in {0} \union DOMAIN events
  BY DEF IInv, Typed
<1>3. /\ DOMAIN events' = DOMAIN events
      /\ \A f \in DOMAIN events : /\ events'[f] \in Event /\ events'[f].state = events[f].state
                                  /\ events'[f].blocker = events[f].blocker
  <2>1. \A f \in DOMAIN events : events[f] \in Event
    BY <1>2 DEF Typed
  <2>2. CASE events' = [events EXCEPT ![e].retry = "again"]
    BY <1>1, <2>1, <2>2 DEF Event
  <2>3. CASE events' = [events EXCEPT ![e].late = TRUE]
    BY <1>1, <2>1, <2>3 DEF Event
  <2> QED
    BY <1>1, <2>2, <2>3
<1>4. Typed' /\ Known' /\ Assigned' /\ Alone' /\ Answered'
  BY <1>1, <1>2, <1>3, EventsTouched
<1>5. InOrder'
  BY <1>1, <1>2, <1>3, OrderKept
<1> QED
  BY <1>4, <1>5 DEF IInv

(* event_queue_start() passes over an event.                               *)
LEMMA SkipStep ==
  ASSUME IInv, Skip
  PROVE  IInv'
<1>1. /\ cursor # 0 /\ cursor' = After(cursor)
      /\ events' = IF events[cursor].state # "queued" THEN events
                   ELSE [events EXCEPT ![cursor].blocker = BlockerOf(cursor)]
      /\ UNCHANGED <<device, workers, proc, work, term, answers>>
  BY Zenon DEF Skip, procs
<1>2. Typed /\ InOrder /\ cursor \in DOMAIN events /\ After(cursor) \in {0} \union DOMAIN events
  BY <1>1, AfterType DEF IInv, Typed
<1>3. CASE events[cursor].state # "queued"
  <2>1. \A e \in DOMAIN events : events[e] \in Event
    BY <1>2 DEF Typed
  <2>2. Typed' /\ Known' /\ Assigned' /\ Alone' /\ Answered'
    BY <1>1, <1>2, <1>3, <2>1, EventsTouched
  <2>3. InOrder'
    BY <1>1, <1>2, <1>3, OrderKept
  <2> QED
    BY <2>2, <2>3 DEF IInv
<1>4. CASE events[cursor].state = "queued"
  <2>1. events' = [events EXCEPT ![cursor].blocker = BlockerOf(cursor)]
    BY <1>1, <1>4
  <2>2. \A e \in DOMAIN events : events[e] \in Event
    BY <1>2 DEF Typed
  <2>3. BlockerOf(cursor) \in Nat
    BY <1>2, BlockerIsOldest
  <2>4. /\ DOMAIN events' = DOMAIN events
        /\ events'[cursor].blocker = BlockerOf(cursor)
        /\ \A e \in DOMAIN events : events'[e] \in Event /\ events'[e].state = events[e].state
        /\ \A e \in DOMAIN events : e # cursor => events'[e] = events[e]
    BY <1>2, <2>1, <2>2, <2>3 DEF Event
  <2>5. Typed' /\ Known' /\ Assigned' /\ Alone' /\ Answered'
    BY <1>1, <1>2, <2>4, EventsTouched
  <2>6. InOrder'
    BY <1>1, <1>2, <1>4, <2>4, OrderNoted
  <2> QED
    BY <2>5, <2>6 DEF IInv
<1> QED
  BY <1>3, <1>4

(* A uevent comes last.                                                    *)
LEMMA UeventStep ==
  ASSUME IInv, NEW d \in Devices, on_uevent(d)
  PROVE  IInv'
<1> DEFINE n == Len(device) + 1
           evs == IF d \in Disks THEN Unlocked(events, d) ELSE events
           new == [state |-> "queued", blocker |-> 0, retry |-> "no", late |-> FALSE, timer |-> FALSE]
<1>1. /\ device' = Append(device, d) /\ events' = With(evs, n, new)
      /\ UNCHANGED <<workers, proc, work, term, answers, cursor>>
  BY Zenon DEF on_uevent, Callback, procs
<1>2. Typed /\ Known /\ Assigned /\ Alone /\ Answered /\ InOrder
  BY DEF IInv
<1>3. /\ device \in Seq(Devices) /\ \A e \in DOMAIN events : e \in 1..Len(device)
      /\ \A e \in DOMAIN events : events[e] \in Event
  BY <1>2 DEF Typed, Numbers
<1>4. /\ device' \in Seq(Devices) /\ Len(device') = n /\ Len(device) \in Nat
      /\ \A e \in 1..Len(device) : device'[e] = device[e]
  BY <1>1, <1>3, Appended
<1>5. /\ DOMAIN evs = DOMAIN events
      /\ \A e \in DOMAIN events : /\ evs[e] \in Event /\ evs[e].state = events[e].state
                                  /\ evs[e].blocker = events[e].blocker
  BY <1>2, <1>3, UnlockedType
<1> HIDE DEF evs
<1>6. /\ DOMAIN events' = DOMAIN events \union {n} /\ events'[n] = new /\ n \notin DOMAIN events
      /\ \A e \in DOMAIN events : events'[e] = evs[e]
  <2>1. n \notin DOMAIN events
    BY <1>3, <1>4
  <2> QED
    BY <1>1, <1>5, <2>1 DEF With
<1>7. Typed'
  <2>1. DOMAIN events' \subseteq Numbers'
    BY <1>3, <1>4, <1>6 DEF Numbers
  <2>2. \A e \in DOMAIN events' : events'[e] \in Event
    <3>1. new \in Event
      BY DEF Event
    <3> QED
      BY <1>5, <1>6, <3>1
  <2>3. /\ Tracked \subseteq Workers /\ \A w \in Tracked : workers[w] \in Worker
        /\ proc \in [Workers -> Process] /\ work \in [Workers -> Nat] /\ answers \in Seq(Answer)
        /\ cursor \in {0} \union DOMAIN events /\ term \subseteq Tracked
    BY <1>2 DEF Typed
  <2> QED
    BY <1>1, <1>4, <1>6, <2>1, <2>2, <2>3 DEF Typed, Tracked
<1>8. Known' /\ Assigned' /\ Alone' /\ Answered'
  <2>1. workers' = workers /\ Tracked' = Tracked
    BY <1>1 DEF Tracked
  <2>2. \A e \in DOMAIN events : e \in DOMAIN events' /\ events'[e].state = events[e].state
    BY <1>5, <1>6
  <2> QED
    BY <1>1, <1>2, <2>1, <2>2, WorkersKeep
<1>9. InOrder'
  <2>1. ASSUME NEW e \in DOMAIN events', events'[e].state = "running"
        PROVE  events'[e].blocker = e
    BY <1>2, <1>5, <1>6, <2>1 DEF InOrder
  <2>2. ASSUME NEW e \in DOMAIN events', NEW f \in DOMAIN events', f < e, Conflicting(e, f)'
        PROVE  events'[e].blocker <= f
    <3>1. CASE e = n
      BY <1>3, <1>4, <1>6, <3>1
    <3>2. CASE e # n
      <4>1. e \in DOMAIN events /\ f \in DOMAIN events /\ Conflicting(e, f)
        <5>1. e \in DOMAIN events /\ f \in DOMAIN events
          BY <1>3, <1>4, <1>6, <2>2, <3>2
        <5>2. device'[e] = device[e] /\ device'[f] = device[f]
          BY <1>3, <1>4, <5>1
        <5> QED
          BY <2>2, <5>1, <5>2 DEF Conflicting
      <4> QED
        BY <1>2, <1>5, <1>6, <2>2, <4>1 DEF InOrder
    <3> QED
      BY <3>1, <3>2
  <2> QED
    BY <2>1, <2>2 DEF InOrder
<1> QED
  BY <1>7, <1>8, <1>9 DEF IInv

(* manager_kill_workers() takes no event from a worker.                    *)
LEMMA KillKeeps ==
  ASSUME IInv, NEW force, manager_kill_workers(force) \/ UNCHANGED <<workers, term>>,
         UNCHANGED <<device, proc, work, answers>>,
         DOMAIN events' \subseteq DOMAIN events, cursor' \in {0} \union DOMAIN events',
         \A e \in DOMAIN events' : events'[e] = events[e],
         \A e \in DOMAIN events : events[e].state = "running" => e \in DOMAIN events'
  PROVE  IInv'
<1>1. Typed /\ Known /\ Assigned /\ Alone /\ Answered /\ InOrder
  BY DEF IInv
<1>2. /\ Tracked \subseteq Workers /\ term \subseteq Tracked
      /\ \A w \in Tracked : workers[w] \in Worker
  BY <1>1 DEF Typed
<1>3. /\ Tracked' = Tracked /\ term' \subseteq Tracked
      /\ \A w \in Tracked :
           /\ workers'[w] \in Worker
           /\ workers'[w].event = workers[w].event
           /\ workers'[w].state = "idle" => workers[w].state = "idle"
           /\ workers'[w].state \in {"running", "killing"} => workers[w].state \in {"running", "killing"}
  <2>1. CASE UNCHANGED <<workers, term>>
    BY <1>2, <2>1 DEF Tracked
  <2>2. CASE manager_kill_workers(force)
    <3>1. workers' = Killing(force) /\ term' = term \union Killed(force) /\ Killed(force) \subseteq Tracked
      BY <2>2 DEF manager_kill_workers, Killed
    <3>2. Tracked' = Tracked
      BY <3>1 DEF Killing, Tracked
    <3>3. ASSUME NEW w \in Tracked
          PROVE  \/ workers'[w] = workers[w] /\ w \notin Killed(force)
                 \/ workers'[w] = [workers[w] EXCEPT !.state = "killed"]
                 \/ /\ workers'[w] = [workers[w] EXCEPT !.state = "killing"]
                    /\ workers[w].state = "running"
      <4>1. workers'[w] = [workers[w] EXCEPT !.state =
                             CASE w \in Killed(force) -> "killed"
                               [] w \notin Killed(force) /\ @ = "running" -> "killing"
                               [] OTHER -> @]
        BY <3>1 DEF Killing
      <4> QED
        BY <1>2, <4>1 DEF Worker
    <3>4. ASSUME NEW w \in Tracked
          PROVE  /\ workers'[w] \in Worker
                 /\ workers'[w].event = workers[w].event
                 /\ workers'[w].state = "idle" => workers[w].state = "idle"
                 /\ workers'[w].state \in {"running", "killing"} => workers[w].state \in {"running", "killing"}
      <4>1. workers[w] \in Worker
        BY <1>2
      <4> QED
        BY <3>3, <4>1 DEF Worker
    <3> QED
      BY <1>2, <3>1, <3>2, <3>4
  <2> QED
    BY <2>1, <2>2
<1>4. Typed'
  <2>1. Numbers' = Numbers /\ \A e \in DOMAIN events' : events'[e] \in Event
    BY <1>1 DEF Typed, Numbers
  <2> QED
    BY <1>1, <1>2, <1>3, <2>1 DEF Typed
<1>5. Known' /\ Assigned' /\ Alone' /\ Answered'
  BY <1>1, <1>3, WorkersKeep
<1>6. InOrder'
  BY <1>1, OrderKept
<1> QED
  BY <1>4, <1>5, <1>6 DEF IInv

LEMMA KillStep ==
  ASSUME IInv, on_sighup \/ on_kill_workers_event \/ on_sigterm
  PROVE  IInv'
<1>1. cursor \in {0} \union DOMAIN events
  BY DEF IInv, Typed
<1>2. CASE on_sighup \/ on_kill_workers_event
  <2>1. /\ manager_kill_workers(FALSE)
        /\ UNCHANGED <<device, events, proc, work, answers, cursor>>
    BY Zenon, <1>2 DEF on_sighup, on_kill_workers_event, manager_reload, Callback
  <2> QED
    BY <1>1, <2>1, KillKeeps
<1>3. CASE on_sigterm
  <2>1. /\ manager_kill_workers(TRUE)
        /\ events' = [e \in {f \in DOMAIN events : events[f].state # "queued"} |-> events[e]]
        /\ UNCHANGED <<device, proc, work, answers>> /\ cursor' = 0
    BY <1>3 DEF on_sigterm, Callback
  <2>2. /\ DOMAIN events' \subseteq DOMAIN events /\ \A e \in DOMAIN events' : events'[e] = events[e]
        /\ \A e \in DOMAIN events : events[e].state = "running" => e \in DOMAIN events'
    BY <2>1
  <2> QED
    BY <2>1, <2>2, KillKeeps
<1> QED
  BY <1>2, <1>3

LEMMA PostStep ==
  ASSUME IInv, on_post
  PROVE  IInv'
<1>1. Typed /\ UNCHANGED <<device, events, proc, work, answers>>
  BY DEF IInv, on_post
<1>2. manager_kill_workers(FALSE) \/ UNCHANGED <<workers, term>>
  BY Zenon DEF on_post, manager_reload
<1>3. cursor' \in {0} \union DOMAIN events
  <2>1. DOMAIN events \subseteq Nat
    BY <1>1, EventNumbers
  <2>2. DOMAIN events # {} => Least(DOMAIN events) \in DOMAIN events
    BY Zenon, <2>1, LeastOf
  <2>3. \/ cursor' = cursor
        \/ DOMAIN events # {} /\ cursor' = Least(DOMAIN events)
    BY Zenon DEF on_post
  <2> QED
    BY <1>1, <2>2, <2>3 DEF Typed
<1> QED
  BY <1>1, <1>2, <1>3, KillKeeps
-----------------------------------------------------------------------------
(* Steps that take an event from a worker.                                 *)

(* The worker is too slow.                                                 *)
LEMMA TimeoutStep ==
  ASSUME IInv, NEW w \in Workers, on_event_timeout(w)
  PROVE  IInv'
<1> DEFINE e == workers[w].event
           p == IF proc[w] \in Gone THEN proc[w] ELSE "crashed"
<1>1. /\ w \in Tracked /\ e # 0
      /\ events' = [events EXCEPT ![e].timer = FALSE]
      /\ workers' = [workers EXCEPT ![w].state = "killed"]
      /\ proc' = [proc EXCEPT ![w] = p] /\ work' = [work EXCEPT ![w] = 0]
      /\ UNCHANGED <<device, term, answers, cursor>>
  BY DEF on_event_timeout, Callback
<1>2. Typed /\ Known /\ Assigned /\ Alone /\ Answered /\ InOrder
  BY DEF IInv
<1>3. /\ proc \in [Workers -> Process] /\ work \in [Workers -> Nat] /\ answers \in Seq(Answer)
      /\ Tracked \subseteq Workers /\ \A v \in Tracked : workers[v] \in Worker
      /\ device \in Seq(Devices) /\ DOMAIN events \subseteq Numbers
      /\ \A f \in DOMAIN events : events[f] \in Event
      /\ term \subseteq Tracked /\ cursor \in {0} \union DOMAIN events
  BY <1>2 DEF Typed
<1>4. p \in Process \ {"none"} /\ proc[w] # "none"
  BY <1>1, <1>2, <1>3 DEF Known, Process
<1> HIDE DEF p
<1>5. /\ Tracked' = Tracked
      /\ \A v \in Tracked : /\ workers'[v] \in Worker /\ workers'[v].event = workers[v].event
                            /\ workers'[v].state # "killed" => workers'[v].state = workers[v].state
  BY <1>1, <1>3 DEF Tracked, Worker
<1>6. /\ DOMAIN events' = DOMAIN events
      /\ \A f \in DOMAIN events : /\ events'[f] \in Event /\ events'[f].state = events[f].state
                                  /\ events'[f].blocker = events[f].blocker
  BY <1>1, <1>3 DEF Event
<1>7. Typed'
  <2>1. proc' \in [Workers -> Process] /\ work' \in [Workers -> Nat] /\ Numbers' = Numbers
    BY <1>1, <1>3, <1>4 DEF Numbers
  <2> QED
    BY <1>1, <1>3, <1>5, <1>6, <2>1 DEF Typed
<1>8. Known' /\ Answered'
  BY <1>1, <1>2, <1>4, <1>5, ProcessEnds
<1>9. Assigned'
  BY <1>2, <1>5, <1>6 DEF Assigned
<1>10. Alone'
  BY <1>2, <1>5 DEF Alone
<1>11. InOrder'
  BY <1>1, <1>2, <1>6, OrderKept
<1> QED
  BY <1>7, <1>8, <1>9, <1>10, <1>11 DEF IInv

(* event_free() or event_requeue(): the other events stay as they are.     *)
LEMMA EventEnds ==
  ASSUME \A f \in DOMAIN events : events[f] \in Event, NEW e,
         events' = Requeued(e) \/ events' = Without(events, e)
  PROVE  /\ DOMAIN events' \subseteq DOMAIN events
         /\ \A f \in DOMAIN events' :
              /\ events'[f] \in Event /\ events'[f].blocker = events[f].blocker
              /\ events'[f].state = "running" => events[f].state = "running"
         /\ \A f \in DOMAIN events : f # e => f \in DOMAIN events' /\ events'[f] = events[f]
<1>1. CASE events' = Requeued(e)
  <2>1. /\ DOMAIN events' = DOMAIN events
        /\ \A f \in DOMAIN events : f # e => events'[f] = events[f]
        /\ e \in DOMAIN events =>
             events'[e] = [events[e] EXCEPT !.state = "queued", !.retry = "wait", !.timer = FALSE]
    BY <1>1 DEF Requeued
  <2>2. e \in DOMAIN events => /\ events'[e] \in Event /\ events'[e].state = "queued"
                              /\ events'[e].blocker = events[e].blocker
    BY Zenon, <2>1, EventRequeued
  <2> QED
    BY <2>1, <2>2
<1>2. CASE events' = Without(events, e)
  BY <1>2 DEF Without
<1> QED
  BY <1>1, <1>2

(* What on_worker() does for a worker that udevd knows.                    *)
LEMMA AnswerOfTracked ==
  ASSUME on_worker, NEW w, w = Head(answers).worker, w \in Tracked
  PROVE  /\ \E s \in {"idle", "killed"} :
              /\ workers' = [workers EXCEPT ![w] = [state |-> s, event |-> 0]]
              /\ workers[w].state \in {"killing", "killed"} => s = "killed"
         /\ term' = IF workers[w].state = "killing" THEN term \union {w} ELSE term
         /\ struck' = struck \ {w}
         /\ \/ events' = Requeued(workers[w].event) /\ told' = told
            \/ /\ events' = Without(events, workers[w].event)
               /\ Head(answers).again => told' = told \union {workers[w].event}
               /\ ~Head(answers).again => told' = told
<1> DEFINE e == workers[w].event
           s == IF workers[w].state \in {"killing", "killed"} THEN "killed" ELSE "idle"
<1>1. workers' = [workers EXCEPT ![w] = [state |-> s, event |-> 0]]
  BY DEF on_worker
<1>2. /\ term' = IF workers[w].state = "killing" THEN term \union {w} ELSE term
      /\ struck' = struck \ {w}
      /\ IF Head(answers).again /\ ~(events[e].retry # "no" /\ events[e].late)
           THEN events' = Requeued(e) /\ told' = told
           ELSE /\ events' = Without(events, e)
                /\ told' = IF Head(answers).again THEN told \union {e} ELSE told
  BY Zenon DEF on_worker
<1>3. \/ events' = Requeued(e) /\ told' = told
      \/ /\ events' = Without(events, e)
         /\ Head(answers).again => told' = told \union {e}
         /\ ~Head(answers).again => told' = told
  BY Zenon, <1>2
<1>4. \E t \in {"idle", "killed"} :
        /\ workers' = [workers EXCEPT ![w] = [state |-> t, event |-> 0]]
        /\ workers[w].state \in {"killing", "killed"} => t = "killed"
  <2>1. s \in {"idle", "killed"} /\ (workers[w].state \in {"killing", "killed"} => s = "killed")
    OBVIOUS
  <2> HIDE DEF s
  <2> QED
    BY Zenon, <1>1, <2>1
<1> HIDE DEF s
<1> QED
  BY Zenon, <1>2, <1>3, <1>4

LEMMA WorkerStep ==
  ASSUME IInv, on_worker
  PROVE  IInv'
<1>1. Typed /\ Known /\ Assigned /\ Alone /\ Answered /\ InOrder
  BY DEF IInv
<1>2. /\ answers # <<>> /\ answers' = Tail(answers) /\ cursor' = 0
      /\ UNCHANGED <<device, proc, work>>
  BY DEF on_worker, Callback
<1>3. PICK w \in Workers : w = Head(answers).worker
  <2>1. Head(answers) \in Answer
    BY <1>1, <1>2, Popped DEF Typed
  <2> QED
    BY <2>1 DEF Answer
<1>4. /\ answers' \in Seq(Answer) /\ 1 \in DOMAIN answers /\ answers[1].worker = w
      /\ \A i \in DOMAIN answers' :
           i + 1 \in DOMAIN answers /\ answers'[i] = answers[i + 1] /\ i + 1 # 1
      /\ DOMAIN answers' \subseteq Nat
  BY <1>1, <1>2, <1>3, Popped DEF Typed
<1>5. /\ \A i \in DOMAIN answers' :
           /\ answers'[i].worker # w /\ ~Busy(answers'[i].worker)
           /\ answers'[i].worker \in Tracked => workers[answers'[i].worker].event # 0
           /\ \A j \in DOMAIN answers' : answers'[i].worker = answers'[j].worker => i = j
      /\ ~Busy(w) /\ (w \in Tracked => workers[w].event # 0)
  <2>1. \A i, j \in DOMAIN answers' : i + 1 = j + 1 => i = j
    BY <1>4
  <2> QED
    BY <1>1, <1>4, <2>1 DEF Answered
<1>6. CASE w \notin Tracked
  <2>1. UNCHANGED <<events, workers, term>>
    BY Zenon, <1>3, <1>6 DEF on_worker
  <2>2. Typed'
    BY <1>1, <1>2, <1>4, <2>1 DEF Typed, Numbers, Tracked
  <2>3. Known' /\ Assigned' /\ Alone'
    <3>1. Tracked' = Tracked
      BY <2>1 DEF Tracked
    <3> QED
      BY <1>1, <1>2, <2>1, <3>1 DEF Known, Assigned, Alone, Busy
  <2>4. Answered'
    BY <1>2, <1>5, <2>1 DEF Answered, Busy, Tracked
  <2>5. InOrder'
    BY <1>1, <1>2, <2>1, OrderKept
  <2> QED
    BY <2>2, <2>3, <2>4, <2>5 DEF IInv
<1>7. CASE w \in Tracked
  <2> DEFINE e == workers[w].event
  <2>1. PICK s \in {"idle", "killed"} : workers' = [workers EXCEPT ![w] = [state |-> s, event |-> 0]]
    BY <1>3, <1>7, AnswerOfTracked
  <2>2. /\ events' = Requeued(e) \/ events' = Without(events, e)
        /\ term' = IF workers[w].state = "killing" THEN term \union {w} ELSE term
    BY <1>3, <1>7, AnswerOfTracked
  <2>3. /\ Tracked \subseteq Workers /\ \A v \in Tracked : workers[v] \in Worker
        /\ term \subseteq Tracked /\ \A f \in DOMAIN events : events[f] \in Event
    BY <1>1 DEF Typed
  <2>4. /\ DOMAIN events' \subseteq DOMAIN events
        /\ \A f \in DOMAIN events' :
             /\ events'[f] \in Event /\ events'[f].blocker = events[f].blocker
             /\ events'[f].state = "running" => events[f].state = "running"
        /\ \A f \in DOMAIN events : f # e => f \in DOMAIN events' /\ events'[f] = events[f]
    BY <2>2, <2>3, EventEnds
  <2>5. /\ Tracked' = Tracked /\ workers'[w] = [state |-> s, event |-> 0]
        /\ \A v \in Tracked : v # w => workers'[v] = workers[v]
    BY <1>7, <2>1 DEF Tracked
  <2>6. workers'[w] \in Worker /\ workers'[w].event = 0 /\ workers'[w].state \in {"idle", "killed"}
    BY <2>5 DEF Worker
  <2>7. Typed'
    <3>1. /\ device' \in Seq(Devices) /\ DOMAIN events' \subseteq Numbers' /\ term' \subseteq Tracked'
          /\ proc' \in [Workers -> Process] /\ work' \in [Workers -> Nat]
      BY <1>1, <1>2, <1>7, <2>2, <2>3, <2>4, <2>5 DEF Typed, Numbers
    <3> QED
      BY <1>2, <1>4, <2>3, <2>4, <2>5, <2>6, <3>1 DEF Typed
  <2>8. Known'
    BY <1>1, <1>2, <1>5, <2>5 DEF Known, Busy
  <2>9. Assigned'
    <3>1. \A v \in Tracked : v # w => workers[v].event # e \/ workers[v].event = 0
      BY <1>1, <1>7 DEF Alone
    <3> QED
      BY <1>1, <2>4, <2>5, <2>6, <3>1 DEF Assigned
  <2>10. Alone'
    BY <1>1, <2>5, <2>6 DEF Alone
  <2>11. Answered'
    BY <1>2, <1>5, <2>5 DEF Answered, Busy
  <2>12. InOrder'
    BY <1>1, <1>2, <2>4, OrderKept
  <2> QED
    BY <2>7, <2>8, <2>9, <2>10, <2>11, <2>12 DEF IInv
<1> QED
  BY <1>6, <1>7

(* A worker has died.                                                      *)
LEMMA ChildStep ==
  ASSUME IInv, NEW w \in Workers, on_sigchld(w)
  PROVE  IInv'
<1> DEFINE e == workers[w].event
<1>1. Typed /\ Known /\ Assigned /\ Alone /\ Answered /\ InOrder
  BY DEF IInv
<1>2. /\ w \in Tracked /\ proc[w] \in {"exited", "crashed"} /\ cursor' = 0
      /\ events' = Without(events, e) /\ workers' = Without(workers, w)
      /\ proc' = [proc EXCEPT ![w] = "none"] /\ term' = term \ {w}
      /\ UNCHANGED <<device, work, answers>>
  BY DEF on_sigchld, Callback
<1>3. /\ Tracked \subseteq Workers /\ \A v \in Tracked : workers[v] \in Worker
      /\ term \subseteq Tracked /\ \A f \in DOMAIN events : events[f] \in Event
      /\ proc \in [Workers -> Process]
  BY <1>1 DEF Typed
<1>4. /\ DOMAIN events' \subseteq DOMAIN events
      /\ \A f \in DOMAIN events' :
           /\ events'[f] \in Event /\ events'[f].blocker = events[f].blocker
           /\ events'[f].state = "running" => events[f].state = "running"
      /\ \A f \in DOMAIN events : f # e => f \in DOMAIN events' /\ events'[f] = events[f]
  BY <1>2, <1>3, EventEnds
<1>5. Tracked' = Tracked \ {w} /\ \A v \in Tracked' : workers'[v] = workers[v]
  BY <1>2 DEF Tracked, Without
<1>6. ~Busy(w)
  BY <1>1, <1>2 DEF Known
<1>7. Typed'
  <2>1. /\ device' \in Seq(Devices) /\ DOMAIN events' \subseteq Numbers' /\ term' \subseteq Tracked'
        /\ proc' \in [Workers -> Process] /\ work' \in [Workers -> Nat] /\ answers' \in Seq(Answer)
    BY <1>1, <1>2, <1>3, <1>4, <1>5 DEF Typed, Numbers, Process
  <2> QED
    BY <1>2, <1>3, <1>4, <1>5, <2>1 DEF Typed
<1>8. Known'
  BY <1>1, <1>2, <1>3, <1>5, <1>6 DEF Known, Busy
<1>9. Assigned'
  <2>1. \A v \in Tracked : v # w => workers[v].event # e \/ workers[v].event = 0
    BY <1>1, <1>2 DEF Alone
  <2> QED
    BY <1>1, <1>4, <1>5, <2>1 DEF Assigned
<1>10. Alone'
  BY <1>1, <1>5 DEF Alone
<1>11. Answered'
  BY <1>1, <1>2, <1>5 DEF Answered, Busy
<1>12. InOrder'
  BY <1>1, <1>2, <1>4, OrderKept
<1> QED
  BY <1>7, <1>8, <1>9, <1>10, <1>11, <1>12 DEF IInv
-----------------------------------------------------------------------------
(* event_run() *)

(* worker_attach_event(): the worker had no event, and the event no worker.*)
LEMMA AttachStep ==
  ASSUME IInv, NEW w \in Workers, cursor # 0, events[cursor].state = "queued",
         ~event_is_blocked(cursor), Attach(w), UNCHANGED <<device, term, answers>>,
         w \in Idle \/ w \in Unused
  PROVE  IInv'
<1>1. Typed /\ Known /\ Assigned /\ Alone /\ Answered /\ InOrder
  BY DEF IInv
<1>2. /\ workers' = With(workers, w, [state |-> "running", event |-> cursor])
      /\ proc' = [proc EXCEPT ![w] = "busy"] /\ work' = [work EXCEPT ![w] = cursor]
      /\ events' = [events EXCEPT ![cursor] =
                      [@ EXCEPT !.state = "running", !.blocker = BlockerOf(cursor), !.timer = TRUE]]
      /\ cursor' = After(cursor)
  BY DEF Attach
<1>3. /\ Tracked \subseteq Workers /\ \A v \in Tracked : workers[v] \in Worker
      /\ term \subseteq Tracked /\ \A f \in DOMAIN events : events[f] \in Event
      /\ proc \in [Workers -> Process] /\ work \in [Workers -> Nat]
      /\ answers \in Seq(Answer) /\ cursor \in DOMAIN events /\ cursor \in Nat
      /\ device \in Seq(Devices) /\ DOMAIN events \subseteq Numbers
  BY <1>1, EventNumbers DEF Typed
<1>4. BlockerOf(cursor) = cursor
  BY <1>1, <1>3, NotBlocked
<1>5. /\ DOMAIN events' = DOMAIN events
      /\ \A f \in DOMAIN events : f # cursor => events'[f] = events[f]
      /\ events'[cursor] = [events[cursor] EXCEPT !.state = "running", !.blocker = BlockerOf(cursor),
                                                  !.timer = TRUE]
  BY <1>2, <1>3
<1>6. /\ events'[cursor] \in Event /\ events'[cursor].state = "running"
      /\ events'[cursor].blocker = BlockerOf(cursor)
  <2> DEFINE v == events[cursor]
             b == BlockerOf(cursor)
             x == events'[cursor]
  <2>1. v \in Event /\ b \in Nat
    BY <1>3, <1>4
  <2>2. x = [v EXCEPT !.state = "running", !.blocker = b, !.timer = TRUE]
    BY Zenon, <1>5
  <2> HIDE DEF v, b, x
  <2>3. x = [state |-> "running", blocker |-> b, retry |-> v.retry, late |-> v.late, timer |-> TRUE]
    BY Zenon, <2>1, <2>2 DEF Event
  <2>4. x \in Event /\ x.state = "running" /\ x.blocker = b
    BY <2>1, <2>3 DEF Event
  <2> QED
    BY <2>4 DEF b, x
<1>7. /\ Tracked' = Tracked \union {w} /\ workers'[w] = [state |-> "running", event |-> cursor]
      /\ \A v \in Tracked : v # w => workers'[v] = workers[v]
  BY <1>2 DEF Tracked, With
<1>8. workers'[w] \in Worker /\ workers'[w].event = cursor /\ workers'[w].state = "running"
  BY <1>3, <1>7 DEF Worker
<1>9. \A i \in DOMAIN answers : answers[i].worker # w
  BY <1>1 DEF Idle, Unused, Assigned, Answered
<1>10. \A v \in Tracked : workers[v].event # cursor
  BY <1>1 DEF Assigned
<1>11. Typed'
  <2>1. After(cursor) \in {0} \union DOMAIN events
    BY <1>1, AfterType
  <2>2. /\ proc' \in [Workers -> Process] /\ work' \in [Workers -> Nat] /\ Numbers' = Numbers
        /\ \A f \in DOMAIN events' : events'[f] \in Event
    BY <1>2, <1>3, <1>5, <1>6 DEF Process, Numbers
  <2>3. Tracked' \subseteq Workers /\ term' \subseteq Tracked' /\ \A v \in Tracked' : workers'[v] \in Worker
    BY <1>3, <1>7, <1>8
  <2> QED
    BY <1>2, <1>3, <1>5, <2>1, <2>2, <2>3 DEF Typed
<1>12. Known'
  BY <1>1, <1>2, <1>3, <1>7, <1>8 DEF Known, Busy
<1>13. Assigned'
  <2>1. \A v \in Tracked : workers[v].event # 0 =>
          /\ workers[v].event \in DOMAIN events'
          /\ events'[workers[v].event].state = "running"
    BY <1>1, <1>5, <1>10 DEF Assigned
  <2> QED
    <3>1. workers'[w].event \in DOMAIN events' /\ events'[workers'[w].event].state = "running"
      BY <1>3, <1>5, <1>6, <1>8
    <3>2. \A v \in Tracked : v # w => workers'[v] = workers[v]
      BY <1>7
    <3>3. \A v \in Tracked : v # w =>
            /\ workers'[v].event # 0 => /\ workers'[v].event \in DOMAIN events'
                                        /\ events'[workers'[v].event].state = "running"
            /\ workers'[v].state = "idle" => workers'[v].event = 0
            /\ workers'[v].state \in {"running", "killing"} => workers'[v].event # 0
      BY <1>1, <2>1, <3>2 DEF Assigned
    <3> QED
      BY <1>7, <1>8, <3>1, <3>3 DEF Assigned
<1>14. Alone'
  BY <1>1, <1>7, <1>8, <1>10 DEF Alone
<1>15. Answered'
  <2>1. \A i \in DOMAIN answers : work'[answers[i].worker] = work[answers[i].worker]
    BY <1>1, <1>2, <1>3, <1>9, Answers
  <2> QED
    BY <1>1, <1>7, <1>9, <2>1 DEF Answered, Busy
<1>16. InOrder'
  BY <1>1, <1>3, <1>4, <1>5, <1>6, OrderNoted
<1> QED
  BY <1>11, <1>12, <1>13, <1>14, <1>15, <1>16 DEF IInv

LEMMA RunStep ==
  ASSUME IInv, event_run
  PROVE  IInv'
<1>1. /\ cursor # 0 /\ events[cursor].state = "queued" /\ ~event_is_blocked(cursor)
      /\ UNCHANGED <<device, term, answers>>
  BY Zenon DEF event_run
<1>2. Typed /\ Known /\ Assigned /\ Alone /\ Answered /\ InOrder /\ cursor \in DOMAIN events
      /\ Tracked \subseteq Workers
  BY <1>1 DEF IInv, Typed
<1>3. ASSUME NEW w \in Idle, Attach(w)
      PROVE  IInv'
  BY <1>1, <1>2, <1>3, AttachStep DEF Idle
<1>4. ASSUME NEW w \in Unused, Attach(w)
      PROVE  IInv'
  BY <1>1, <1>2, <1>4, AttachStep DEF Unused
<1>5. ASSUME NEW w \in Idle, workers' = [workers EXCEPT ![w].state = "killed"],
             UNCHANGED <<proc, work, events, cursor>>
      PROVE  IInv'
  <2>1. \A v \in Tracked : workers[v] \in Worker
    BY <1>2 DEF Typed
  <2>2. /\ Tracked' = Tracked
        /\ \A v \in Tracked : /\ workers'[v] \in Worker /\ workers'[v].event = workers[v].event
                              /\ workers'[v].state # "killed" => workers'[v].state = workers[v].state
    BY <1>5, <2>1 DEF Worker, Idle, Tracked
  <2>3. Typed'
    BY <1>1, <1>2, <1>5, <2>2 DEF Typed, Numbers
  <2>4. Known' /\ Assigned' /\ Alone' /\ Answered'
    <3>1. \A v \in Tracked :
            /\ workers'[v].event = workers[v].event
            /\ workers'[v].state = "idle" => workers[v].state = "idle"
            /\ workers'[v].state \in {"running", "killing"} => workers[v].state \in {"running", "killing"}
      BY <2>2
    <3> QED
      BY <1>1, <1>2, <1>5, <2>2, <3>1, WorkersKeep
  <2>5. InOrder'
    BY <1>1, <1>2, <1>5, OrderKept
  <2> QED
    BY <2>3, <2>4, <2>5 DEF IInv
<1>6. ASSUME events' = [events EXCEPT ![cursor].blocker = BlockerOf(cursor)], cursor' = 0,
             UNCHANGED <<workers, proc, work>>
      PROVE  IInv'
  <2>1. (\A e \in DOMAIN events : events[e] \in Event) /\ BlockerOf(cursor) \in Nat
    BY <1>2, BlockerIsOldest DEF Typed
  <2>2. /\ DOMAIN events' = DOMAIN events
        /\ events'[cursor].blocker = BlockerOf(cursor)
        /\ \A e \in DOMAIN events : events'[e] \in Event /\ events'[e].state = events[e].state
        /\ \A e \in DOMAIN events : e # cursor => events'[e] = events[e]
    BY <1>2, <1>6, <2>1 DEF Event
  <2>3. Typed' /\ Known' /\ Assigned' /\ Alone' /\ Answered'
    BY <1>1, <1>6, <2>2, EventsTouched
  <2>4. InOrder'
    BY <1>1, <1>2, <2>2, OrderNoted
  <2> QED
    BY <2>3, <2>4 DEF IInv
<1>7. Unused # {} => (CHOOSE w \in Unused : TRUE) \in Unused
  BY Zenon
<1> QED
  BY Zenon, <1>3, <1>4, <1>5, <1>6, <1>7 DEF event_run
-----------------------------------------------------------------------------
LEMMA Inductive ==
  ASSUME IInv, [Next]_vars
  PROVE  IInv'
<1>1. CASE Next
  BY <1>1, SkipStep, RunStep, PostStep, UeventStep, InotifyStep, RetryStep, AnswerStep, CrashStep,
     TerminateStep, TimeoutStep, ChildStep, WorkerStep, KillStep, Zenon DEF Next, Main
<1>2. CASE UNCHANGED vars
  <2>1. UNCHANGED <<device, events, workers, proc, work, term, answers, cursor>>
    BY <1>2 DEF vars, daemon, procs
  <2>2. Typed /\ cursor \in {0} \union DOMAIN events
    BY DEF IInv, Typed
  <2> QED
    BY <2>1, <2>2, KillKeeps
<1> QED
  BY <1>1, <1>2

LEMMA Initially ==
  ASSUME Init
  PROVE  IInv
<1>1. /\ device = <<>> /\ events = <<>> /\ workers = <<>> /\ answers = <<>> /\ cursor = 0 /\ term = {}
      /\ proc = [w \in Workers |-> "none"] /\ work = [w \in Workers |-> 0]
  BY DEF Init
<1>2. DOMAIN events = {} /\ Tracked = {} /\ DOMAIN answers = {} /\ ~ \E w \in Workers : Busy(w)
  BY <1>1 DEF Tracked, Busy
<1>3. Typed
  BY <1>1, <1>2 DEF Typed, Process
<1> QED
  BY <1>1, <1>2, <1>3 DEF IInv, Known, Assigned, Alone, Answered, InOrder

LEMMA Always == Spec => []IInv
<1>1. Init => IInv
  BY Initially
<1>2. IInv /\ [Next]_vars => IInv'
  BY Inductive
<1> QED
  BY <1>1, <1>2, PTL DEF Spec

(* An event that is handled has no earlier event that conflicts: it is     *)
(* its own blocker, and the oldest of its blockers.                        *)
LEMMA IInvOrders ==
  ASSUME IInv
  PROVE  Ordered
<1> SUFFICES ASSUME NEW w \in Workers, Busy(w), NEW e \in 1 .. work[w] - 1, Conflicting(e, work[w])
             PROVE  e \notin DOMAIN events /\ \A v \in Workers : work[v] # e
  BY DEF Ordered
<1>1. Typed /\ Known /\ Assigned /\ InOrder
  BY DEF IInv
<1>2. ASSUME NEW v \in Workers, Busy(v)
      PROVE  work[v] \in DOMAIN events /\ events[work[v]].state = "running"
  BY <1>1, <1>2 DEF Known, Assigned, Busy
<1>3. Conflicting(work[w], e)
  BY ConfigAssumption DEF Conflicting
<1>4. work[w] \in DOMAIN events /\ events[work[w]].blocker = work[w] /\ work[w] \in Nat
  BY <1>1, <1>2 DEF InOrder, Typed
<1>5. e \notin DOMAIN events
  BY <1>1, <1>3, <1>4 DEF InOrder
<1> QED
  BY <1>2, <1>5 DEF Busy

(* "do not start event if parent or child event is still running or        *)
(* queued" (event_is_blocked()): for any devices, any number of workers    *)
(* and of events, with disks that are locked, workers that die, are too    *)
(* slow or are told to go: while an event is handled, no earlier event of  *)
(* a conflicting device is left.                                           *)
THEOREM ConflictsAreOrdered == Spec => []Ordered
<1>1. IInv => Ordered
  BY IInvOrders
<1> QED
  BY <1>1, Always, PTL

-----------------------------------------------------------------------------
(* No event is lost *)

(* Every event is queued, completed, broadcast as failed or forgotten.     *)
Lasting == Numbers \subseteq DOMAIN events \union done \union told \union forgotten

(* A worker that reports success has broadcast the event.                  *)
Completed ==
  \A i \in DOMAIN answers :
    answers[i].worker \in Tracked /\ ~answers[i].again => workers[answers[i].worker].event \in done

(* A worker that is told to go has no event, or it was in state KILLING    *)
(* then; only a worker that is told to go does so without a failure.       *)
Leaving ==
  /\ \A w \in term : workers[w].state = "killed" /\ (workers[w].event = 0 \/ w \in struck)
  /\ \A w \in Tracked : proc[w] = "exited" => w \in term

(* A worker that is done with its event has completed it, or it has found  *)
(* a disk to be locked.                                                    *)
Ended ==
  \A w \in Tracked : proc[w] \in {"idle", "exited"} /\ workers[w].event # 0 =>
    workers[w].event \in done \/ device[workers[w].event] \in Disks

(* The timer that ends idle workers runs only while none has an event.     *)
Quiet == killTimer => cursor = 0 /\ \A w \in Tracked : workers[w].event = 0

Recorded == exit \/ (Lasting /\ Completed /\ Leaving /\ Ended /\ Quiet)

LEMMA LastingKept ==
  ASSUME Lasting, device' = device, done \subseteq done', told \subseteq told', forgotten \subseteq forgotten',
         DOMAIN events \subseteq DOMAIN events' \union done' \union told' \union forgotten'
  PROVE  Lasting'
BY DEF Lasting, Numbers

LEMMA CompletedKept ==
  ASSUME Completed, answers' = answers, Tracked' = Tracked, done' = done,
         \A w \in Tracked : workers'[w].event = workers[w].event
  PROVE  Completed'
BY DEF Completed

LEMMA EndedKept ==
  ASSUME Ended, device' = device, done \subseteq done', Tracked' \subseteq Tracked,
         \A w \in Tracked' :
           /\ workers'[w].event = 0 \/ workers'[w].event = workers[w].event
           /\ proc'[w] \in {"idle", "exited"} => proc[w] \in {"idle", "exited"}
  PROVE  Ended'
BY DEF Ended

(* A step that touches neither processes nor what is in the socket, and    *)
(* lets every worker keep its event.                                       *)
LEMMA RecordsKept ==
  ASSUME IInv, Lasting, Completed, Leaving, Ended, Quiet,
         UNCHANGED <<device, proc, answers, term, struck, done, told, forgotten>>,
         Tracked' = Tracked, killTimer' => killTimer, killTimer' => cursor' = 0,
         DOMAIN events \subseteq DOMAIN events',
         \A w \in Tracked : /\ workers'[w].event = workers[w].event
                            /\ workers[w].state = "killed" => workers'[w].state = "killed"
  PROVE  Recorded'
<1>1. Lasting'
  BY LastingKept
<1>2. Completed'
  BY CompletedKept
<1>3. Leaving'
  BY DEF Leaving, IInv, Typed
<1>4. Ended' /\ Quiet'
  BY EndedKept DEF Quiet
<1> QED
  BY <1>1, <1>2, <1>3, <1>4 DEF Recorded

LEMMA SmallStepsRecord ==
  ASSUME IInv, Lasting, Completed, Leaving, Ended, Quiet,
         Skip \/ (\E d \in Devices : on_inotify(d)) \/ (\E e : on_event_retry(e) \/ Expire(e))
  PROVE  Recorded'
<1>1. UNCHANGED <<device, workers, proc, answers, term, struck, done, told, forgotten, killTimer>>
  BY Zenon DEF Skip, on_inotify, on_event_retry, Expire, procs, history
<1>2. Tracked' = Tracked
  BY <1>1 DEF Tracked
<1>3. killTimer' => cursor' = 0
  <2>1. cursor' = cursor \/ cursor # 0
    BY Zenon DEF Skip, on_inotify, on_event_retry, Expire, Callback
  <2> QED
    BY <1>1, <2>1 DEF Quiet
<1>4. DOMAIN events \subseteq DOMAIN events'
  <2>1. ASSUME Skip PROVE DOMAIN events' = DOMAIN events
    BY <2>1 DEF Skip
  <2>2. ASSUME NEW d, on_inotify(d) PROVE DOMAIN events' = DOMAIN events
    BY <2>2 DEF on_inotify, Unlocked
  <2>3. ASSUME NEW e, on_event_retry(e) \/ Expire(e) PROVE DOMAIN events' = DOMAIN events
    BY <2>3 DEF on_event_retry, Expire
  <2>4. DOMAIN events' = DOMAIN events
    BY Zenon, <2>1, <2>2, <2>3
  <2> QED
    BY <2>4
<1> QED
  BY <1>1, <1>2, <1>3, <1>4, RecordsKept

LEMMA UeventRecords ==
  ASSUME IInv, Lasting, Completed, Leaving, Ended, Quiet, NEW d \in Devices, on_uevent(d)
  PROVE  Recorded'
<1>1. /\ device' = Append(device, d) /\ DOMAIN events' = DOMAIN events \union {Len(device) + 1}
      /\ UNCHANGED <<workers, proc, answers, term, struck, done, told, forgotten, killTimer, cursor>>
  BY DEF on_uevent, Callback, procs, history, With, Unlocked
<1>2. Tracked' = Tracked /\ device \in Seq(Devices)
  BY <1>1 DEF Tracked, IInv, Typed
<1>3. Len(device') = Len(device) + 1 /\ Len(device) \in Nat
  BY <1>1, <1>2, Appended
<1>4. Lasting'
  BY <1>1, <1>3 DEF Lasting, Numbers
<1>5. Completed'
  BY <1>1, <1>2, CompletedKept
<1>6. Leaving' /\ Quiet'
  BY <1>1, <1>2 DEF Leaving, Quiet
<1>7. Ended'
  <2>1. \A w \in Tracked : workers[w].event # 0 => workers[w].event \in DOMAIN device
    BY <1>2 DEF IInv, Assigned, Typed, Numbers
  <2>2. \A e \in DOMAIN device : device'[e] = device[e]
    BY <1>1, <1>2, Appended
  <2> QED
    BY <1>1, <1>2, <2>1, <2>2 DEF Ended
<1> QED
  BY <1>4, <1>5, <1>6, <1>7 DEF Recorded

(* The processes *)
LEMMA AnswerRecords ==
  ASSUME IInv, Lasting, Completed, Leaving, Ended, Quiet, NEW w \in Workers, worker_process_device(w)
  PROVE  Recorded'
<1>1. PICK again \in BOOLEAN : /\ answers' = Append(answers, [worker |-> w, again |-> again])
                               /\ done' = IF again THEN done ELSE done \union {work[w]}
                               /\ again => device[work[w]] \in Disks
  BY DEF worker_process_device
<1>2. /\ Busy(w) /\ proc' = [proc EXCEPT ![w] = "idle"]
      /\ UNCHANGED <<device, events, workers, told, forgotten, term, struck, cursor, killTimer>>
  BY DEF worker_process_device, daemon, history
<1>3. Typed /\ Known /\ answers \in Seq(Answer) /\ Tracked' = Tracked
  BY <1>2 DEF IInv, Typed, Tracked
<1>4. Lasting'
  BY <1>1, <1>2, LastingKept
<1>5. Completed'
  <2>1. [worker |-> w, again |-> again] \in Answer
    BY DEF Answer
  <2>2. /\ DOMAIN answers' = DOMAIN answers \union {Len(answers) + 1}
        /\ \A i \in DOMAIN answers : answers'[i] = answers[i]
        /\ answers'[Len(answers) + 1] = [worker |-> w, again |-> again]
    BY <1>1, <1>3, <2>1, Appended
  <2>3. workers[w].event = work[w]
    BY <1>2, <1>3 DEF Known
  <2> QED
    BY <1>1, <1>2, <1>3, <2>2, <2>3 DEF Completed
<1>6. Leaving'
  BY <1>2, <1>3 DEF Leaving, Typed
<1>7. Quiet'
  BY <1>2, <1>3 DEF Quiet
<1>8. Ended'
  BY <1>1, <1>2, <1>3 DEF Ended, Known, Typed
<1> QED
  BY <1>4, <1>5, <1>6, <1>7, <1>8 DEF Recorded

LEMMA EndRecords ==
  ASSUME IInv, Lasting, Completed, Leaving, Ended, Quiet, NEW w \in Workers, Crash(w) \/ Terminate(w)
  PROVE  Recorded'
<1>1. /\ \/ proc' = [proc EXCEPT ![w] = "crashed"]
         \/ proc' = [proc EXCEPT ![w] = "exited"] /\ w \in term /\ proc[w] = "idle"
      /\ UNCHANGED <<device, events, workers, answers, told, forgotten, done, term, struck, cursor, killTimer>>
  BY Zenon DEF Crash, Terminate, daemon, history
<1>2. Tracked' = Tracked /\ proc \in [Workers -> Process] /\ Tracked \subseteq Workers
  BY <1>1 DEF IInv, Typed, Tracked
<1>3. Lasting'
  BY <1>1, LastingKept
<1>4. Completed'
  BY <1>1, <1>2, CompletedKept
<1>5. Leaving' /\ Quiet'
  BY <1>1, <1>2 DEF Leaving, Quiet
<1>6. Ended'
  BY <1>1, <1>2, EndedKept
<1> QED
  BY <1>3, <1>4, <1>5, <1>6 DEF Recorded

LEMMA TimeoutRecords ==
  ASSUME IInv, Lasting, Completed, Leaving, Ended, Quiet, NEW w \in Workers, on_event_timeout(w)
  PROVE  Recorded'
<1>1. /\ w \in Tracked /\ workers[w].event # 0 /\ cursor' = 0
      /\ DOMAIN events' = DOMAIN events
      /\ workers' = [workers EXCEPT ![w].state = "killed"]
      /\ proc' = [proc EXCEPT ![w] = IF proc[w] \in Gone THEN proc[w] ELSE "crashed"]
      /\ UNCHANGED <<device, told, forgotten, done, term, struck, answers, killTimer>>
  BY DEF on_event_timeout, Callback, history
<1>2. /\ proc \in [Workers -> Process] /\ Tracked \subseteq Workers /\ term \subseteq Tracked
      /\ \A v \in Tracked : workers[v] \in Worker
  BY DEF IInv, Typed
<1>3. /\ Tracked' = Tracked
      /\ \A v \in Tracked : /\ workers'[v].event = workers[v].event
                            /\ workers[v].state = "killed" => workers'[v].state = "killed"
  BY <1>1, <1>2 DEF Tracked, Worker
<1>4. Lasting'
  BY <1>1, LastingKept
<1>5. Completed'
  BY <1>1, <1>3, CompletedKept
<1>6. Leaving'
  BY <1>1, <1>2, <1>3 DEF Leaving
<1>7. Ended' /\ Quiet'
  BY <1>1, <1>2, <1>3, EndedKept DEF Quiet, Gone
<1> QED
  BY <1>4, <1>5, <1>6, <1>7 DEF Recorded

(* on_worker(): an event that leaves the queue was completed, or it was    *)
(* tried for too long and is broadcast.                                    *)
LEMMA WorkerRecords ==
  ASSUME IInv, Lasting, Completed, Leaving, Ended, Quiet, on_worker
  PROVE  Recorded'
<1>1. Typed /\ Assigned /\ Alone /\ Answered
  BY DEF IInv
<1>2. /\ answers # <<>> /\ answers' = Tail(answers) /\ cursor' = 0
      /\ UNCHANGED <<device, proc, killTimer, done, forgotten>>
  BY DEF on_worker, Callback
<1>3. PICK w \in Workers : w = Head(answers).worker
  <2>1. Head(answers) \in Answer
    BY <1>1, <1>2, Popped DEF Typed
  <2> QED
    BY <2>1 DEF Answer
<1>4. /\ 1 \in DOMAIN answers /\ answers[1].worker = w /\ Head(answers) = answers[1]
      /\ \A i \in DOMAIN answers' :
           i + 1 \in DOMAIN answers /\ answers'[i] = answers[i + 1] /\ i + 1 # 1
  BY <1>1, <1>2, <1>3, Popped DEF Typed
<1>5. /\ \A i \in DOMAIN answers' : answers'[i].worker # w
      /\ \A i \in DOMAIN answers' : answers'[i].worker \in Tracked /\ ~answers'[i].again =>
           workers[answers'[i].worker].event \in done
  BY <1>1, <1>4 DEF Answered, Completed
<1>6. CASE w \notin Tracked
  <2>1. UNCHANGED <<events, workers, told, term, struck>>
    BY Zenon, <1>3, <1>6 DEF on_worker
  <2>2. Tracked' = Tracked
    BY <2>1 DEF Tracked
  <2>3. Lasting'
    BY <1>2, <2>1, LastingKept
  <2>4. Completed'
    BY <1>2, <1>5, <2>1, <2>2 DEF Completed
  <2>5. Leaving' /\ Quiet'
    BY <1>2, <2>1, <2>2 DEF Leaving, Quiet
  <2>6. Ended'
    BY <1>2, <2>1, <2>2, EndedKept
  <2> QED
    BY <2>3, <2>4, <2>5, <2>6 DEF Recorded
<1>7. CASE w \in Tracked
  <2> DEFINE e == workers[w].event
  <2>1. PICK s \in {"idle", "killed"} :
          /\ workers' = [workers EXCEPT ![w] = [state |-> s, event |-> 0]]
          /\ workers[w].state \in {"killing", "killed"} => s = "killed"
    BY <1>3, <1>7, AnswerOfTracked
  <2>2. /\ \/ events' = Requeued(e) /\ told' = told
           \/ /\ events' = Without(events, e)
              /\ Head(answers).again => told' = told \union {e}
              /\ ~Head(answers).again => told' = told
        /\ term' = IF workers[w].state = "killing" THEN term \union {w} ELSE term
        /\ struck' = struck \ {w}
    BY <1>3, <1>7, AnswerOfTracked
  <2>3. workers[w].state \in {"killing", "killed"} => workers'[w].state = "killed"
    BY <1>7, <2>1 DEF Tracked
  <2>4. /\ Tracked' = Tracked /\ workers'[w].event = 0
        /\ \A v \in Tracked : v # w => workers'[v] = workers[v]
    BY <1>7, <2>1 DEF Tracked
  <2>5. Lasting'
    <3>1. ~Head(answers).again => e \in done
      BY <1>4, <1>7 DEF Completed
    <3>2. CASE events' = Requeued(e) /\ told' = told
      <4>1. DOMAIN events' = DOMAIN events
        BY <3>2 DEF Requeued
      <4> QED
        BY <1>2, <3>2, <4>1, LastingKept
    <3>3. CASE /\ events' = Without(events, e)
               /\ Head(answers).again => told' = told \union {e}
               /\ ~Head(answers).again => told' = told
      <4>1. DOMAIN events' = DOMAIN events \ {e}
        BY <3>3 DEF Without
      <4>2. told \subseteq told' /\ DOMAIN events \subseteq DOMAIN events' \union done' \union told'
        BY <1>2, <3>1, <3>3, <4>1
      <4> QED
        BY <1>2, <4>2, LastingKept
    <3> QED
      BY <2>2, <3>2, <3>3
  <2>6. Completed'
    BY <1>2, <1>5, <2>4 DEF Completed
  <2>7. Leaving'
    BY <1>1, <1>2, <1>7, <2>2, <2>3, <2>4 DEF Leaving, Typed
  <2>8. Ended' /\ Quiet'
    BY <1>2, <2>4, EndedKept DEF Quiet
  <2> QED
    BY <2>5, <2>6, <2>7, <2>8 DEF Recorded
<1> QED
  BY <1>6, <1>7

(* on_sigchld(): a worker that has not failed had no event any more, had   *)
(* completed it, or was struck.                                            *)
LEMMA ChildRecords ==
  ASSUME IInv, Lasting, Completed, Leaving, Ended, Quiet, NEW w \in Workers, on_sigchld(w)
  PROVE  Recorded'
<1> DEFINE e == workers[w].event
<1>1. /\ w \in Tracked /\ proc[w] \in {"exited", "crashed"} /\ cursor' = 0
      /\ events' = Without(events, e) /\ workers' = Without(workers, w)
      /\ told' = IF e # 0 /\ proc[w] = "crashed" THEN told \union {e} ELSE told
      /\ forgotten' = IF Ignored(w) THEN forgotten \union {e} ELSE forgotten
      /\ proc' = [proc EXCEPT ![w] = "none"] /\ term' = term \ {w} /\ struck' = struck \ {w}
      /\ UNCHANGED <<device, answers, killTimer, done>>
  BY DEF on_sigchld, Callback
<1>2. /\ Typed /\ 0 \notin DOMAIN events /\ proc \in [Workers -> Process]
      /\ Tracked \subseteq Workers /\ term \subseteq Tracked
  BY EventNumbers DEF IInv, Typed
<1>3. Tracked' = Tracked \ {w} /\ \A v \in Tracked' : workers'[v] = workers[v]
  BY <1>1 DEF Tracked, Without
<1>4. Lasting'
  <2>1. DOMAIN events' = DOMAIN events \ {e}
    BY <1>1 DEF Without
  <2>2. CASE proc[w] = "crashed"
    <3>1. e = 0 \/ e \in told'
      BY <1>1, <2>2
    <3> QED
      BY <1>1, <1>2, <2>1, <3>1, LastingKept
  <2>3. CASE proc[w] = "exited"
    <3>1. e = 0 \/ (w \in struck /\ (e \in done \/ device[e] \in Disks))
      BY <1>1, <2>3 DEF Leaving, Ended
    <3>2. e = 0 \/ e \in done \/ e \in forgotten'
      BY <1>1, <2>3, <3>1 DEF Ignored
    <3> QED
      BY <1>1, <1>2, <2>1, <3>2, LastingKept
  <2> QED
    BY <1>1, <2>2, <2>3
<1>5. Completed'
  BY <1>1, <1>3 DEF Completed
<1>6. Leaving'
  BY <1>1, <1>2, <1>3 DEF Leaving
<1>7. Ended' /\ Quiet'
  BY <1>1, <1>2, <1>3, EndedKept DEF Quiet
<1> QED
  BY <1>4, <1>5, <1>6, <1>7 DEF Recorded

(* manager_kill_workers(): idle workers get the signal, and those that are *)
(* in the state KILLING.                                                   *)
LEMMA KillRecords ==
  ASSUME IInv, Completed, Leaving, Ended, UNCHANGED <<device, proc, answers, done>>,
         manager_kill_workers(FALSE)
  PROVE  /\ Completed' /\ Leaving' /\ Ended' /\ Tracked' = Tracked
         /\ \A w \in Tracked : workers'[w].event = workers[w].event
<1>1. /\ workers' = Killing(FALSE) /\ term' = term \union Killed(FALSE)
      /\ struck' = struck \union {w \in Killed(FALSE) : workers[w].state = "killing"}
  BY DEF manager_kill_workers
<1>2. /\ Assigned /\ term \subseteq Tracked /\ \A w \in Tracked : workers[w] \in Worker
  BY DEF IInv, Typed
<1>3. Tracked' = Tracked
  BY <1>1 DEF Killing, Tracked
<1>4. ASSUME NEW w \in Tracked
      PROVE  /\ workers'[w].event = workers[w].event
             /\ workers[w].state = "killed" => workers'[w].state = "killed"
             /\ w \in Killed(FALSE) => workers'[w].state = "killed"
  <2>1. workers'[w] = [workers[w] EXCEPT !.state =
                         CASE w \in Killed(FALSE) -> "killed"
                           [] w \notin Killed(FALSE) /\ @ = "running" -> "killing"
                           [] OTHER -> @]
    BY <1>1 DEF Killing
  <2>2. workers[w] \in Worker
    BY <1>2
  <2> QED
    BY <2>1, <2>2 DEF Worker
<1>5. Completed'
  BY <1>3, <1>4, CompletedKept
<1>6. \A w \in Killed(FALSE) : w \in Tracked /\ (workers[w].event = 0 \/ w \in struck')
  <2> SUFFICES ASSUME NEW w \in Killed(FALSE)
        PROVE  w \in Tracked /\ (workers[w].event = 0 \/ w \in struck')
    OBVIOUS
  <2>1. w \in Tracked /\ workers[w].state # "killed" /\ workers[w].state # "running"
    BY DEF Killed
  <2>2. workers[w].state = "idle" \/ workers[w].state = "killing"
    BY <1>2, <2>1 DEF Worker
  <2> QED
    BY <1>1, <1>2, <2>1, <2>2 DEF Assigned
<1>7. Leaving'
  BY <1>1, <1>2, <1>3, <1>4, <1>6 DEF Leaving
<1>8. Ended'
  BY <1>3, <1>4, EndedKept
<1> QED
  BY <1>3, <1>4, <1>5, <1>7, <1>8

LEMMA ReloadRecords ==
  ASSUME IInv, Lasting, Completed, Leaving, Ended, Quiet, on_sighup \/ on_kill_workers_event
  PROVE  Recorded'
<1>1. /\ manager_kill_workers(FALSE)
      /\ UNCHANGED <<device, events, proc, answers, told, forgotten, done>>
      /\ cursor' = cursor /\ cursor = 0 /\ (killTimer' = killTimer \/ killTimer' = FALSE)
  BY Zenon DEF on_sighup, on_kill_workers_event, manager_reload, Callback
<1>2. /\ Completed' /\ Leaving' /\ Ended' /\ Tracked' = Tracked
      /\ \A w \in Tracked : workers'[w].event = workers[w].event
  BY <1>1, KillRecords
<1>3. Lasting'
  BY <1>1, LastingKept
<1>4. Quiet'
  BY <1>1, <1>2 DEF Quiet
<1> QED
  BY <1>2, <1>3, <1>4 DEF Recorded

LEMMA PostRecords ==
  ASSUME IInv, Lasting, Completed, Leaving, Ended, Quiet, on_post
  PROVE  Recorded'
<1>1. cursor = 0 /\ UNCHANGED <<device, events, proc, answers, told, forgotten, done>>
  BY DEF on_post
<1>2. \/ UNCHANGED <<workers, term, struck, cursor>>
      \/ UNCHANGED <<workers, term, struck>> /\ ~killTimer'
      \/ manager_reload /\ ~killTimer'
  BY Zenon DEF on_post
<1>3. killTimer' => killTimer \/ DOMAIN events = {}
  BY Zenon DEF on_post
<1>4. /\ Completed' /\ Leaving' /\ Ended' /\ Tracked' = Tracked
      /\ \A w \in Tracked : workers'[w].event = workers[w].event
  <2>1. CASE UNCHANGED <<workers, term, struck>>
    <3>1. Tracked' = Tracked
      BY <2>1 DEF Tracked
    <3> QED
      BY <1>1, <2>1, <3>1, CompletedKept, EndedKept DEF Leaving
  <2>2. CASE manager_reload
    <3>1. manager_kill_workers(FALSE)
      BY Zenon, <2>2 DEF manager_reload
    <3> QED
      BY <1>1, <3>1, KillRecords
  <2> QED
    BY <1>2, <2>1, <2>2
<1>5. Lasting'
  BY <1>1, LastingKept
<1>6. Quiet'
  <2>1. DOMAIN events = {} => \A w \in Tracked : workers[w].event = 0
    BY DEF IInv, Assigned
  <2>2. killTimer' => cursor' = 0
    BY <1>1, <1>2
  <2> QED
    BY <1>3, <1>4, <2>1, <2>2 DEF Quiet
<1> QED
  BY <1>4, <1>5, <1>6 DEF Recorded

(* A worker that gets an event has not been told to go, and none of its    *)
(* answers is in the socket.                                               *)
LEMMA AttachRecords ==
  ASSUME IInv, Lasting, Completed, Leaving, Ended, Quiet, cursor # 0, NEW w \in Workers, Attach(w),
         w \in Idle \/ w \in Unused, UNCHANGED <<device, term, struck, answers, killTimer, done, told, forgotten>>
  PROVE  Recorded'
<1>1. Typed /\ Known /\ Assigned /\ Answered
  BY DEF IInv
<1>2. /\ workers' = With(workers, w, [state |-> "running", event |-> cursor])
      /\ proc' = [proc EXCEPT ![w] = "busy"] /\ DOMAIN events' = DOMAIN events
  BY DEF Attach
<1>3. /\ Tracked' = Tracked \union {w} /\ \A v \in Tracked : v # w => workers'[v] = workers[v]
  BY <1>2 DEF Tracked, With
<1>4. \A i \in DOMAIN answers : answers[i].worker # w
  BY <1>1 DEF Idle, Unused, Assigned, Answered
<1>5. w \notin term /\ term \subseteq Tracked /\ proc \in [Workers -> Process] /\ Tracked \subseteq Workers
  <2>1. term \subseteq Tracked /\ proc \in [Workers -> Process] /\ Tracked \subseteq Workers
    BY <1>1 DEF Typed
  <2>2. w \in Idle => w \notin term
    BY DEF Idle, Leaving
  <2>3. w \in Unused => w \notin term
    BY <1>1, <2>1 DEF Unused, Known
  <2> QED
    BY <2>1, <2>2, <2>3
<1>6. Lasting'
  BY <1>2, LastingKept
<1>7. Completed'
  BY <1>3, <1>4 DEF Completed
<1>8. Leaving'
  BY <1>2, <1>3, <1>5 DEF Leaving
<1>9. Quiet'
  BY DEF Quiet
<1>10. Ended'
  BY <1>2, <1>3, <1>5 DEF Ended
<1> QED
  BY <1>6, <1>7, <1>8, <1>9, <1>10 DEF Recorded

LEMMA RunRecords ==
  ASSUME IInv, Lasting, Completed, Leaving, Ended, Quiet, event_run
  PROVE  Recorded'
<1>1. cursor # 0 /\ UNCHANGED <<device, term, struck, answers, killTimer, done, told, forgotten>>
  BY Zenon DEF event_run, history
<1>2. Tracked \subseteq Workers /\ \A v \in Tracked : workers[v] \in Worker
  BY DEF IInv, Typed
<1>3. ASSUME NEW w \in Idle, Attach(w)
      PROVE  Recorded'
  BY <1>1, <1>2, <1>3, AttachRecords DEF Idle
<1>4. ASSUME NEW w \in Unused, Attach(w)
      PROVE  Recorded'
  BY <1>1, <1>4, AttachRecords DEF Unused
<1>5. ASSUME NEW w \in Idle, workers' = [workers EXCEPT ![w].state = "killed"],
             UNCHANGED <<proc, work, events, cursor>>
      PROVE  Recorded'
  <2>1. /\ Tracked' = Tracked
        /\ \A v \in Tracked : /\ workers'[v].event = workers[v].event
                              /\ workers[v].state = "killed" => workers'[v].state = "killed"
    BY <1>2, <1>5 DEF Worker, Idle, Tracked
  <2>2. killTimer' => cursor' = 0
    BY <1>1 DEF Quiet
  <2> QED
    BY <1>1, <1>5, <2>1, <2>2, RecordsKept
<1>6. ASSUME events' = [events EXCEPT ![cursor].blocker = BlockerOf(cursor)], cursor' = 0,
             UNCHANGED <<workers, proc, work>>
      PROVE  Recorded'
  <2>1. Tracked' = Tracked /\ DOMAIN events' = DOMAIN events
    BY <1>6 DEF Tracked
  <2> QED
    BY <1>1, <1>6, <2>1, RecordsKept
<1>7. Unused # {} => (CHOOSE w \in Unused : TRUE) \in Unused
  BY Zenon
<1> QED
  BY Zenon, <1>3, <1>4, <1>5, <1>6, <1>7 DEF event_run
-----------------------------------------------------------------------------
LEMMA ExitStays ==
  ASSUME Next, exit \/ on_sigterm
  PROVE  exit'
<1>1. Skip \/ event_run \/ on_post => exit' = exit
  BY Zenon DEF Skip, event_run, on_post
<1>2. \A d \in Devices : on_uevent(d) \/ on_inotify(d) => exit' = exit
  BY Zenon DEF on_uevent, on_inotify
<1>3. \A e \in Numbers : on_event_retry(e) \/ Expire(e) => exit' = exit
  BY Zenon DEF on_event_retry, Expire
<1>4. \A w \in Workers : worker_process_device(w) \/ Crash(w) \/ Terminate(w) => exit' = exit
  BY Zenon DEF worker_process_device, Crash, Terminate, daemon
<1>5. \A w \in Workers : on_event_timeout(w) \/ on_sigchld(w) => exit' = exit
  BY Zenon DEF on_event_timeout, on_sigchld
<1>6. on_worker \/ on_sighup \/ on_kill_workers_event => exit' = exit
  BY Zenon DEF on_worker, on_sighup, on_kill_workers_event
<1>7. on_sigterm => exit'
  BY Zenon DEF on_sigterm
<1>8. exit' = exit \/ on_sigterm
  BY Zenon, <1>1, <1>2, <1>3, <1>4, <1>5, <1>6 DEF Next, Main
<1> QED
  BY Zenon, <1>7, <1>8

LEMMA RecordedStep ==
  ASSUME IInv, Recorded, [Next]_vars
  PROVE  Recorded'
<1>1. CASE UNCHANGED vars
  BY <1>1 DEF vars, daemon, procs, history, Recorded, Lasting, Completed, Leaving, Ended, Quiet, Numbers,
     Tracked
<1>2. CASE Next /\ (exit \/ on_sigterm)
  BY Zenon, <1>2, ExitStays DEF Recorded
<1>3. CASE Next /\ ~exit /\ ~on_sigterm
  <2>1. Lasting /\ Completed /\ Leaving /\ Ended /\ Quiet
    BY <1>3 DEF Recorded
  <2> QED
    BY Zenon, <1>3, <2>1, SmallStepsRecord, UeventRecords, AnswerRecords, EndRecords, TimeoutRecords,
       WorkerRecords, ChildRecords, ReloadRecords, PostRecords, RunRecords DEF Next, Main
<1> QED
  BY Zenon, <1>1, <1>2, <1>3

LEMMA RecordedInitially ==
  ASSUME Init
  PROVE  Recorded
<1>1. /\ device = <<>> /\ events = <<>> /\ workers = <<>> /\ answers = <<>> /\ term = {}
      /\ ~killTimer
  BY DEF Init
<1>2. Numbers = {} /\ Tracked = {} /\ DOMAIN answers = {}
  BY <1>1 DEF Numbers, Tracked
<1> QED
  BY <1>1, <1>2 DEF Recorded, Lasting, Completed, Leaving, Ended, Quiet

(* However many events, workers and reloads there are, an event is queued, *)
(* completed or broadcast as failed, unless udevd exits: it is lost        *)
(* neither between the worker and its answer, nor when the worker dies,    *)
(* nor when it is told to go.  The exception is that of manager_kill_      *)
(* workers() (udevd.c:319): the worker was in state KILLING and at work    *)
(* when the rules were reloaded once more, and its disk was locked.        *)
THEOREM NoEventIsLost == Spec => []NotLost
<1>1. Init => IInv /\ Recorded
  BY Initially, RecordedInitially
<1>2. IInv /\ Recorded /\ [Next]_vars => (IInv /\ Recorded)'
  BY Inductive, RecordedStep
<1>3. Recorded => NotLost
  BY DEF Recorded, Lasting, NotLost
<1> QED
  BY <1>1, <1>2, <1>3, PTL DEF Spec
=============================================================================
