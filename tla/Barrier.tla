------------------------------ MODULE Barrier ------------------------------
(***************************************************************************)
(* shared/barrier.c: two processes synchronise over two eventfd counters   *)
(* and a pipe.  Each side adds its barriers to its own counter; the other  *)
(* side drains it and subtracts what it finds from its local, signed count *)
(* b->barriers.  The pipe is never written to: that its other end is       *)
(* closed tells a side that its peer is gone.                              *)
(*                                                                         *)
(* ppoll() looks at the pipe first and at the counter second, and the peer *)
(* may run in between, so that the two looks are two steps here.           *)
(***************************************************************************)
EXTENDS Integers

CONSTANTS
  MaxPlaced,          \* bound: barriers that one side places
  BARRIER_ABORTION    \* INT64_MAX

(* No count of barriers comes near the values that stand for an abortion.  *)
ASSUME BarrierAssumption ==
  /\ MaxPlaced \in Nat
  /\ BARRIER_ABORTION \in Nat
  /\ BARRIER_ABORTION > MaxPlaced + 4

VARIABLES
  barriers,  \* barriers[s]: b->barriers on side s
  evfd,      \* evfd[s]: the counter of the eventfd that s writes
  pipe,      \* pipe[s]: s holds its end of the pipe open
  alive,     \* alive[s]: s has not exited
  pc,        \* pc[s]: where s is in a call that waits
  call,      \* call[s]: the call, and the goal it stands for (history)
  comp,      \* comp[s]: the argument of barrier_read()
  hup,       \* hup[s]: what ppoll() saw on the pipe
  placed,    \* history: how many barriers s has written
  seen,      \* history: how many barriers of the other side s has read
  aborted,   \* history: s called barrier_abort()
  answer     \* history: what the last waiting call of s returned

barrierVars == <<barriers, evfd, pipe, alive, pc, call, comp, hup,
                 placed, seen, aborted, answer>>

Sides == {"parent", "child"}

Other(s) == IF s = "parent" THEN "child" ELSE "parent"

BARRIER_SINGLE == 1

(* INT64_MIN *)
BARRIER_BIAS == -BARRIER_ABORTION - 1
BARRIER_WE_ABORTED == BARRIER_BIAS + 1
BARRIER_THEY_ABORTED == BARRIER_BIAS + 2
BARRIER_I_ABORTED == BARRIER_BIAS + 3

barrier_i_aborted(b) == b \in {BARRIER_I_ABORTED, BARRIER_WE_ABORTED}
barrier_they_aborted(b) == b \in {BARRIER_THEY_ABORTED, BARRIER_WE_ABORTED}
barrier_is_aborted(b) ==
  b \in {BARRIER_I_ABORTED, BARRIER_THEY_ABORTED, BARRIER_WE_ABORTED}

NoCall == [op |-> "none", goal |-> 0]
WaitOps == {"wait_next", "sync_next", "sync", "wait_abortion"}

TypeOK ==
  /\ barriers \in [Sides -> Int]
  /\ evfd \in [Sides -> Nat]
  /\ pipe \in [Sides -> BOOLEAN]
  /\ alive \in [Sides -> BOOLEAN]
  /\ pc \in [Sides -> {"idle", "loop", "event"}]
  /\ call \in [Sides -> [op : WaitOps \union {"none"}, goal : Nat]]
  /\ comp \in [Sides -> Int]
  /\ hup \in [Sides -> BOOLEAN]
  /\ placed \in [Sides -> Nat]
  /\ seen \in [Sides -> Nat]
  /\ aborted \in [Sides -> BOOLEAN]
  /\ answer \in [Sides -> {"none", "true", "false"}]

(* barrier_create() and barrier_set_role() on both sides of a fork().      *)
BarrierInit ==
  /\ barriers = [s \in Sides |-> 0]
  /\ evfd = [s \in Sides |-> 0]
  /\ pipe = [s \in Sides |-> TRUE]
  /\ alive = [s \in Sides |-> TRUE]
  /\ pc = [s \in Sides |-> "idle"]
  /\ call = [s \in Sides |-> NoCall]
  /\ comp = [s \in Sides |-> 0]
  /\ hup = [s \in Sides |-> FALSE]
  /\ placed = [s \in Sides |-> 0]
  /\ seen = [s \in Sides |-> 0]
  /\ aborted = [s \in Sides |-> FALSE]
  /\ answer = [s \in Sides |-> "none"]

Idle(s) == alive[s] /\ pc[s] = "idle"

(* The error path of barrier_write() and barrier_read().                   *)
Fail(s) ==
  /\ pipe' = [pipe EXCEPT ![s] = FALSE]
  /\ barriers' = [barriers EXCEPT ![s] = BARRIER_WE_ABORTED]

(* barrier_place(): a no-op once this side knows of an abortion.           *)
barrier_place(s) ==
  /\ Idle(s)
  /\ placed[s] < MaxPlaced
  /\ ~barrier_is_aborted(barriers[s])
  /\ evfd' = [evfd EXCEPT ![s] = @ + BARRIER_SINGLE]
  /\ barriers' = [barriers EXCEPT ![s] = @ + BARRIER_SINGLE]
  /\ placed' = [placed EXCEPT ![s] = @ + 1]
  /\ UNCHANGED <<pipe, alive, pc, call, comp, hup, seen, aborted, answer>>

(* The history of a side that closes its pipe after an error is all that   *)
(* its peer can see of it.                                                 *)
WriteFails(s) ==
  /\ Idle(s)
  /\ ~barrier_i_aborted(barriers[s])
  /\ Fail(s)
  /\ UNCHANGED <<evfd, alive, pc, call, comp, hup, placed, seen, aborted,
                 answer>>

barrier_abort(s) ==
  /\ Idle(s)
  /\ ~barrier_i_aborted(barriers[s])
  /\ evfd' = [evfd EXCEPT ![s] = @ + BARRIER_ABORTION]
  /\ barriers' = [barriers EXCEPT ![s] =
                    IF barrier_they_aborted(@) THEN BARRIER_WE_ABORTED
                                               ELSE BARRIER_I_ABORTED]
  /\ aborted' = [aborted EXCEPT ![s] = TRUE]
  /\ UNCHANGED <<pipe, alive, pc, call, comp, hup, placed, seen, answer>>

(* Mutated: barrier_sync() stops one barrier short.                        *)
CompOf_short(b, op) ==
  CASE op = "wait_next" -> b - 1
    [] op = "sync_next" -> IF b - 1 > 0 THEN b - 1 ELSE 0
    [] op = "sync" -> 1
    [] OTHER -> BARRIER_THEY_ABORTED

(* The count at which barrier_read() stops.                                *)
CompOf(b, op) ==
  CASE op = "wait_next" -> b - 1
    [] op = "sync_next" -> IF b - 1 > 0 THEN b - 1 ELSE 0
    [] op = "sync" -> 0
    [] OTHER -> BARRIER_THEY_ABORTED

(* What that means for the barriers of the other side, see BarrierSync.    *)
Goal(s, op) ==
  CASE op = "wait_next" -> seen[s] + 1
    [] op = "sync_next" -> IF placed[s] > seen[s] THEN seen[s] + 1 ELSE seen[s]
    [] op = "sync" -> placed[s]
    [] OTHER -> 0

(* barrier_wait_next(), barrier_sync_next(), barrier_sync() and            *)
(* barrier_wait_abortion(), up to the loop of barrier_read().              *)
Wait(s, op) ==
  /\ Idle(s)
  /\ pc' = [pc EXCEPT ![s] = "loop"]
  /\ call' = [call EXCEPT ![s] = [op |-> op, goal |-> Goal(s, op)]]
  /\ comp' = [comp EXCEPT ![s] = CompOf(barriers[s], op)]
  /\ answer' = [answer EXCEPT ![s] = "none"]
  /\ UNCHANGED <<barriers, evfd, pipe, alive, hup, placed, seen, aborted>>

(* Mutated: the loop of barrier_read() goes on at the count itself.        *)
MustReturn_below(s) ==
  \/ barrier_they_aborted(barriers[s])
  \/ barriers[s] < comp[s]
  \/ call[s].op # "wait_abortion" /\ barrier_is_aborted(barriers[s])

(* All but barrier_wait_abortion() return at once after an abortion.       *)
MustReturn(s) ==
  \/ barrier_they_aborted(barriers[s])
  \/ barriers[s] =< comp[s]
  \/ call[s].op # "wait_abortion" /\ barrier_is_aborted(barriers[s])

Result(s) ==
  IF call[s].op = "wait_abortion" THEN ~barrier_i_aborted(barriers[s])
                                  ELSE ~barrier_is_aborted(barriers[s])

Return(s) ==
  /\ alive[s] /\ pc[s] = "loop"
  /\ MustReturn(s)
  /\ pc' = [pc EXCEPT ![s] = "idle"]
  /\ call' = [call EXCEPT ![s] = NoCall]
  /\ answer' = [answer EXCEPT ![s] = IF Result(s) THEN "true" ELSE "false"]
  /\ comp' = [comp EXCEPT ![s] = 0]
  /\ UNCHANGED <<barriers, evfd, pipe, alive, hup, placed, seen, aborted>>

(* ppoll() on the pipe.  A pipe that was closed by Fail() is not polled.   *)
PollPipe(s) ==
  /\ alive[s] /\ pc[s] = "loop"
  /\ ~MustReturn(s)
  /\ hup' = [hup EXCEPT ![s] = pipe[s] /\ ~pipe[Other(s)]]
  /\ pc' = [pc EXCEPT ![s] = "event"]
  /\ UNCHANGED <<barriers, evfd, pipe, alive, call, comp, placed, seen,
                 aborted, answer>>

(* Mutated: a read takes one barrier off the count, however many it read.  *)
Apply_single(b, buf) ==
  IF buf >= BARRIER_ABORTION
    THEN IF barrier_i_aborted(b) THEN BARRIER_WE_ABORTED
                                 ELSE BARRIER_THEY_ABORTED
    ELSE IF barrier_is_aborted(b) THEN b ELSE b - BARRIER_SINGLE

(* What was read, or the implicit abortion, is applied to the local count. *)
Apply(b, buf) ==
  IF buf >= BARRIER_ABORTION
    THEN IF barrier_i_aborted(b) THEN BARRIER_WE_ABORTED
                                 ELSE BARRIER_THEY_ABORTED
    ELSE IF barrier_is_aborted(b) THEN b ELSE b - buf

(* Mutated: the hangup is looked at before the counter.                    *)
HasEvent_unless_hup(s) == evfd[Other(s)] > 0 /\ ~hup[s]

(* pfd[1].revents: the eventfd of the other side is readable.              *)
HasEvent(s) == evfd[Other(s)] > 0

(* ppoll() on the eventfd, which is then drained by read().                *)
PollEvent(s) ==
  /\ alive[s] /\ pc[s] = "event"
  /\ HasEvent(s)
  /\ barriers' = [barriers EXCEPT ![s] = Apply(@, evfd[Other(s)])]
  /\ seen' = [seen EXCEPT ![s] = IF evfd[Other(s)] < BARRIER_ABORTION
                                   THEN @ + evfd[Other(s)] ELSE @]
  /\ evfd' = [evfd EXCEPT ![Other(s)] = 0]
  /\ pc' = [pc EXCEPT ![s] = "loop"]
  /\ hup' = [hup EXCEPT ![s] = FALSE]
  /\ UNCHANGED <<pipe, alive, call, comp, placed, aborted, answer>>

(* The eventfd has nothing: a hangup counts, else ppoll() goes on waiting. *)
PollNothing(s) ==
  /\ alive[s] /\ pc[s] = "event"
  /\ ~HasEvent(s)
  /\ barriers' = [barriers EXCEPT ![s] = IF hup[s] THEN Apply(@, BARRIER_ABORTION)
                                                   ELSE @]
  /\ pc' = [pc EXCEPT ![s] = "loop"]
  /\ hup' = [hup EXCEPT ![s] = FALSE]
  /\ UNCHANGED <<evfd, pipe, alive, call, comp, placed, seen, aborted,
                 answer>>

ReadFails(s) ==
  /\ alive[s] /\ pc[s] = "event"
  /\ Fail(s)
  /\ pc' = [pc EXCEPT ![s] = "loop"]
  /\ hup' = [hup EXCEPT ![s] = FALSE]
  /\ UNCHANGED <<evfd, alive, call, comp, placed, seen, aborted, answer>>

(* The process exits or crashes, or calls barrier_destroy(); the kernel    *)
(* closes its end of the pipe.                                             *)
Exit(s) ==
  /\ alive[s]
  /\ alive' = [alive EXCEPT ![s] = FALSE]
  /\ pipe' = [pipe EXCEPT ![s] = FALSE]
  /\ UNCHANGED <<barriers, evfd, pc, call, comp, hup, placed, seen, aborted,
                 answer>>

Reading(s) == Return(s) \/ PollPipe(s) \/ PollEvent(s) \/ PollNothing(s)

BarrierNext ==
  \E s \in Sides :
    \/ barrier_place(s) \/ WriteFails(s) \/ barrier_abort(s)
    \/ \E op \in WaitOps : Wait(s, op)
    \/ Reading(s) \/ ReadFails(s)
    \/ Exit(s)

(* A process that runs goes on with the call it is in; nothing makes it    *)
(* place a barrier, abort or exit.                                         *)
BarrierFairness == \A s \in Sides : WF_barrierVars(Reading(s))

BarrierSpec == BarrierInit /\ [][BarrierNext]_barrierVars /\ BarrierFairness
-----------------------------------------------------------------------------
Down == {s \in Sides : aborted[s] \/ ~pipe[s]}

(* The barrier keeps the promise of BarrierSync: sync and wait calls       *)
(* return true only if the barriers they wait for were placed, and false   *)
(* only if a side is down.                                                 *)
Promise == INSTANCE BarrierSync WITH down <- Down

ImplementsBarrierSync == Promise!Spec

(* An exit does not overtake the barriers that were placed before it: a    *)
(* side takes its peer for gone, without any barrier_abort() or error,     *)
(* only after it has read everything that the peer wrote (barrier.c:62-69).*)
ExitAfterBarriers ==
  \A s \in Sides :
    /\ barrier_they_aborted(barriers[s])
    /\ pipe[s] /\ ~aborted[Other(s)]
    => ~pipe[Other(s)] /\ evfd[Other(s)] = 0 /\ seen[s] = placed[Other(s)]

(* A side that knows of no abortion has an exact count: the barriers it    *)
(* placed less the barriers of the other side that it has read.            *)
CountExact ==
  \A s \in Sides :
    ~barrier_is_aborted(barriers[s]) => barriers[s] = placed[s] - seen[s]

(* Target tracking: a call does not wait for ever if the other side is     *)
(* gone or has called barrier_abort(), and barrier_sync() does not if the  *)
(* other side placed as many.                                              *)
WaitersWake ==
  \A s \in Sides :
    /\ (pc[s] # "idle" /\ Other(s) \in Down /\ pipe[s])
         ~> (pc[s] = "idle" \/ ~pipe[s])
    /\ (call[s].op = "sync" /\ placed[Other(s)] >= placed[s])
         ~> (pc[s] = "idle" \/ ~alive[s])

(* barrier.c:276: "If either side already aborted, this is a no-op".       *)
PlaceSeesAbort ==
  [][\A s \in Sides : placed'[s] # placed[s] => ~aborted[Other(s)]]_barrierVars
=============================================================================
