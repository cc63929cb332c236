---------------------------- MODULE BarrierSync ----------------------------
(***************************************************************************)
(* What a barrier (shared/barrier.c) promises to the two processes that    *)
(* share it, without counters, file descriptors or polling.                *)
(*                                                                         *)
(* Both sides place barriers; a side learns of the barriers of the other   *)
(* one at some later time.  A call that waits has a goal, the number of    *)
(* barriers of the other side it wants to have learnt of.  It is answered  *)
(* TRUE only if the goal is reached, and FALSE only if one of the sides is *)
(* down: it aborted, failed or exited.                                     *)
(***************************************************************************)
EXTENDS Integers

Sides == {"parent", "child"}

Other(s) == IF s = "parent" THEN "child" ELSE "parent"

WaitOps == {"wait_next", "sync_next", "sync", "wait_abortion"}

NoCall == [op |-> "none", goal |-> 0]

VARIABLES
  placed,   \* placed[s]: how many barriers s has placed
  seen,     \* seen[s]: how many barriers of the other side s has learnt of
  down,     \* the sides that have aborted, failed or exited
  call,     \* call[s]: the waiting call s is in
  answer    \* answer[s]: what the last call of s returned

vars == <<placed, seen, down, call, answer>>

Init ==
  /\ placed = [s \in Sides |-> 0]
  /\ seen = [s \in Sides |-> 0]
  /\ down = {}
  /\ call = [s \in Sides |-> NoCall]
  /\ answer = [s \in Sides |-> "none"]

(* barrier_wait_next() asks for one more barrier, barrier_sync() for as    *)
(* many as the caller placed, barrier_sync_next() for one more of those.   *)
Goal(s, op) ==
  CASE op = "wait_next" -> seen[s] + 1
    [] op = "sync_next" -> IF placed[s] > seen[s] THEN seen[s] + 1 ELSE seen[s]
    [] op = "sync" -> placed[s]
    [] OTHER -> 0

Place(s) ==
  /\ call[s] = NoCall
  /\ placed' = [placed EXCEPT ![s] = @ + 1]
  /\ UNCHANGED <<seen, down, call, answer>>

(* Aborting, a fatal error, and an exit at any time.                       *)
GoDown(s) ==
  /\ down' = down \union {s}
  /\ UNCHANGED <<placed, seen, call, answer>>

Ask(s, op) ==
  /\ call[s] = NoCall
  /\ call' = [call EXCEPT ![s] = [op |-> op, goal |-> Goal(s, op)]]
  /\ answer' = [answer EXCEPT ![s] = "none"]
  /\ UNCHANGED <<placed, seen, down>>

Learn(s) ==
  /\ \E n \in seen[s] .. placed[Other(s)] : seen' = [seen EXCEPT ![s] = n]
  /\ UNCHANGED <<placed, down, call, answer>>

Reached(s) == IF call[s].op = "wait_abortion" THEN Other(s) \in down
                                              ELSE call[s].goal =< seen[s]

Answer(s, a) ==
  /\ call[s] # NoCall
  /\ a = "true" => Reached(s)
  /\ a = "false" => down # {}
  /\ answer' = [answer EXCEPT ![s] = a]
  /\ call' = [call EXCEPT ![s] = NoCall]
  /\ UNCHANGED <<placed, seen, down>>

Next ==
  \E s \in Sides :
    \/ Place(s)
    \/ GoDown(s)
    \/ \E op \in WaitOps : Ask(s, op)
    \/ Learn(s)
    \/ \E a \in {"true", "false"} : Answer(s, a)

Spec == Init /\ [][Next]_vars
=============================================================================
