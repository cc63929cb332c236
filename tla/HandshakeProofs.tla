--------------------------- MODULE HandshakeProofs ---------------------------
(***************************************************************************)
(* Proofs about the two protocols in which both sides work at a time, step *)
(* by step, on what they share: Barrier, for any number of barriers, and   *)
(* JournalOffline.                                                         *)
(***************************************************************************)
EXTENDS Barrier, JournalOffline, TLAPS

-----------------------------------------------------------------------------
(* Two processes and a barrier: the count is exact, an exit does not       *)
(* overtake a barrier, and the protocol implements BarrierSync.            *)

(* What is in flight: the counter of a side holds exactly the barriers     *)
(* that the other one has not read, until an abortion is added to it.      *)
InFlight ==
  \A s \in Sides :
    /\ placed[s] =< MaxPlaced
    /\ seen[s] =< placed[Other(s)]
    /\ ~aborted[s] => evfd[s] = placed[s] - seen[Other(s)]
    /\ aborted[s] => evfd[s] = 0 \/ evfd[s] >= BARRIER_ABORTION

(* Why a side is in one of the three aborted states.                       *)
Cause ==
  \A s \in Sides :
    /\ barriers[s] = BARRIER_THEY_ABORTED => aborted[Other(s)] \/ ~pipe[Other(s)]
    /\ barrier_i_aborted(barriers[s]) => aborted[s] \/ ~pipe[s]
    /\ aborted[s] => barrier_i_aborted(barriers[s])

(* A side that has closed its pipe writes no more.                         *)
Silent ==
  \A s \in Sides :
    /\ ~alive[s] => ~pipe[s]
    /\ alive[s] /\ ~pipe[s] => barriers[s] = BARRIER_WE_ABORTED
    /\ alive[s] /\ hup[s] => ~pipe[Other(s)]

(* A call that waits stops at the count that its goal stands for.          *)
Goals ==
  \A s \in Sides :
    /\ pc[s] = "idle" => call[s] = NoCall
    /\ pc[s] # "idle" => call[s].op # "none"
    /\ call[s].op = "wait_abortion" => comp[s] = BARRIER_THEY_ABORTED
    /\ call[s].op \notin {"none", "wait_abortion"} /\ ~barrier_is_aborted(barriers[s])
         => \/ call[s].goal =< seen[s]
            \/ comp[s] = placed[s] - call[s].goal

BarrierInv == /\ TypeOK /\ CountExact /\ InFlight /\ Cause
        /\ Silent /\ Goals /\ ExitAfterBarriers

(* The initial state satisfies the invariant.                              *)
LEMMA InitIInv == BarrierInit => BarrierInv
  BY BarrierAssumption DEF BarrierInit, BarrierInv, TypeOK, CountExact, InFlight, Cause, Silent, Goals,
     ExitAfterBarriers, Sides, Other, NoCall, barrier_is_aborted,
     barrier_i_aborted, barrier_they_aborted, BARRIER_I_ABORTED,
     BARRIER_WE_ABORTED, BARRIER_THEY_ABORTED, BARRIER_BIAS, WaitOps

LEMMA OtherSide ==
  ASSUME NEW s \in Sides
  PROVE  Other(s) \in Sides /\ Other(s) # s /\ Other(Other(s)) = s
  BY DEF Sides, Other

LEMMA PlaceIInv ==
  ASSUME BarrierInv, NEW s \in Sides, barrier_place(s)
  PROVE  BarrierInv'
  BY BarrierAssumption, OtherSide, SMTT(60) DEF barrier_place, Idle, BarrierInv,
     TypeOK, CountExact, InFlight, Cause, Silent, Goals, ExitAfterBarriers, Sides,
     Other, NoCall, WaitOps, barrier_is_aborted, barrier_i_aborted, barrier_they_aborted,
     BARRIER_I_ABORTED, BARRIER_WE_ABORTED, BARRIER_THEY_ABORTED, BARRIER_BIAS,
     BARRIER_SINGLE

LEMMA WriteFailsIInv ==
  ASSUME BarrierInv, NEW s \in Sides, WriteFails(s)
  PROVE  BarrierInv'
  BY BarrierAssumption, OtherSide, SMTT(60) DEF WriteFails, Idle, Fail, BarrierInv,
     TypeOK, CountExact, InFlight, Cause, Silent, Goals, ExitAfterBarriers, Sides,
     Other, NoCall, WaitOps, barrier_is_aborted, barrier_i_aborted, barrier_they_aborted,
     BARRIER_I_ABORTED, BARRIER_WE_ABORTED, BARRIER_THEY_ABORTED, BARRIER_BIAS,
     BARRIER_SINGLE

LEMMA AbortIInv ==
  ASSUME BarrierInv, NEW s \in Sides, barrier_abort(s)
  PROVE  BarrierInv'
  BY BarrierAssumption, OtherSide, SMTT(60) DEF barrier_abort, Idle, BarrierInv,
     TypeOK, CountExact, InFlight, Cause, Silent, Goals, ExitAfterBarriers, Sides,
     Other, NoCall, WaitOps, barrier_is_aborted, barrier_i_aborted, barrier_they_aborted,
     BARRIER_I_ABORTED, BARRIER_WE_ABORTED, BARRIER_THEY_ABORTED, BARRIER_BIAS,
     BARRIER_SINGLE

LEMMA WaitIInv ==
  ASSUME BarrierInv, NEW s \in Sides, NEW o \in WaitOps, Wait(s, o)
  PROVE  BarrierInv'
  BY BarrierAssumption, OtherSide, SMTT(60) DEF Wait, Idle, CompOf, Goal, BarrierInv,
     TypeOK, CountExact, InFlight, Cause, Silent, Goals, ExitAfterBarriers, Sides,
     Other, NoCall, WaitOps, barrier_is_aborted, barrier_i_aborted, barrier_they_aborted,
     BARRIER_I_ABORTED, BARRIER_WE_ABORTED, BARRIER_THEY_ABORTED, BARRIER_BIAS,
     BARRIER_SINGLE

LEMMA ReturnIInv ==
  ASSUME BarrierInv, NEW s \in Sides, Return(s)
  PROVE  BarrierInv'
  BY BarrierAssumption, OtherSide, SMTT(60) DEF Return, BarrierInv,
     TypeOK, CountExact, InFlight, Cause, Silent, Goals, ExitAfterBarriers, Sides,
     Other, NoCall, WaitOps, barrier_is_aborted, barrier_i_aborted, barrier_they_aborted,
     BARRIER_I_ABORTED, BARRIER_WE_ABORTED, BARRIER_THEY_ABORTED, BARRIER_BIAS,
     BARRIER_SINGLE

LEMMA PollPipeIInv ==
  ASSUME BarrierInv, NEW s \in Sides, PollPipe(s)
  PROVE  BarrierInv'
  BY BarrierAssumption, OtherSide, SMTT(60) DEF PollPipe, BarrierInv,
     TypeOK, CountExact, InFlight, Cause, Silent, Goals, ExitAfterBarriers, Sides,
     Other, NoCall, WaitOps, barrier_is_aborted, barrier_i_aborted, barrier_they_aborted,
     BARRIER_I_ABORTED, BARRIER_WE_ABORTED, BARRIER_THEY_ABORTED, BARRIER_BIAS,
     BARRIER_SINGLE

LEMMA PollEventIInv ==
  ASSUME BarrierInv, NEW s \in Sides, PollEvent(s)
  PROVE  BarrierInv'
  BY BarrierAssumption, OtherSide, SMTT(60) DEF PollEvent, HasEvent, Apply, BarrierInv,
     TypeOK, CountExact, InFlight, Cause, Silent, Goals, ExitAfterBarriers, Sides,
     Other, NoCall, WaitOps, barrier_is_aborted, barrier_i_aborted, barrier_they_aborted,
     BARRIER_I_ABORTED, BARRIER_WE_ABORTED, BARRIER_THEY_ABORTED, BARRIER_BIAS,
     BARRIER_SINGLE

LEMMA PollNothingIInv ==
  ASSUME BarrierInv, NEW s \in Sides, PollNothing(s)
  PROVE  BarrierInv'
  BY BarrierAssumption, OtherSide, SMTT(60) DEF PollNothing, HasEvent, Apply, BarrierInv,
     TypeOK, CountExact, InFlight, Cause, Silent, Goals, ExitAfterBarriers, Sides,
     Other, NoCall, WaitOps, barrier_is_aborted, barrier_i_aborted, barrier_they_aborted,
     BARRIER_I_ABORTED, BARRIER_WE_ABORTED, BARRIER_THEY_ABORTED, BARRIER_BIAS,
     BARRIER_SINGLE

LEMMA ReadFailsIInv ==
  ASSUME BarrierInv, NEW s \in Sides, ReadFails(s)
  PROVE  BarrierInv'
  BY BarrierAssumption, OtherSide, SMTT(60) DEF ReadFails, Fail, BarrierInv,
     TypeOK, CountExact, InFlight, Cause, Silent, Goals, ExitAfterBarriers, Sides,
     Other, NoCall, WaitOps, barrier_is_aborted, barrier_i_aborted, barrier_they_aborted,
     BARRIER_I_ABORTED, BARRIER_WE_ABORTED, BARRIER_THEY_ABORTED, BARRIER_BIAS,
     BARRIER_SINGLE

LEMMA ExitIInv ==
  ASSUME BarrierInv, NEW s \in Sides, Exit(s)
  PROVE  BarrierInv'
  BY BarrierAssumption, OtherSide, SMTT(60) DEF Exit, BarrierInv,
     TypeOK, CountExact, InFlight, Cause, Silent, Goals, ExitAfterBarriers, Sides,
     Other, NoCall, WaitOps, barrier_is_aborted, barrier_i_aborted, barrier_they_aborted,
     BARRIER_I_ABORTED, BARRIER_WE_ABORTED, BARRIER_THEY_ABORTED, BARRIER_BIAS,
     BARRIER_SINGLE

LEMMA NextIInv == BarrierInv /\ [BarrierNext]_barrierVars => BarrierInv'
<1> SUFFICES ASSUME BarrierInv, [BarrierNext]_barrierVars PROVE BarrierInv'
  OBVIOUS
<1>1. CASE UNCHANGED barrierVars
  BY <1>1 DEF barrierVars, BarrierInv, TypeOK, CountExact, InFlight, Cause, Silent, Goals,
     ExitAfterBarriers
<1>2. CASE BarrierNext
  <2>1. PICK s \in Sides :
          \/ barrier_place(s) \/ WriteFails(s) \/ barrier_abort(s)
          \/ \E o \in WaitOps : Wait(s, o)
          \/ Reading(s) \/ ReadFails(s)
          \/ Exit(s)
    BY <1>2 DEF BarrierNext
  <2> QED
    BY <2>1, PlaceIInv, WriteFailsIInv, AbortIInv, WaitIInv, ReturnIInv, PollPipeIInv,
       PollEventIInv, PollNothingIInv, ReadFailsIInv, ExitIInv DEF Reading
<1> QED
  BY <1>1, <1>2

LEMMA Invariance == BarrierSpec => []BarrierInv
  BY InitIInv, NextIInv, PTL DEF BarrierSpec

(* A side that knows of no abortion always has the exact difference of the *)
(* barriers it placed and the barriers it has read.                        *)
THEOREM CountIsExact == BarrierSpec => []CountExact
<1>1. BarrierInv => CountExact
  BY DEF BarrierInv
<1> QED
  BY Invariance, <1>1, PTL

(* It is safe to place a barrier and exit (barrier.c:62-69): an exit       *)
(* counts as an abortion only after every barrier placed before was read.  *)
THEOREM ExitDoesNotOvertake == BarrierSpec => []ExitAfterBarriers
<1>1. BarrierInv => ExitAfterBarriers
  BY DEF BarrierInv
<1> QED
  BY Invariance, <1>1, PTL

LEMMA BarrierInitRefines == BarrierInit => Promise!Init
  BY DEF BarrierInit, Promise!Init, Down, Promise!Sides, Sides, NoCall, Promise!NoCall

LEMMA PlaceRefines ==
  ASSUME BarrierInv, NEW s \in Sides, barrier_place(s)
  PROVE  Promise!Place(s)
  BY BarrierAssumption, OtherSide, SMTT(60) DEF barrier_place, Idle, Promise!Place, BarrierInv, TypeOK, CountExact,
     InFlight, Cause, Silent, Goals, Promise!Sides, Promise!Other, Promise!NoCall,
     Promise!WaitOps, Promise!vars, Sides, Other, NoCall, WaitOps, Down,
     barrier_is_aborted, barrier_i_aborted, barrier_they_aborted,
     BARRIER_I_ABORTED, BARRIER_WE_ABORTED, BARRIER_THEY_ABORTED, BARRIER_BIAS,
     BARRIER_SINGLE

LEMMA WriteFailsRefines ==
  ASSUME BarrierInv, NEW s \in Sides, WriteFails(s)
  PROVE  Promise!GoDown(s)
  BY BarrierAssumption, OtherSide, SMTT(60) DEF WriteFails, Idle, Fail, Promise!GoDown, BarrierInv, TypeOK, CountExact,
     InFlight, Cause, Silent, Goals, Promise!Sides, Promise!Other, Promise!NoCall,
     Promise!WaitOps, Promise!vars, Sides, Other, NoCall, WaitOps, Down,
     barrier_is_aborted, barrier_i_aborted, barrier_they_aborted,
     BARRIER_I_ABORTED, BARRIER_WE_ABORTED, BARRIER_THEY_ABORTED, BARRIER_BIAS,
     BARRIER_SINGLE

LEMMA AbortRefines ==
  ASSUME BarrierInv, NEW s \in Sides, barrier_abort(s)
  PROVE  Promise!GoDown(s)
  BY BarrierAssumption, OtherSide, SMTT(60) DEF barrier_abort, Idle, Promise!GoDown, BarrierInv, TypeOK, CountExact,
     InFlight, Cause, Silent, Goals, Promise!Sides, Promise!Other, Promise!NoCall,
     Promise!WaitOps, Promise!vars, Sides, Other, NoCall, WaitOps, Down,
     barrier_is_aborted, barrier_i_aborted, barrier_they_aborted,
     BARRIER_I_ABORTED, BARRIER_WE_ABORTED, BARRIER_THEY_ABORTED, BARRIER_BIAS,
     BARRIER_SINGLE

LEMMA WaitRefines ==
  ASSUME BarrierInv, NEW s \in Sides, NEW o \in WaitOps, Wait(s, o)
  PROVE  Promise!Ask(s, o)
  BY BarrierAssumption, OtherSide, SMTT(60) DEF Wait, Idle, Goal, Promise!Ask, Promise!Goal, BarrierInv, TypeOK, CountExact,
     InFlight, Cause, Silent, Goals, Promise!Sides, Promise!Other, Promise!NoCall,
     Promise!WaitOps, Promise!vars, Sides, Other, NoCall, WaitOps, Down,
     barrier_is_aborted, barrier_i_aborted, barrier_they_aborted,
     BARRIER_I_ABORTED, BARRIER_WE_ABORTED, BARRIER_THEY_ABORTED, BARRIER_BIAS,
     BARRIER_SINGLE

LEMMA ReturnRefines ==
  ASSUME BarrierInv, NEW s \in Sides, Return(s)
  PROVE  \E a \in {"true", "false"} : Promise!Answer(s, a)
<1> DEFINE a == IF Result(s) THEN "true" ELSE "false"
<1>1. call[s] # Promise!NoCall
  BY SMTT(60) DEF BarrierInv, Goals, Return, NoCall, Promise!NoCall
<1>2. ASSUME Result(s) PROVE Promise!Reached(s)
  <2>1. CASE call[s].op = "wait_abortion"
    <3>1. barriers[s] = BARRIER_THEY_ABORTED
      BY <1>2, <2>1, BarrierAssumption, OtherSide, SMTT(60) DEF Return, MustReturn, Result,
         BarrierInv, TypeOK, CountExact, InFlight, Goals,
         barrier_is_aborted, barrier_i_aborted, barrier_they_aborted,
     BARRIER_I_ABORTED, BARRIER_WE_ABORTED, BARRIER_THEY_ABORTED, BARRIER_BIAS
    <3> QED
      BY <3>1, <2>1, OtherSide, SMTT(60) DEF BarrierInv, Cause, Promise!Reached, Down,
         Promise!Other, Other
  <2>2. CASE call[s].op # "wait_abortion"
    <3>1. ~barrier_is_aborted(barriers[s])
      BY <1>2, <2>2 DEF Result
    <3>2. barriers[s] =< comp[s]
      BY <3>1, <2>2, SMTT(60) DEF Return, MustReturn, barrier_is_aborted,
         barrier_they_aborted
    <3>3. call[s].op # "none"
      BY SMTT(60) DEF BarrierInv, TypeOK, Goals, Return
    <3>4. call[s].goal =< seen[s]
      BY <3>1, <3>2, <3>3, <2>2, SMTT(60) DEF BarrierInv, TypeOK, CountExact, Goals
    <3> QED
      BY <3>4, <2>2 DEF Promise!Reached
  <2> QED
    BY <2>1, <2>2
<1>3. ASSUME ~Result(s) PROVE Down # {}
  BY <1>3, OtherSide, SMTT(60) DEF Result, BarrierInv, Cause, Down, barrier_is_aborted,
     barrier_i_aborted
<1>4. Down' = Down
  BY DEF Return, Down
<1>5. Promise!Answer(s, a)
  BY <1>1, <1>2, <1>3, <1>4, SMTT(60) DEF Promise!Answer, Return, NoCall, Promise!NoCall
<1> QED
  BY <1>5

LEMMA PollPipeRefines ==
  ASSUME BarrierInv, NEW s \in Sides, PollPipe(s)
  PROVE  UNCHANGED Promise!vars
  BY BarrierAssumption, OtherSide, SMTT(60) DEF PollPipe, BarrierInv, TypeOK, CountExact,
     InFlight, Cause, Silent, Goals, Promise!Sides, Promise!Other, Promise!NoCall,
     Promise!WaitOps, Promise!vars, Sides, Other, NoCall, WaitOps, Down,
     barrier_is_aborted, barrier_i_aborted, barrier_they_aborted,
     BARRIER_I_ABORTED, BARRIER_WE_ABORTED, BARRIER_THEY_ABORTED, BARRIER_BIAS,
     BARRIER_SINGLE

LEMMA PollEventRefines ==
  ASSUME BarrierInv, NEW s \in Sides, PollEvent(s)
  PROVE  Promise!Learn(s)
<1> DEFINE n == seen'[s]
<1>1. Down' = Down
  BY DEF PollEvent, Down
<1>2. n \in seen[s] .. placed[Other(s)]
  BY BarrierAssumption, OtherSide, SMTT(60) DEF PollEvent, HasEvent, BarrierInv, TypeOK,
     InFlight
<1>3. seen' = [seen EXCEPT ![s] = n]
  BY SMTT(60) DEF PollEvent, BarrierInv, TypeOK
<1>4. placed[Other(s)] = placed[Promise!Other(s)]
  BY DEF Other, Promise!Other
<1>5. UNCHANGED <<placed, call, answer>>
  BY DEF PollEvent
<1> HIDE DEF n
<1> QED
  BY <1>1, <1>2, <1>3, <1>4, <1>5, Zenon DEF Promise!Learn

LEMMA PollNothingRefines ==
  ASSUME BarrierInv, NEW s \in Sides, PollNothing(s)
  PROVE  UNCHANGED Promise!vars
  BY BarrierAssumption, OtherSide, SMTT(60) DEF PollNothing, BarrierInv, TypeOK, CountExact,
     InFlight, Cause, Silent, Goals, Promise!Sides, Promise!Other, Promise!NoCall,
     Promise!WaitOps, Promise!vars, Sides, Other, NoCall, WaitOps, Down,
     barrier_is_aborted, barrier_i_aborted, barrier_they_aborted,
     BARRIER_I_ABORTED, BARRIER_WE_ABORTED, BARRIER_THEY_ABORTED, BARRIER_BIAS,
     BARRIER_SINGLE

LEMMA ReadFailsRefines ==
  ASSUME BarrierInv, NEW s \in Sides, ReadFails(s)
  PROVE  Promise!GoDown(s)
  BY BarrierAssumption, OtherSide, SMTT(60) DEF ReadFails, Fail, Promise!GoDown, BarrierInv, TypeOK, CountExact,
     InFlight, Cause, Silent, Goals, Promise!Sides, Promise!Other, Promise!NoCall,
     Promise!WaitOps, Promise!vars, Sides, Other, NoCall, WaitOps, Down,
     barrier_is_aborted, barrier_i_aborted, barrier_they_aborted,
     BARRIER_I_ABORTED, BARRIER_WE_ABORTED, BARRIER_THEY_ABORTED, BARRIER_BIAS,
     BARRIER_SINGLE

LEMMA ExitRefines ==
  ASSUME BarrierInv, NEW s \in Sides, Exit(s)
  PROVE  Promise!GoDown(s)
  BY BarrierAssumption, OtherSide, SMTT(60) DEF Exit, Promise!GoDown, BarrierInv, TypeOK, CountExact,
     InFlight, Cause, Silent, Goals, Promise!Sides, Promise!Other, Promise!NoCall,
     Promise!WaitOps, Promise!vars, Sides, Other, NoCall, WaitOps, Down,
     barrier_is_aborted, barrier_i_aborted, barrier_they_aborted,
     BARRIER_I_ABORTED, BARRIER_WE_ABORTED, BARRIER_THEY_ABORTED, BARRIER_BIAS,
     BARRIER_SINGLE

LEMMA BarrierNextRefines == BarrierInv /\ [BarrierNext]_barrierVars => [Promise!Next]_(Promise!vars)
<1> SUFFICES ASSUME BarrierInv, [BarrierNext]_barrierVars PROVE [Promise!Next]_(Promise!vars)
  OBVIOUS
<1>1. CASE UNCHANGED barrierVars
  BY <1>1 DEF barrierVars, Promise!vars, Down
<1>2. CASE BarrierNext
  <2>1. PICK s \in Sides :
          \/ barrier_place(s) \/ WriteFails(s) \/ barrier_abort(s)
          \/ \E o \in WaitOps : Wait(s, o)
          \/ Reading(s) \/ ReadFails(s)
          \/ Exit(s)
    BY <1>2 DEF BarrierNext
  <2>2. \/ \/ Promise!Place(s) \/ Promise!GoDown(s)
           \/ \E o \in WaitOps : Promise!Ask(s, o)
           \/ Promise!Learn(s)
           \/ \E a \in {"true", "false"} : Promise!Answer(s, a)
        \/ UNCHANGED Promise!vars
    BY <2>1, PlaceRefines, WriteFailsRefines, AbortRefines, WaitRefines, ReturnRefines,
       PollPipeRefines, PollEventRefines, PollNothingRefines, ReadFailsRefines,
       ExitRefines DEF Reading
  <2> QED
    BY <2>2 DEF Promise!Next, Promise!Sides, Sides, Promise!WaitOps, WaitOps
<1> QED
  BY <1>1, <1>2

(* The counters, the pipe and the two looks of ppoll() implement the       *)
(* promise of BarrierSync, for any number of barriers.                     *)
THEOREM BarrierIsSync == BarrierSpec => ImplementsBarrierSync
<1>1. BarrierSpec => []BarrierInv
  BY Invariance
<1>2. BarrierSpec => BarrierInit /\ [][BarrierNext]_barrierVars
  BY DEF BarrierSpec
<1>3. BarrierInit /\ [][BarrierNext]_barrierVars /\ []BarrierInv => Promise!Spec
  BY BarrierInitRefines, BarrierNextRefines, PTL DEF Promise!Spec
<1> QED
  BY <1>1, <1>2, <1>3, PTL DEF ImplementsBarrierSync

-----------------------------------------------------------------------------
(* The writer of a journal file and the thread that takes it offline:      *)
(* neither touches the header while the other does, a closed file is       *)
(* clean, and what is on disk implements JournalDisk.                      *)

(* The values of offline_state while somebody takes the file offline.      *)
Going == {"SYNCING", "CANCEL", "AGAIN_FROM_SYNCING", "AGAIN_FROM_OFFLINING", "OFFLINING"}
OfflineStates == Going \union {"DONE", "JOINED"}
HeaderStates == {"ONLINE", "OFFLINE", "ARCHIVED"}

(* Where the writer is in journal_file_set_online() and what follows it,   *)
(* and in managed_journal_file_set_offline().                              *)
OnlinePlaces == {"online", "online_cas", "online_join", "online_header", "online_sync", "write"}
OfflinePlaces == {"offline", "join_only", "restart", "restart_cas", "offline_join", "start", "inline"}

Typed ==
  /\ offline_state \in OfflineStates /\ tseen \in OfflineStates /\ wseen \in OfflineStates
  /\ hdr \in HeaderStates /\ diskHdr \in HeaderStates
  /\ thread \in {"none", "running", "ended"}
  /\ tpc \in {"out", "switch", "end", "truncate", "sync", "cas", "header", "sync_header"}
  /\ life \in {"open", "rotated", "closed", "crashed"}

(* Only close() waits, and thus takes the file offline itself.             *)
Places ==
  \/ wpc = "idle" /\ op = "none"
  \/ wpc \in OnlinePlaces /\ op \in {"append", "tag"}
  \/ wpc \in OfflinePlaces /\ op \in {"sync", "rotate", "close"} /\ (wpc = "inline" => op = "close")

(* offline_state tells whether there is a thread, and whether it has ended.*)
OneThread ==
  /\ offline_state \in Going <=> tpc # "out"
  /\ offline_state = "JOINED" => thread = "none"
  /\ offline_state = "DONE" => \/ thread = "ended"
                               \/ thread = "none" /\ (wpc = "inline" \/ life = "closed")
  /\ offline_state \in Going => \/ thread = "running" /\ wpc # "inline"
                                \/ thread = "none" /\ wpc = "inline"
  /\ wpc = "start" => offline_state = "JOINED"
  /\ wpc = "inline" => thread = "none" /\ offline_state # "JOINED"
  /\ wpc \in {"online_join", "offline_join"} => thread # "none"
  /\ life = "closed" => wpc = "idle" /\ thread = "none" /\ tpc = "out"

(* What the two sides have read before they try to exchange it.            *)
Seen ==
  /\ tpc \in {"sync", "end", "truncate"} => tseen = "SYNCING"
  /\ tpc = "cas" => tseen \in Going
  /\ wpc = "online_cas" => wseen \in {"SYNCING", "AGAIN_FROM_SYNCING", "AGAIN_FROM_OFFLINING"}
  /\ wpc = "restart_cas" => wseen \in {"CANCEL", "SYNCING", "OFFLINING"}
  /\ wpc = "offline_join" => wseen # "JOINED"

(* Whose turn it is to change the header.  A thread that has begun to do   *)
(* so may be cancelled, but then the writer waits for it.                  *)
HeaderTurns ==
  /\ tpc \in {"header", "sync_header"} =>
       \/ offline_state \in {"OFFLINING", "AGAIN_FROM_OFFLINING"}
       \/ offline_state = "CANCEL" /\ wpc = "online_join"
  /\ wpc \in {"online_header", "online_sync", "write"} =>
       offline_state \in {"CANCEL", "DONE", "JOINED"} /\ tpc \notin {"header", "sync_header"}
  /\ wpc \in {"online_sync", "write"} => hdr = "ONLINE"

(* The header in the mapping differs from the one on disk only before an   *)
(* fsync(), and neither says that the file is complete while it is not.    *)
(* Nothing was written since the fsync() if the thread can still go on     *)
(* from SYNCING.                                                           *)
OnDisk ==
  /\ diskHdr = hdr \/ tpc = "sync_header" \/ wpc = "online_sync"
  /\ hdr # "ONLINE" => ~dirty
  /\ diskHdr # "ONLINE" => ~dirty
  /\ tpc = "header" => ~dirty
  /\ tpc = "cas" /\ tseen = "SYNCING" /\ offline_state = "SYNCING" => ~dirty

(* The writer takes the file offline itself, or waits for a thread that    *)
(* was sent round again.                                                   *)
Sure == wpc = "inline" \/ (wpc = "offline_join" /\ wseen # "DONE")

(* Then nobody cancels, and the header is right in the end.                *)
Finishes ==
  /\ wpc = "join_only" => offline_state \in {"DONE", "JOINED"} /\ hdr = Target
  /\ wpc = "offline_join" /\ wseen = "DONE" => offline_state = "DONE"
  /\ Sure => /\ offline_state # "CANCEL"
             /\ offline_state = "OFFLINING" /\ tpc # "header" => hdr = Target
             /\ offline_state = "DONE" => hdr = Target
  /\ life = "closed" => hdr = Target

IInv == Typed /\ Places /\ OneThread /\ Seen /\ HeaderTurns /\ OnDisk /\ Finishes

USE DEF Up, WriterAt, tvars, disk, content, fileVars, Writes,
        Going, OfflineStates, HeaderStates, OnlinePlaces, OfflinePlaces
-----------------------------------------------------------------------------
(* The thread                                                              *)

LEMMA ThreadSwitchKeeps ==
  ASSUME IInv, ThreadSwitch
  PROVE  IInv'
<1>1. Typed' /\ Places' /\ OneThread' /\ HeaderTurns' /\ OnDisk' /\ Finishes'
  BY DEF IInv, Typed, Places, OneThread, HeaderTurns, OnDisk, Finishes, Target, Sure,
     ThreadSwitch, ThreadReturns
<1>2. Seen'
  BY DEF IInv, Typed, Seen, ThreadSwitch, ThreadReturns
<1> QED
  BY <1>1, <1>2 DEF IInv

LEMMA ThreadFindsEndKeeps ==
  ASSUME IInv, ThreadFindsEnd
  PROVE  IInv'
<1>1. Typed' /\ Places' /\ OneThread' /\ Seen' /\ HeaderTurns' /\ OnDisk' /\ Finishes'
  BY DEF IInv, Typed, Places, OneThread, Seen, HeaderTurns, OnDisk, Finishes, Target, Sure,
     ThreadFindsEnd
<1> QED
  BY <1>1 DEF IInv

LEMMA ThreadTruncatesKeeps ==
  ASSUME IInv, ThreadTruncates
  PROVE  IInv'
<1>1. Typed' /\ Places' /\ OneThread' /\ Seen' /\ HeaderTurns' /\ OnDisk' /\ Finishes'
  BY DEF IInv, Typed, Places, OneThread, Seen, HeaderTurns, OnDisk, Finishes, Target, Sure,
     ThreadTruncates
<1> QED
  BY <1>1 DEF IInv

LEMMA ThreadSyncsKeeps ==
  ASSUME IInv, ThreadSyncs
  PROVE  IInv'
<1>1. Typed' /\ Places' /\ OneThread' /\ Seen' /\ HeaderTurns' /\ OnDisk' /\ Finishes'
  BY DEF IInv, Typed, Places, OneThread, Seen, HeaderTurns, OnDisk, Finishes, Target, Sure,
     ThreadSyncs, SyncAll
<1> QED
  BY <1>1 DEF IInv

LEMMA ThreadExchangesKeeps ==
  ASSUME IInv, ThreadExchanges
  PROVE  IInv'
<1>1. Typed' /\ Places' /\ OneThread' /\ Seen' /\ HeaderTurns' /\ OnDisk'
  BY DEF IInv, Typed, Places, OneThread, Seen, HeaderTurns, OnDisk, ThreadExchanges, Exchange,
     ThreadTarget, Exchanged, ThreadReturns
<1>2. Finishes'
  BY DEF IInv, Seen, Finishes, Target, Sure, ThreadExchanges, Exchange, ThreadTarget, Exchanged,
     ThreadReturns
<1> QED
  BY <1>1, <1>2 DEF IInv

LEMMA ThreadMarksKeeps ==
  ASSUME IInv, ThreadMarks
  PROVE  IInv'
<1>1. Typed' /\ Places' /\ OneThread' /\ Seen' /\ HeaderTurns' /\ OnDisk' /\ Finishes'
  BY DEF IInv, Typed, Places, OneThread, Seen, HeaderTurns, OnDisk, Finishes, Target, Sure,
     ThreadMarks
<1> QED
  BY <1>1 DEF IInv

LEMMA ThreadSyncsHeaderKeeps ==
  ASSUME IInv, ThreadSyncsHeader
  PROVE  IInv'
<1>1. Typed' /\ Places' /\ OneThread' /\ Seen' /\ HeaderTurns' /\ OnDisk' /\ Finishes'
  BY DEF IInv, Typed, Places, OneThread, Seen, HeaderTurns, OnDisk, Finishes, Target, Sure,
     ThreadSyncsHeader, SyncAll
<1> QED
  BY <1>1 DEF IInv
-----------------------------------------------------------------------------
(* The writer: set_online() and the write                                  *)

LEMMA OnlineSwitchKeeps ==
  ASSUME IInv, OnlineSwitch
  PROVE  IInv'
<1>1. Typed' /\ Places' /\ Seen' /\ HeaderTurns' /\ OnDisk' /\ Finishes'
  BY DEF IInv, Typed, Places, Seen, HeaderTurns, OnDisk, Finishes, Target, Sure, OnlineSwitch
<1>2. OneThread'
  BY DEF IInv, Typed, OneThread, OnlineSwitch
<1> QED
  BY <1>1, <1>2 DEF IInv

LEMMA OnlineCancelsKeeps ==
  ASSUME IInv, OnlineCancels
  PROVE  IInv'
<1>1. Typed' /\ Places' /\ Seen' /\ OnDisk' /\ Finishes'
  BY DEF IInv, Typed, Places, Seen, OnDisk, Finishes, Target, Sure, OnlineCancels, Exchange,
     Exchanged, AfterCancel
<1>2. OneThread'
  BY DEF IInv, OneThread, Seen, OnlineCancels, Exchange, Exchanged, AfterCancel
<1>3. HeaderTurns'
  BY DEF IInv, Seen, HeaderTurns, OnlineCancels, Exchange, Exchanged, AfterCancel
<1> QED
  BY <1>1, <1>2, <1>3 DEF IInv

LEMMA OnlineJoinsKeeps ==
  ASSUME IInv, OnlineJoins
  PROVE  IInv'
<1>1. Typed' /\ Places' /\ OneThread' /\ Seen' /\ OnDisk' /\ Finishes'
  BY DEF IInv, Typed, Places, OneThread, Seen, OnDisk, Finishes, Target, Sure, OnlineJoins, Joins
<1>2. HeaderTurns'
  BY DEF IInv, OneThread, HeaderTurns, OnlineJoins, Joins
<1> QED
  BY <1>1, <1>2 DEF IInv

LEMMA OnlineHeaderKeeps ==
  ASSUME IInv, OnlineHeader
  PROVE  IInv'
<1>1. Typed' /\ Places' /\ Seen' /\ OnDisk'
  BY DEF IInv, Typed, Places, Seen, OnDisk, OnlineHeader, WriterDone
<1>2. OneThread'
  BY DEF IInv, Places, OneThread, OnlineHeader, WriterDone
<1>3. HeaderTurns'
  BY DEF IInv, Typed, HeaderTurns, OnlineHeader, WriterDone
<1>4. Finishes'
  BY DEF IInv, Places, Finishes, Target, Sure, OnlineHeader, WriterDone
<1> QED
  BY <1>1, <1>2, <1>3, <1>4 DEF IInv

LEMMA OnlineSyncsKeeps ==
  ASSUME IInv, OnlineSyncs
  PROVE  IInv'
<1>1. Typed' /\ Places' /\ OneThread' /\ Seen' /\ HeaderTurns' /\ OnDisk' /\ Finishes'
  BY DEF IInv, Typed, Places, OneThread, Seen, HeaderTurns, OnDisk, Finishes, Target, Sure,
     OnlineSyncs, SyncAll
<1> QED
  BY <1>1 DEF IInv

LEMMA WriteObjectKeeps ==
  ASSUME IInv, WriteObject
  PROVE  IInv'
<1>1. Typed' /\ Places' /\ Seen' /\ HeaderTurns'
  BY DEF IInv, Typed, Places, Seen, HeaderTurns, WriteObject, WriterDone
<1>2. OneThread'
  BY DEF IInv, Places, OneThread, WriteObject, WriterDone
<1>3. OnDisk'
  BY DEF IInv, HeaderTurns, OnDisk, WriteObject, WriterDone
<1>4. Finishes'
  BY DEF IInv, Places, Finishes, Target, Sure, WriteObject, WriterDone
<1> QED
  BY <1>1, <1>2, <1>3, <1>4 DEF IInv
-----------------------------------------------------------------------------
(* The writer: set_offline()                                               *)

LEMMA OfflineBeginsKeeps ==
  ASSUME IInv, OfflineBegins
  PROVE  IInv'
<1>1. Typed' /\ Places' /\ OneThread' /\ Seen' /\ HeaderTurns' /\ OnDisk' /\ Finishes'
  BY DEF IInv, Typed, Places, OneThread, Seen, HeaderTurns, OnDisk, Finishes, Sure, OfflineBegins,
     InTargetState, managed_journal_file_is_offlining, Target
<1> QED
  BY <1>1 DEF IInv

LEMMA JoinOnlyKeeps ==
  ASSUME IInv, JoinOnly
  PROVE  IInv'
<1>1. Typed' /\ Places' /\ OneThread' /\ Seen' /\ OnDisk' /\ Finishes'
  BY DEF IInv, Typed, Places, OneThread, Seen, OnDisk, Finishes, Target, Sure, JoinOnly,
     WriterDone
<1>2. HeaderTurns'
  BY DEF IInv, HeaderTurns, Finishes, Target, Sure, JoinOnly, WriterDone
<1> QED
  BY <1>1, <1>2 DEF IInv

LEMMA RestartSwitchKeeps ==
  ASSUME IInv, RestartSwitch
  PROVE  IInv'
<1>1. Typed' /\ Places' /\ Seen' /\ HeaderTurns' /\ OnDisk' /\ Finishes'
  BY DEF IInv, Typed, Places, Seen, HeaderTurns, OnDisk, Finishes, Target, Sure, RestartSwitch,
     Waits, WriterDone
<1>2. OneThread'
  BY DEF IInv, Typed, OneThread, RestartSwitch, Waits, WriterDone
<1> QED
  BY <1>1, <1>2 DEF IInv

LEMMA RestartExchangesKeeps ==
  ASSUME IInv, RestartExchanges
  PROVE  IInv'
<1>1. Typed' /\ Places' /\ Seen' /\ OnDisk'
  BY DEF IInv, Typed, Places, Seen, OnDisk, RestartExchanges, Exchange, Exchanged, Waits,
     WriterDone
<1>2. OneThread'
  BY DEF IInv, OneThread, Seen, RestartExchanges, Exchange, Exchanged, Waits, WriterDone
<1>3. HeaderTurns'
  BY DEF IInv, Seen, HeaderTurns, RestartExchanges, Exchange, Exchanged, Waits, WriterDone
<1>4. Finishes'
  BY DEF IInv, Seen, Finishes, Target, Sure, RestartExchanges, Exchange, Exchanged, Waits,
     WriterDone
<1> QED
  BY <1>1, <1>2, <1>3, <1>4 DEF IInv

LEMMA OfflineJoinsKeeps ==
  ASSUME IInv, OfflineJoins
  PROVE  IInv'
<1>1. Typed' /\ Places' /\ OneThread' /\ Seen' /\ OnDisk'
  BY DEF IInv, Typed, Places, OneThread, Seen, OnDisk, OfflineJoins, WriterDone
<1>2. HeaderTurns'
  BY DEF IInv, OneThread, HeaderTurns, OfflineJoins, WriterDone
<1>3. Finishes'
  BY DEF IInv, Typed, OneThread, Finishes, Target, Sure, OfflineJoins, WriterDone
<1> QED
  BY <1>1, <1>2, <1>3 DEF IInv

LEMMA StartKeeps ==
  ASSUME IInv, Start
  PROVE  IInv'
<1>1. Typed' /\ Places' /\ OneThread' /\ Seen' /\ HeaderTurns' /\ Finishes'
  BY DEF IInv, Typed, Places, OneThread, Seen, HeaderTurns, Finishes, Target, Sure, Start, Waits,
     WriterDone
<1>2. OnDisk'
  BY DEF IInv, OneThread, OnDisk, Start, Waits, WriterDone
<1> QED
  BY <1>1, <1>2 DEF IInv

LEMMA StartFailsKeeps ==
  ASSUME IInv, StartFails
  PROVE  IInv'
<1>1. Typed' /\ Places' /\ OneThread' /\ Seen' /\ OnDisk' /\ Finishes'
  BY DEF IInv, Typed, Places, OneThread, Seen, OnDisk, Finishes, Target, Sure, StartFails, Waits,
     WriterDone
<1>2. HeaderTurns'
  BY DEF IInv, OneThread, HeaderTurns, StartFails, Waits, WriterDone
<1> QED
  BY <1>1, <1>2 DEF IInv

LEMMA InlineReturnsKeeps ==
  ASSUME IInv, InlineReturns
  PROVE  IInv'
<1>1. Typed' /\ Places' /\ Seen' /\ HeaderTurns' /\ OnDisk'
  BY DEF IInv, Typed, Places, Seen, HeaderTurns, OnDisk, InlineReturns, WriterDone
<1>2. OneThread'
  BY DEF IInv, Places, OneThread, InlineReturns, WriterDone
<1>3. Finishes'
  BY DEF IInv, Typed, OneThread, Finishes, Target, Sure, InlineReturns, WriterDone
<1> QED
  BY <1>1, <1>2, <1>3 DEF IInv
-----------------------------------------------------------------------------
(* The daemon, the kernel, crashes                                         *)

LEMMA AppendKeeps ==
  ASSUME IInv, Append
  PROVE  IInv'
<1>1. Typed' /\ Places' /\ OneThread' /\ Seen' /\ HeaderTurns' /\ OnDisk' /\ Finishes'
  BY DEF IInv, Typed, Places, OneThread, Seen, HeaderTurns, OnDisk, Finishes, Target, Sure,
     Append, WriterBegins
<1> QED
  BY <1>1 DEF IInv

LEMMA SyncKeeps ==
  ASSUME IInv, Sync
  PROVE  IInv'
<1>1. Typed' /\ Places' /\ OneThread' /\ Seen' /\ HeaderTurns' /\ OnDisk' /\ Finishes'
  BY DEF IInv, Typed, Places, OneThread, Seen, HeaderTurns, OnDisk, Finishes, Target, Sure, Sync,
     WriterBegins
<1> QED
  BY <1>1 DEF IInv

LEMMA RotateKeeps ==
  ASSUME IInv, Rotate
  PROVE  IInv'
<1>1. Typed' /\ Places' /\ OneThread' /\ Seen' /\ HeaderTurns' /\ OnDisk' /\ Finishes'
  BY DEF IInv, Typed, Places, OneThread, Seen, HeaderTurns, OnDisk, Finishes, Target, Sure,
     Rotate, WriterBegins
<1> QED
  BY <1>1 DEF IInv

LEMMA CloseKeeps ==
  ASSUME IInv, Close
  PROVE  IInv'
<1>1. Typed' /\ Places' /\ OneThread' /\ Seen' /\ HeaderTurns' /\ OnDisk' /\ Finishes'
  BY DEF IInv, Typed, Places, OneThread, Seen, HeaderTurns, OnDisk, Finishes, Target, Sure, Close,
     WriterBegins
<1> QED
  BY <1>1 DEF IInv

LEMMA WritebackKeeps ==
  ASSUME IInv, Writeback
  PROVE  IInv'
<1>1. Typed' /\ Places' /\ OneThread' /\ Seen' /\ HeaderTurns' /\ OnDisk' /\ Finishes'
  BY DEF IInv, Typed, Places, OneThread, Seen, HeaderTurns, OnDisk, Finishes, Target, Sure,
     Writeback
<1> QED
  BY <1>1 DEF IInv

LEMMA CrashKeeps ==
  ASSUME IInv, Crash
  PROVE  IInv'
<1>1. Typed' /\ Places' /\ OneThread' /\ Seen' /\ HeaderTurns' /\ OnDisk' /\ Finishes'
  BY DEF IInv, Typed, Places, OneThread, Seen, HeaderTurns, OnDisk, Finishes, Target, Sure, Crash
<1> QED
  BY <1>1 DEF IInv

LEMMA ReopenKeeps ==
  ASSUME IInv, Reopen
  PROVE  IInv'
<1>1. Typed' /\ Places' /\ OneThread' /\ Seen' /\ HeaderTurns' /\ OnDisk' /\ Finishes'
  BY DEF IInv, Typed, Places, OneThread, Seen, HeaderTurns, OnDisk, Finishes, Target, Sure, Reopen
<1> QED
  BY <1>1 DEF IInv
-----------------------------------------------------------------------------
LEMMA Initially ==
  ASSUME Init
  PROVE  IInv
BY DEF Init, IInv, Typed, Places, OneThread, Seen, HeaderTurns, OnDisk, Finishes, Sure, Target

LEMMA Inductive ==
  ASSUME IInv, [Next]_vars
  PROVE  IInv'
<1>1. CASE Thread
  BY <1>1, ThreadSwitchKeeps, ThreadFindsEndKeeps, ThreadTruncatesKeeps, ThreadSyncsKeeps,
     ThreadExchangesKeeps, ThreadMarksKeeps, ThreadSyncsHeaderKeeps, Zenon DEF Thread
<1>2. CASE Writer
  BY <1>2, OnlineSwitchKeeps, OnlineCancelsKeeps, OnlineJoinsKeeps, OnlineHeaderKeeps,
     OnlineSyncsKeeps, WriteObjectKeeps, OfflineBeginsKeeps, JoinOnlyKeeps, RestartSwitchKeeps,
     RestartExchangesKeeps, OfflineJoinsKeeps, StartKeeps, StartFailsKeeps, InlineReturnsKeeps, Zenon
     DEF Writer
<1>3. CASE UNCHANGED vars
  BY <1>3 DEF vars, IInv, Typed, Places, OneThread, Seen, HeaderTurns, OnDisk, Finishes, Sure, Target
<1> QED
  BY <1>1, <1>2, <1>3, AppendKeeps, SyncKeeps, RotateKeeps, CloseKeeps, WritebackKeeps, CrashKeeps,
     ReopenKeeps, Zenon DEF Next

LEMMA Always == Spec => []IInv
<1>1. Init => IInv
  BY Initially
<1>2. IInv /\ [Next]_vars => IInv'
  BY Inductive
<1> QED
  BY <1>1, <1>2, PTL DEF Spec

(* The thread changes the header only while the file is on its way         *)
(* offline, and journal_file_set_online() only when it cannot: however the *)
(* two exchange offline_state, and whenever the machine crashes.           *)
THEOREM HeaderHasOneWriterAlways == Spec => []HeaderHasOneWriter
<1>1. IInv => HeaderHasOneWriter
  BY DEF IInv, HeaderTurns, HeaderHasOneWriter
<1> QED
  BY <1>1, Always, PTL

(* managed_journal_file_close(): no thread uses a file that was closed,    *)
(* and on disk it is offline or, if it was rotated, archived.              *)
THEOREM ClosedIsCleanAlways == Spec => []ClosedIsClean
<1>1. IInv => ClosedIsClean
  BY DEF IInv, OneThread, OnDisk, Finishes, Target, ClosedIsClean
<1> QED
  BY <1>1, Always, PTL

(* A crash at any moment, of the writer or of the thread that runs         *)
(* journal_file_set_offline_internal(), leaves a file that says ONLINE     *)
(* unless all of its data is on disk.                                      *)
THEOREM CleanIsCompleteAlways == Spec => []CleanIsComplete
<1>1. IInv => CleanIsComplete
  BY DEF IInv, OnDisk, CleanIsComplete
<1> QED
  BY <1>1, Always, PTL

(* journal_file_set_offline_thread_join(): a thread is joined once, and    *)
(* none that does not exist.                                               *)
THEOREM JoinsOnceAlways == Spec => []JoinsOnce
<1>1. IInv => JoinsOnce
  BY DEF IInv, OneThread, Finishes, JoinsOnce
<1> QED
  BY <1>1, Always, PTL
-----------------------------------------------------------------------------
(* JournalDisk *)

LEMMA InitRefines ==
  ASSUME Init
  PROVE  Disk!Init
BY Zenon DEF Init, Disk!Init

(* Only fsync(), a write, write-back and a new start touch what is on disk.*)
LEMMA SyncRefines ==
  ASSUME IInv, ThreadSyncs \/ ThreadSyncsHeader \/ OnlineSyncs
  PROVE  Disk!Next
<1>1. hdr \in Disk!States
  BY DEF IInv, Typed, Disk!States
<1>2. dirty' = FALSE /\ diskHdr' = hdr
  BY DEF ThreadSyncs, ThreadSyncsHeader, OnlineSyncs, SyncAll
<1> QED
  BY Zenon, <1>1, <1>2 DEF Disk!Next, Disk!Fsync

LEMMA WriteRefines ==
  ASSUME IInv, WriteObject
  PROVE  Disk!Next
<1>1. diskHdr = "ONLINE"
  BY DEF IInv, HeaderTurns, OnDisk, WriteObject
<1>2. dirty' = TRUE /\ UNCHANGED diskHdr
  BY DEF WriteObject
<1> QED
  BY Zenon, <1>1, <1>2 DEF Disk!Next, Disk!Write

LEMMA WritebackRefines ==
  ASSUME IInv, Writeback
  PROVE  Disk!Next
<1>1. hdr \in Disk!States /\ (hdr # "ONLINE" => ~dirty)
  BY DEF IInv, Typed, OnDisk, Disk!States
<1>2. \/ dirty' = FALSE /\ UNCHANGED diskHdr
      \/ diskHdr' = hdr /\ UNCHANGED dirty
  BY DEF Writeback
<1> QED
  BY Zenon, <1>1, <1>2 DEF Disk!Next, Disk!Flush, Disk!Mark

LEMMA ReopenRefines ==
  ASSUME Reopen
  PROVE  Disk!Next
<1>1. diskHdr' = "ONLINE" /\ (dirty' = TRUE \/ UNCHANGED dirty)
  BY DEF Reopen
<1>2. "ONLINE" \in Disk!States
  BY DEF Disk!States
<1> QED
  BY Zenon, <1>1, <1>2 DEF Disk!Next, Disk!Replace, Disk!Mark

LEMMA ThreadRefines ==
  ASSUME IInv, Thread
  PROVE  Disk!Next \/ UNCHANGED <<diskHdr, dirty>>
<1>1. ThreadSwitch \/ ThreadFindsEnd \/ ThreadTruncates => UNCHANGED <<diskHdr, dirty>>
  BY DEF ThreadSwitch, ThreadFindsEnd, ThreadTruncates
<1>2. ThreadExchanges \/ ThreadMarks => UNCHANGED <<diskHdr, dirty>>
  BY DEF ThreadExchanges, ThreadMarks
<1> QED
  BY Zenon, <1>1, <1>2, SyncRefines DEF Thread

LEMMA WriterRefines ==
  ASSUME IInv, Writer
  PROVE  Disk!Next \/ UNCHANGED <<diskHdr, dirty>>
<1>1. OnlineSwitch \/ OnlineCancels \/ OnlineJoins \/ OnlineHeader => UNCHANGED <<diskHdr, dirty>>
  BY DEF OnlineSwitch, OnlineCancels, OnlineJoins, OnlineHeader, Joins
<1>2. OfflineBegins \/ JoinOnly \/ RestartSwitch \/ RestartExchanges => UNCHANGED <<diskHdr, dirty>>
  BY DEF OfflineBegins, JoinOnly, RestartSwitch, RestartExchanges
<1>3. OfflineJoins \/ Start \/ StartFails \/ InlineReturns => UNCHANGED <<diskHdr, dirty>>
  BY DEF OfflineJoins, Start, StartFails, InlineReturns
<1> QED
  BY Zenon, <1>1, <1>2, <1>3, SyncRefines, WriteRefines DEF Writer

LEMMA NextRefines ==
  ASSUME IInv, [Next]_vars
  PROVE  [Disk!Next]_(Disk!vars)
<1>1. Append \/ Sync \/ Rotate \/ Close \/ Crash => UNCHANGED <<diskHdr, dirty>>
  BY DEF Append, Sync, Rotate, Close, Crash, WriterBegins
<1>2. UNCHANGED vars => UNCHANGED <<diskHdr, dirty>>
  BY DEF vars
<1>3. Disk!Next \/ UNCHANGED <<diskHdr, dirty>>
  BY Zenon, <1>1, <1>2, ThreadRefines, WriterRefines, WritebackRefines, ReopenRefines DEF Next
<1> QED
  BY <1>3 DEF Disk!vars

(* Every step of the writer, the thread, the kernel and a new start is one *)
(* that JournalDisk allows: data reaches the file only while the header on *)
(* disk says ONLINE, and that changes only once the data is there.         *)
THEOREM JournalKeepsItsPromise == Spec => ImplementsJournalDisk
<1>1. Init => Disk!Init
  BY InitRefines
<1>2. IInv /\ [Next]_vars => [Disk!Next]_(Disk!vars)
  BY NextRefines
<1>3. Spec => Init /\ [][Next]_vars
  BY DEF Spec
<1>4. Init /\ [][Next]_vars /\ []IInv => Disk!Spec
  BY <1>1, <1>2, PTL DEF Disk!Spec
<1> QED
  BY <1>3, <1>4, Always, PTL DEF ImplementsJournalDisk

-----------------------------------------------------------------------------
(* Truncating *)

(* Only an archived file is truncated, and only the tag that closing adds  *)
(* to a sealed file is written into it meanwhile.                          *)
Uncut ==
  /\ tpc \in {"end", "truncate"} => archive
  /\ archive => life # "open"
  /\ op = "tag" => sealed
  /\ op = "append" => ~archive
  /\ grown \/ cut => sealed

LEMMA ThreadDoesNotCut ==
  ASSUME Uncut, Thread
  PROVE  Uncut'
<1>1. CASE ThreadSwitch
  BY <1>1 DEF Uncut, ThreadSwitch, ThreadReturns
<1>2. CASE ThreadFindsEnd
  BY <1>2 DEF Uncut, ThreadFindsEnd
<1>3. CASE ThreadTruncates
  BY <1>3 DEF Uncut, ThreadTruncates
<1>4. CASE ThreadSyncs \/ ThreadMarks \/ ThreadSyncsHeader
  BY <1>4 DEF Uncut, ThreadSyncs, ThreadMarks, ThreadSyncsHeader
<1>5. CASE ThreadExchanges
  BY <1>5 DEF Uncut, ThreadExchanges, ThreadReturns
<1> QED
  BY <1>1, <1>2, <1>3, <1>4, <1>5 DEF Thread

LEMMA WriterDoesNotCut ==
  ASSUME IInv, Uncut, Writer
  PROVE  Uncut'
<1>1. CASE OnlineSwitch \/ OnlineCancels \/ OnlineJoins \/ OnlineSyncs \/ OfflineBegins
  BY <1>1 DEF Uncut, OnlineSwitch, OnlineCancels, OnlineJoins, OnlineSyncs, OfflineBegins, Joins
<1>2. CASE OnlineHeader
  BY <1>2 DEF Uncut, OnlineHeader, WriterDone
<1>3. CASE WriteObject
  <2>1. op \in {"append", "tag"}
    BY <1>3 DEF IInv, Places, WriteObject
  <2> QED
    BY <1>3, <2>1 DEF Uncut, WriteObject, WriterDone
<1>4. CASE JoinOnly \/ StartFails \/ InlineReturns \/ OfflineJoins
  BY <1>4 DEF Uncut, JoinOnly, StartFails, InlineReturns, OfflineJoins, WriterDone
<1>5. CASE RestartSwitch
  BY <1>5 DEF Uncut, RestartSwitch, WriterDone
<1>6. CASE RestartExchanges
  BY <1>6 DEF Uncut, RestartExchanges, WriterDone
<1>7. CASE Start
  BY <1>7 DEF Uncut, Start, WriterDone
<1> QED
  BY <1>1, <1>2, <1>3, <1>4, <1>5, <1>6, <1>7 DEF Writer

LEMMA NothingIsCut ==
  ASSUME IInv, Uncut, [Next]_vars
  PROVE  Uncut'
<1>1. CASE Append \/ Sync \/ Rotate
  BY <1>1 DEF IInv, Places, Uncut, Append, Sync, Rotate, WriterBegins
<1>2. CASE Close
  BY <1>2 DEF Uncut, Close, WriterBegins
<1>3. CASE Writeback \/ Crash
  BY <1>3 DEF Uncut, Writeback, Crash
<1>4. CASE Reopen
  BY <1>4 DEF Uncut, Reopen
<1>5. CASE UNCHANGED vars
  BY <1>5 DEF Uncut, vars
<1> QED
  BY <1>1, <1>2, <1>3, <1>4, <1>5, ThreadDoesNotCut, WriterDoesNotCut DEF Next

(* managed_journal_file_truncate() removes no object of a file without     *)
(* sealing tags: nothing is appended between finding the end and cutting   *)
(* the file there.                                                         *)
THEOREM UnsealedIsNotCutAlways == Spec => []UnsealedIsNotCut
<1>1. Init => Uncut
  BY DEF Init, Uncut
<1>2. IInv /\ Uncut /\ [Next]_vars => Uncut'
  BY NothingIsCut
<1>3. Uncut => UnsealedIsNotCut
  BY DEF Uncut, UnsealedIsNotCut
<1> QED
  BY <1>1, <1>2, <1>3, Always, PTL DEF Spec
=============================================================================
