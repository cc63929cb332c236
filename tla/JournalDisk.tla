---------------------------- MODULE JournalDisk ----------------------------
(***************************************************************************)
(* What a journal file promises to whoever finds it after a crash: while   *)
(* it is incomplete on disk, its header on disk says ONLINE.               *)
(*                                                                         *)
(* Data is written only while the header on disk says ONLINE, and the      *)
(* header changes to OFFLINE or ARCHIVED only when no data is missing.     *)
(***************************************************************************)
VARIABLES
  state,    \* the state in the header, as it is on disk
  missing   \* some of the data written so far is not on disk

vars == <<state, missing>>

States == {"ONLINE", "OFFLINE", "ARCHIVED"}

Init == state = "ONLINE" /\ missing \in BOOLEAN

Write == /\ state = "ONLINE"
         /\ missing' = TRUE
         /\ UNCHANGED state

Mark(st) == /\ st # "ONLINE" => ~missing
            /\ state' = st
            /\ UNCHANGED missing

Flush == /\ missing' = FALSE
         /\ UNCHANGED state

(* fsync() brings data and header to disk together.                        *)
Fsync(st) == missing' = FALSE /\ state' = st

(* An unclean or archived file is moved out of the way.                    *)
Replace == state' = "ONLINE" /\ missing' \in BOOLEAN

Next == \/ Write \/ Flush \/ Replace
        \/ \E st \in States : Mark(st) \/ Fsync(st)

Spec == Init /\ [][Next]_vars
=============================================================================
