------------------------------ MODULE JobMerge ------------------------------
(***************************************************************************)
(* Merging the jobs that one transaction holds for one unit                *)
(* (transaction_merge_jobs): the types are folded together one by one, in  *)
(* the order of a linked list that depends on how the transaction was      *)
(* built.  The result must not depend on that order, nor on a type being   *)
(* listed twice.                                                           *)
(***************************************************************************)
EXTENDS JobType

VARIABLES
  state,   \* the unit's active state; fixed while the transaction is merged
  type,    \* the type merged so far, "none" once two types could not be merged
  seen     \* the types folded into it

foldVars == <<state, type, seen>>

FoldTypeOK ==
  /\ state \in UnitActiveState
  /\ type \in MergingTypes \cup {"none"}
  /\ seen \in SUBSET MergingTypes

FoldInit ==
  /\ state \in UnitActiveState
  /\ type \in MergingTypes
  /\ seen = {type}

\* One step of the loop over the unit's jobs.  After a failed merge the loop is left.
MergeNext(t) ==
  /\ type # "none"
  /\ type' = job_type_merge_and_collapse(type, t, state)
  /\ seen' = seen \cup {t}
  /\ UNCHANGED state

FoldNext == \E t \in MergingTypes : MergeNext(t)

FoldSpec == FoldInit /\ [][FoldNext]_foldVars

-----------------------------------------------------------------------------

\* What a set of requests for one unit amounts to, whatever their order: a stop
\* goes with nothing else, a restart includes everything else, a reload wins
\* over a start exactly when the unit is up, a verification is implied by all.
Merged(S, s) ==
  IF "stop" \in S THEN (IF S = {"stop"} THEN "stop" ELSE "none")
  ELSE IF "restart" \in S THEN "restart"
  ELSE IF "reload" \in S THEN
         (IF "start" \in S /\ ~UNIT_IS_ACTIVE_OR_RELOADING(s) THEN "start" ELSE "reload")
  ELSE IF "start" \in S THEN "start" ELSE "verify"

\* The folded type is a function of the set of types folded into it: the order of
\* the transaction's list and repetitions do not matter (the comment above
\* job_merging_table: merging is commutative and associative once collapsed).
OrderIrrelevant == type = Merged(seen, state)

\* delete_one_unmergeable_job looks only at pairs of the listed types, never at
\* the folded one: a failed fold means that two of the listed types conflict, so
\* there is always a pair for it to choose from (else it returns -EINVAL).
ConflictHasPair ==
  type = "none" => \E a, b \in seen : ~job_type_is_mergeable(a, b)
=============================================================================
