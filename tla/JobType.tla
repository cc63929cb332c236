------------------------------ MODULE JobType ------------------------------
(***************************************************************************)
(* The job types of the service manager and their algebra: the merging     *)
(* table, collapsing, redundancy and conflicts (core/job.c, core/job.h),   *)
(* and the execution order of two jobs (job_compare).  Pure operators; the *)
(* modules JobMerge, JobEngine and Transaction are built on them.          *)
(***************************************************************************)
EXTENDS Integers

UnitActiveState ==
  {"active", "reloading", "inactive", "failed", "activating",
   "deactivating", "maintenance"}

UNIT_IS_ACTIVE_OR_RELOADING(s)      == s \in {"active", "reloading"}
UNIT_IS_ACTIVE_OR_ACTIVATING(s)     == s \in {"active", "activating", "reloading"}
UNIT_IS_INACTIVE_OR_DEACTIVATING(s) == s \in {"inactive", "failed", "deactivating"}
UNIT_IS_INACTIVE_OR_FAILED(s)       == s \in {"inactive", "failed"}

\* enum JobType up to _JOB_TYPE_MAX_MERGING, and up to _JOB_TYPE_MAX_IN_TRANSACTION.
MergingTypes  == {"start", "verify", "stop", "reload", "restart"}
TransactionTypes == MergingTypes \cup {"nop"}

JobType == TransactionTypes \cup {"try-restart", "try-reload", "reload-or-start"}

JobResult ==
  {"done", "canceled", "timeout", "failed", "dependency", "skipped",
   "invalid", "assert", "unsupported", "collected", "once"}

-----------------------------------------------------------------------------

\* The value of an enum constant: its position in enum JobType.
Ord(t) == CASE t = "start"   -> 0
            [] t = "verify"  -> 1
            [] t = "stop"    -> 2
            [] t = "reload"  -> 3
            [] t = "restart" -> 4

\* The lower triangle of the symmetric table; "none" is the table's -1.
job_merging_table ==
  << "start",
     "none",            "none",
     "reload-or-start", "reload",  "none",
     "restart",         "restart", "none", "restart" >>

\* Mutant: the columns of the triangle are read one place too far left.
lookup_merge_shifted(a, b) ==
  IF a = b THEN a
  ELSE LET hi == IF Ord(a) < Ord(b) THEN Ord(b) ELSE Ord(a)
           lo == IF Ord(a) < Ord(b) THEN Ord(a) ELSE Ord(b)
       IN  job_merging_table[((hi - 1) * hi) \div 2 + (IF lo = 0 THEN 1 ELSE lo)]

job_type_lookup_merge(a, b) ==
  IF a = b THEN a
  ELSE LET hi == IF Ord(a) < Ord(b) THEN Ord(b) ELSE Ord(a)
           lo == IF Ord(a) < Ord(b) THEN Ord(a) ELSE Ord(b)
       IN  job_merging_table[((hi - 1) * hi) \div 2 + lo + 1]

job_type_is_mergeable(a, b) == job_type_lookup_merge(a, b) # "none"

job_type_is_conflicting(a, b) ==
  a # "nop" /\ b # "nop" /\ ~job_type_is_mergeable(a, b)

job_type_is_superset(a, b) ==
  b = "nop" \/ (a # "nop" /\ a = job_type_lookup_merge(a, b))

job_type_is_redundant(t, s) ==
  \/ t \in {"start", "verify"} /\ UNIT_IS_ACTIVE_OR_RELOADING(s)
  \/ t = "stop" /\ UNIT_IS_INACTIVE_OR_FAILED(s)
  \/ t = "nop"

job_type_collapse(t, s) ==
  CASE t = "try-restart"     -> IF UNIT_IS_ACTIVE_OR_ACTIVATING(s) THEN "restart" ELSE "nop"
    [] t = "try-reload"      -> IF UNIT_IS_ACTIVE_OR_RELOADING(s)  THEN "reload"  ELSE "nop"
    [] t = "reload-or-start" -> IF UNIT_IS_ACTIVE_OR_RELOADING(s)  THEN "reload"  ELSE "start"
    [] OTHER                 -> t

\* Mutant: the merged type is stored without collapsing it first.
merge_without_collapse(a, b, s) == job_type_lookup_merge(a, b)

\* Mutant: two types that merge into a third one are refused.
merge_only_superset(a, b, s) ==
  LET t == job_type_lookup_merge(a, b)
  IN  IF t \notin {a, b} THEN "none" ELSE job_type_collapse(t, s)

\* "none" is the -EEXIST return: the two types cannot be merged.
job_type_merge_and_collapse(a, b, s) ==
  LET t == job_type_lookup_merge(a, b)
  IN  IF t = "none" THEN "none" ELSE job_type_collapse(t, s)

-----------------------------------------------------------------------------

\* A job type that takes its unit down first: a restart is a stop until it is patched.
Stopping(t) == t \in {"stop", "restart"}

\* job_compare(a, b, UNIT_ATOM_BEFORE) for the jobs of two units, the first
\* ordered Before= the second: 1 if a runs after b, -1 if before, 0 if unordered.
\* A job is a record with (at least) the fields type and ignore_order.
job_compare(a, b) ==
  IF \/ a.type = "nop" \/ b.type = "nop"
     \/ a.ignore_order \/ b.ignore_order THEN 0
  ELSE IF Stopping(b.type) THEN 1 ELSE -1
=============================================================================
