----------------------------- MODULE JobProofs ------------------------------
(***************************************************************************)
(* The job engine never loses a wake-up and, when the order of the units   *)
(* has no cycle, never stalls; the algebra of job types and the fold of    *)
(* the types that a transaction holds for a unit; m->n_running_jobs is the *)
(* number of running jobs, through nested ends, merging, replacement,      *)
(* isolating, cancelling and daemon-reload; a reload that was asked for is *)
(* not reported as done by a job that began before; and the jobs that need *)
(* a unit that did not come up do not begin.                               *)
(***************************************************************************)
EXTENDS JobEngine, JobMerge, FiniteSetTheorems, WellFoundedInduction, TLAPS

-----------------------------------------------------------------------------
(* Sequences *)

LEMMA Elements ==
  ASSUME NEW S, NEW s \in Seq(S)
  PROVE  /\ Len(s) \in Nat /\ DOMAIN s = 1..Len(s)
         /\ \A i \in 1..Len(s) : s[i] \in S
         /\ s # <<>> => Len(s) > 0
OBVIOUS

LEMMA Concatenation ==
  ASSUME NEW S, NEW s \in Seq(S), NEW t \in Seq(S)
  PROVE  /\ s \o t \in Seq(S)
         /\ Len(s \o t) = Len(s) + Len(t)
         /\ \A i \in 1..Len(s) + Len(t) :
              (s \o t)[i] = IF i <= Len(s) THEN s[i] ELSE t[i - Len(s)]
OBVIOUS

LEMMA HeadAndTail ==
  ASSUME NEW S, NEW s \in Seq(S), s # <<>>
  PROVE  /\ Head(s) \in S /\ Head(s) = s[1]
         /\ Tail(s) \in Seq(S) /\ Len(Tail(s)) = Len(s) - 1
         /\ \A i \in 1..Len(s) - 1 : Tail(s)[i] = s[i + 1]
OBVIOUS

LEMMA EmptyConcat ==
  ASSUME NEW S, NEW s \in Seq(S)
  PROVE  <<>> \o s = s
OBVIOUS

-----------------------------------------------------------------------------
(* The call stack *)

LEMMA SingletonSeq ==
  ASSUME NEW f \in Frame
  PROVE  <<f>> \in Seq(Frame)
OBVIOUS

LEMMA EmptyFrames == <<>> \in Seq(Frame)
OBVIOUS

LEMMA FrameTypes ==
  ASSUME NEW u \in Units, NEW S \in SUBSET Units, NEW result
  PROVE  /\ FailFrame(u, S) \in Seq(Frame)
         /\ RequestFrame(u) \in Seq(Frame)
         /\ TailFrame(u) \in Seq(Frame)
         /\ OnFailureFrame(u, result) \in Seq(Frame)
<1>1. [op |-> "fail", unit |-> u, todo |-> S] \in Frame
  BY DEF Frame
<1>2. [op |-> "request", unit |-> u] \in Frame
  BY DEF Frame
<1>3. [op |-> "tail", unit |-> u] \in Frame
  BY DEF Frame
<1>4. FailFrame(u, S) \in Seq(Frame)
  BY <1>1, SingletonSeq, EmptyFrames DEF FailFrame
<1>5. RequestFrame(u) \in Seq(Frame)
  BY <1>2, SingletonSeq DEF RequestFrame
<1>6. TailFrame(u) \in Seq(Frame)
  BY <1>3, SingletonSeq DEF TailFrame
<1>7. OnFailureFrame(u, result) \in Seq(Frame)
  BY <1>5, EmptyFrames DEF OnFailureFrame
<1> QED
  BY <1>4, <1>5, <1>6, <1>7

LEMMA PendingConcat ==
  ASSUME NEW s \in Seq(Frame), NEW t \in Seq(Frame), NEW u \in Units
  PROVE  TailPending(s \o t, u) <=> TailPending(s, u) \/ TailPending(t, u)
<1>1. /\ DOMAIN s = 1..Len(s) /\ DOMAIN t = 1..Len(t)
      /\ DOMAIN (s \o t) = 1..(Len(s) + Len(t))
      /\ Len(s) \in Nat /\ Len(t) \in Nat
  BY Elements, Concatenation
<1>2. \A i \in 1..Len(s) : (s \o t)[i] = s[i]
  BY <1>1, Concatenation
<1>3. \A i \in 1..Len(t) : (s \o t)[Len(s) + i] = t[i]
  BY <1>1, Concatenation
<1>4. ASSUME NEW i \in 1..(Len(s) + Len(t)), i > Len(s)
      PROVE  i - Len(s) \in 1..Len(t) /\ (s \o t)[i] = t[i - Len(s)]
  BY <1>1, <1>4, Concatenation
<1>5. TailPending(s \o t, u) => TailPending(s, u) \/ TailPending(t, u)
  BY <1>1, <1>2, <1>4 DEF TailPending
<1>6. TailPending(s, u) => TailPending(s \o t, u)
  BY <1>1, <1>2 DEF TailPending
<1>7. ASSUME NEW i \in 1..Len(t), t[i].op = "tail", t[i].unit \in Neighbours(u)
      PROVE  TailPending(s \o t, u)
  <2>1. Len(s) + i \in DOMAIN (s \o t)
    BY <1>1
  <2> QED
    BY <2>1, <1>3, <1>7 DEF TailPending
<1>8. TailPending(t, u) => TailPending(s \o t, u)
  BY <1>1, <1>7 DEF TailPending
<1> QED
  BY <1>5, <1>6, <1>8

LEMMA PendingTail ==
  ASSUME NEW s \in Seq(Frame), s # <<>>, NEW u \in Units
  PROVE  TailPending(s, u) <=>
           \/ Head(s).op = "tail" /\ Head(s).unit \in Neighbours(u)
           \/ TailPending(Tail(s), u)
<1>1. /\ DOMAIN s = 1..Len(s) /\ Len(s) \in Nat /\ Len(s) > 0 /\ Head(s) = s[1]
      /\ DOMAIN Tail(s) = 1..(Len(s) - 1)
      /\ \A i \in 1..(Len(s) - 1) : Tail(s)[i] = s[i + 1]
  BY Elements, HeadAndTail
<1>2. ASSUME NEW i \in 1..Len(s), i # 1
      PROVE  i - 1 \in 1..(Len(s) - 1) /\ s[i] = Tail(s)[i - 1]
  BY <1>1, <1>2
<1>3. TailPending(s, u) => \/ Head(s).op = "tail" /\ Head(s).unit \in Neighbours(u)
                           \/ TailPending(Tail(s), u)
  BY Zenon, <1>1, <1>2 DEF TailPending
<1>4. TailPending(Tail(s), u) => TailPending(s, u)
  BY <1>1 DEF TailPending
<1>5. Head(s).op = "tail" /\ Head(s).unit \in Neighbours(u) => TailPending(s, u)
  BY <1>1 DEF TailPending
<1> QED
  BY <1>3, <1>4, <1>5

LEMMA PendingFrames ==
  ASSUME NEW u \in Units, NEW v \in Units, NEW S, NEW result
  PROVE  /\ TailPending(TailFrame(v), u) <=> v \in Neighbours(u)
         /\ ~TailPending(FailFrame(v, S), u)
         /\ ~TailPending(RequestFrame(v), u)
         /\ ~TailPending(OnFailureFrame(v, result), u)
         /\ ~TailPending(<<>>, u)
BY DEF TailPending, TailFrame, FailFrame, RequestFrame, OnFailureFrame

-----------------------------------------------------------------------------
(* Job types *)

\* The values of the enum constants, and the rows of the triangle they lead to.
LEMMA Ords ==
  /\ Ord("start") = 0 /\ Ord("verify") = 1 /\ Ord("stop") = 2
  /\ Ord("reload") = 3 /\ Ord("restart") = 4
BY DEF Ord

LEMMA Rows ==
  /\ ((1 - 1) * 1) \div 2 = 0 /\ ((2 - 1) * 2) \div 2 = 1
  /\ ((3 - 1) * 3) \div 2 = 3 /\ ((4 - 1) * 4) \div 2 = 6
OBVIOUS

LEMMA Entries ==
  /\ job_merging_table[1] = "start"           /\ job_merging_table[2] = "none"
  /\ job_merging_table[3] = "none"            /\ job_merging_table[4] = "reload-or-start"
  /\ job_merging_table[5] = "reload"          /\ job_merging_table[6] = "none"
  /\ job_merging_table[7] = "restart"         /\ job_merging_table[8] = "restart"
  /\ job_merging_table[9] = "none"            /\ job_merging_table[10] = "restart"
BY DEF job_merging_table

\* The merging table, read as a function: it is symmetric.
LEMMA MergeTable ==
  ASSUME NEW x \in MergingTypes, NEW y \in MergingTypes
  PROVE  job_type_lookup_merge(x, y) =
           IF x = y THEN x
           ELSE IF "stop" \in {x, y} THEN "none"
           ELSE IF "restart" \in {x, y} THEN "restart"
           ELSE IF "reload" \notin {x, y} THEN "start"
           ELSE IF "start" \in {x, y} THEN "reload-or-start" ELSE "reload"
<1>1. CASE x = "start"
  BY <1>1, Ords, Rows, Entries DEF MergingTypes, job_type_lookup_merge
<1>2. CASE x = "verify"
  BY <1>2, Ords, Rows, Entries DEF MergingTypes, job_type_lookup_merge
<1>3. CASE x = "stop"
  BY <1>3, Ords, Rows, Entries DEF MergingTypes, job_type_lookup_merge
<1>4. CASE x = "reload"
  BY <1>4, Ords, Rows, Entries DEF MergingTypes, job_type_lookup_merge
<1>5. CASE x = "restart"
  BY <1>5, Ords, Rows, Entries DEF MergingTypes, job_type_lookup_merge
<1> QED
  BY <1>1, <1>2, <1>3, <1>4, <1>5 DEF MergingTypes

\* Merging two types and collapsing the result, by cases on the unit's state.
LEMMA MergeAndCollapse ==
  ASSUME NEW x \in MergingTypes, NEW y \in MergingTypes, NEW s
  PROVE  job_type_merge_and_collapse(x, y, s) =
           IF x = y THEN x
           ELSE IF "stop" \in {x, y} THEN "none"
           ELSE IF "restart" \in {x, y} THEN "restart"
           ELSE IF "reload" \notin {x, y} THEN "start"
           ELSE IF "start" \in {x, y} /\ ~UNIT_IS_ACTIVE_OR_RELOADING(s)
                THEN "start" ELSE "reload"
<1>1. /\ job_type_collapse("reload-or-start", s) =
           IF UNIT_IS_ACTIVE_OR_RELOADING(s) THEN "reload" ELSE "start"
      /\ \A t \in MergingTypes : job_type_collapse(t, s) = t
  BY DEF job_type_collapse, MergingTypes
<1>2. job_type_lookup_merge(x, y) \in MergingTypes \cup {"reload-or-start", "none"}
  BY MergeTable DEF MergingTypes
<1> QED
  BY <1>1, <1>2, MergeTable DEF job_type_merge_and_collapse, MergingTypes

\* Of two types that do not conflict the merged one may be installed, and it takes
\* the unit down first if one of the two did.
LEMMA MergedType ==
  ASSUME NEW x \in MergingTypes, NEW y \in MergingTypes, NEW s,
         ~job_type_is_conflicting(x, y)
  PROVE  /\ job_type_merge_and_collapse(x, y, s) \in MergingTypes
         /\ Stopping(x) => Stopping(job_type_merge_and_collapse(x, y, s))
<1>1. job_type_lookup_merge(x, y) # "none"
  BY DEF job_type_is_conflicting, job_type_is_mergeable, MergingTypes
<1> QED
  BY <1>1, MergeTable, MergeAndCollapse DEF MergingTypes, Stopping

-----------------------------------------------------------------------------
(* Types.  The id that job_perform_on_unit() keeps names an installed job, and the
   call that will use it is the one that is in progress. *)

\* TypeOK but for the counter n_running, which stays an integer because it counts
\* (see RunningIsCounted).
Typed ==
  /\ ustate \in [Units -> UnitActiveState]
  /\ job \in [Units -> Job \cup {None}]
  /\ nop \subseteq Units
  /\ runq \subseteq Units
  /\ armed \subseteq Units
  /\ saved \in Units \cup {None}
  /\ stack \in Seq(Frame)
  /\ requests \in 0..MaxRequests
  /\ held \subseteq Units
  /\ unmet \subseteq Unmet
  /\ stale \subseteq Units

\* Every call that is to return to job_run_and_invalidate() is for u.
ReturnsTo(calls, u) ==
  \A i \in DOMAIN calls : calls[i].op = "return" => calls[i].unit = u

SavedOK == saved # None => job[saved] # None /\ ReturnsTo(stack, saved)

LEMMA ReturnsConcat ==
  ASSUME NEW s \in Seq(Frame), NEW t \in Seq(Frame), NEW u,
         ReturnsTo(s, u), ReturnsTo(t, u)
  PROVE  ReturnsTo(s \o t, u)
<1>1. /\ DOMAIN s = 1..Len(s) /\ DOMAIN t = 1..Len(t)
      /\ DOMAIN (s \o t) = 1..(Len(s) + Len(t))
      /\ Len(s) \in Nat /\ Len(t) \in Nat
  BY Elements, Concatenation
<1>2. \A i \in 1..Len(s) : (s \o t)[i] = s[i]
  BY <1>1, Concatenation
<1>3. ASSUME NEW i \in 1..(Len(s) + Len(t)), i > Len(s)
      PROVE  i - Len(s) \in 1..Len(t) /\ (s \o t)[i] = t[i - Len(s)]
  BY <1>1, <1>3, Concatenation
<1> QED
  BY <1>1, <1>2, <1>3 DEF ReturnsTo

LEMMA ReturnsTail ==
  ASSUME NEW s \in Seq(Frame), s # <<>>, NEW u, ReturnsTo(s, u)
  PROVE  /\ Head(s).op = "return" => Head(s).unit = u
         /\ ReturnsTo(Tail(s), u)
<1>1. /\ DOMAIN s = 1..Len(s) /\ Len(s) \in Nat /\ Len(s) > 0 /\ Head(s) = s[1]
      /\ DOMAIN Tail(s) = 1..(Len(s) - 1)
      /\ \A i \in 1..(Len(s) - 1) : Tail(s)[i] = s[i + 1]
  BY Elements, HeadAndTail
<1> QED
  BY <1>1 DEF ReturnsTo

LEMMA ReturnsFrames ==
  ASSUME NEW u, NEW v, NEW S, NEW result
  PROVE  /\ ReturnsTo(TailFrame(v), u)
         /\ ReturnsTo(FailFrame(v, S), u)
         /\ ReturnsTo(RequestFrame(v), u)
         /\ ReturnsTo(OnFailureFrame(v, result), u)
         /\ ReturnsTo(<<>>, u)
BY DEF ReturnsTo, TailFrame, FailFrame, RequestFrame, OnFailureFrame

LEMMA HeadFrame ==
  ASSUME Typed, stack # <<>>
  PROVE  /\ Head(stack) \in Frame /\ Tail(stack) \in Seq(Frame)
         /\ Head(stack).unit \in Units
         /\ Head(stack).op = "fail" => Head(stack).todo \in SUBSET Units
         /\ Head(stack).op = "return" => Head(stack).code \in Code
<1>1. Head(stack) \in Frame /\ Tail(stack) \in Seq(Frame)
  BY HeadAndTail DEF Typed
<1> QED
  BY <1>1 DEF Frame

LEMMA FailTargetsType ==
  ASSUME NEW u \in Units, NEW t, NEW result, NEW recursive
  PROVE  FailTargets(u, t, result, recursive) \in SUBSET Units
BY DEF FailTargets, PROPAGATE_START_FAILURE, PROPAGATE_STOP_FAILURE,
       PROPAGATE_INACTIVE_START_AS_FAILURE

LEMMA LostType ==
  ASSUME NEW newjob \in [Units -> Job \cup {None}], NEW S \in SUBSET Units,
         NEW result \in JobResult
  PROVE  Lost(S, result, newjob) \subseteq Unmet
<1> SUFFICES ASSUME NEW p \in Units \X S, newjob[p[1]] # None
             PROVE  [unit |-> p[1], needs |-> p[2], type |-> newjob[p[1]].type,
                     result |-> result] \in Unmet
  BY DEF Lost
<1>1. newjob[p[1]] \in Job
  OBVIOUS
<1> QED
  BY <1>1 DEF Unmet, Job

LEMMA FinishType ==
  ASSUME Typed, SavedOK,
         NEW u \in Units, NEW result \in JobResult, NEW recursive \in BOOLEAN,
         NEW rest \in Seq(Frame),
         result = "done" => job[u] # None,
         saved # None => ReturnsTo(rest, saved),
         job_finish_and_invalidate(u, result, recursive, rest)
  PROVE  Typed' /\ SavedOK'
<1>1. CASE PatchRestart(u, rest) /\ job[u] # None
  <2>1. job[u] \in Job
    BY <1>1 DEF Typed
  <2>2. stack' \in Seq(Frame)
    BY Zenon, <1>1, FrameTypes, Concatenation DEF PatchRestart
  <2> DEFINE j == [job[u] EXCEPT !.type = "start", !.state = "waiting"]
  <2>3. j \in Job
    BY Zenon, <2>1 DEF Job, MergingTypes
  <2>4. job' = [job EXCEPT ![u] = j]
    BY Zenon, <1>1, <2>1 DEF PatchRestart, Typed, Job
  <2> HIDE DEF j
  <2>5. /\ job' \in [Units -> Job \cup {None}] /\ job'[u] # None
        /\ \A v \in Units : v # u => job'[v] = job[v]
    BY <2>3, <2>4, UnitsAssumption DEF Typed
  <2>6. /\ ustate' = ustate /\ requests' = requests /\ nop' = nop /\ armed' = armed
        /\ unmet' = unmet /\ stale' = stale
        /\ runq' = runq \cup {u} /\ held' \subseteq held
        /\ saved' = None \/ saved' = saved
    BY <1>1 DEF PatchRestart, job_finish_and_invalidate
  <2>7. Typed'
    BY <2>2, <2>5, <2>6 DEF Typed
  <2>8. ASSUME saved' # None
        PROVE  job'[saved'] # None /\ ReturnsTo(stack', saved')
    <3>1. saved' = saved /\ saved \in Units
      BY <1>1, <2>8 DEF PatchRestart, Typed
    <3>2. ReturnsTo(stack', saved)
      BY ZenonT(60), <1>1, <2>8, <3>1, FrameTypes, ReturnsFrames, ReturnsConcat DEF PatchRestart
    <3> QED
      BY <2>5, <2>8, <3>1, <3>2 DEF SavedOK
  <2> QED
    BY <2>7, <2>8 DEF SavedOK
<1>2. CASE Uninstall(u, result, recursive, rest)
  <2> DEFINE F == FailFrame(u, FailTargets(u, job[u].type, result, recursive))
             O == OnFailureFrame(u, result)
  <2>1. F \in Seq(Frame) /\ O \in Seq(Frame) /\ TailFrame(u) \in Seq(Frame)
    BY FrameTypes, FailTargetsType
  <2>2. stack' = F \o O \o TailFrame(u) \o rest
    BY <1>2 DEF Uninstall
  <2> HIDE DEF F, O
  <2>3. stack' \in Seq(Frame)
    BY <2>1, <2>2, Concatenation
  <2>4. job' \in [Units -> Job \cup {None}] /\ job' = [job EXCEPT ![u] = None]
    BY Zenon, <1>2 DEF Uninstall, Typed
  <2>5. unmet' \subseteq Unmet
    BY ZenonT(60), <1>2, <2>4, LostType DEF Uninstall, Typed
  <2>6. /\ ustate' = ustate /\ requests' = requests /\ nop' = nop
        /\ runq' \subseteq runq /\ armed' \subseteq armed /\ held' \subseteq held
        /\ stale' \subseteq stale
        /\ saved' = None \/ (saved' = saved /\ saved # u)
    BY <1>2 DEF Uninstall, job_finish_and_invalidate
  <2>7. Typed'
    BY <2>3, <2>4, <2>5, <2>6 DEF Typed
  <2>8. ASSUME saved' # None
        PROVE  job'[saved'] # None /\ ReturnsTo(stack', saved')
    <3>1. saved' = saved /\ saved \in Units /\ saved # u
      BY <2>6, <2>8 DEF Typed
    <3>2. ReturnsTo(F, saved) /\ ReturnsTo(O, saved) /\ ReturnsTo(TailFrame(u), saved)
      BY ReturnsFrames DEF F, O
    <3>3. ReturnsTo(F \o O, saved) /\ F \o O \in Seq(Frame)
      BY Zenon, <2>1, <3>2, ReturnsConcat, Concatenation
    <3>4. /\ ReturnsTo(F \o O \o TailFrame(u), saved)
          /\ F \o O \o TailFrame(u) \in Seq(Frame)
      BY Zenon, <2>1, <3>2, <3>3, ReturnsConcat, Concatenation
    <3>5. ReturnsTo(stack', saved)
      BY Zenon, <2>2, <2>8, <3>1, <3>4, ReturnsConcat
    <3> QED
      BY <2>4, <2>8, <3>1, <3>5 DEF SavedOK, Typed
  <2> QED
    BY <2>7, <2>8 DEF SavedOK
<1> QED
  BY <1>1, <1>2 DEF job_finish_and_invalidate

\* What job_install() leaves in the slot: a job, and one that still stops its unit if
\* the one before was merged and did.
LEMMA InstallType ==
  ASSUME Typed, NEW tr \in Transactions, NEW u \in DOMAIN tr.jobs, tr.jobs[u] # "nop"
  PROVE  /\ job_install(tr, u) \in Job
         /\ job[u] # None /\ ~job_type_is_conflicting(job[u].type, tr.jobs[u]) =>
              /\ Stopping(job[u].type) => Stopping(job_install(tr, u).type)
              /\ job[u].ignore_order => job_install(tr, u).ignore_order
<1> DEFINE t == tr.jobs[u]
           n == job_new(tr, u)
           m == job_type_merge_and_collapse(job[u].type, t, ustate[u])
           j == job_merge_into_installed(job[u], n, ustate[u])
<1>1. u \in Units /\ t \in MergingTypes /\ tr.client \in BOOLEAN
  BY TransactionsAssumption DEF TransactionTypes, MergingTypes
<1>2. n \in Job /\ n.type = t
  BY <1>1 DEF job_new, Job
<1>3. CASE job[u] = None \/ job_type_is_conflicting(job[u].type, t)
  BY <1>2, <1>3 DEF job_install
<1>4. CASE ~(job[u] = None \/ job_type_is_conflicting(job[u].type, t))
  <2>1. job[u] \in Job
    BY Zenon, <1>1, <1>4 DEF Typed
  <2>2. m \in MergingTypes /\ (Stopping(job[u].type) => Stopping(m))
    BY Zenon, <1>1, <1>4, <2>1, MergedType DEF Job
  <2>3. /\ j = [job[u] EXCEPT !.type = m,
                              !.irreversible = job[u].irreversible \/ n.irreversible,
                              !.ignore_order = job[u].ignore_order \/ n.ignore_order,
                              !.ref = job[u].ref \/ n.ref]
    BY <1>2, <2>1 DEF job_merge_into_installed
  <2>4. n.irreversible \in BOOLEAN /\ n.ignore_order \in BOOLEAN /\ n.ref \in BOOLEAN
    BY <1>2 DEF Job
  <2> HIDE DEF n, m, j
  <2>5. j \in Job /\ j.type = m /\ (job[u].ignore_order => j.ignore_order)
    BY ZenonT(60), <2>1, <2>2, <2>3, <2>4 DEF Job
  <2>6. job_install(tr, u) \in {j, [j EXCEPT !.state = "waiting"]}
    BY <1>4 DEF job_install, n, j
  <2> QED
    BY Zenon, <2>2, <2>5, <2>6 DEF Job
<1> QED
  BY <1>3, <1>4

-----------------------------------------------------------------------------
(* How a step changes the jobs: no job begins to wait outside the run queue, and a
   job that others wait for stays such a job, or they are put into the queue. *)

Idle(u) == Waiting(u) /\ u \notin runq /\ u \notin held

Same(j, k) == j.type = k.type /\ j.ignore_order = k.ignore_order

Stays == \A u \in Units : Idle(u)' => Idle(u) /\ Same(job[u], job'[u])

Keeps(j, k) ==
  /\ k # None
  /\ Stopping(j.type) => Stopping(k.type)
  /\ j.ignore_order => k.ignore_order

Grows ==
  \A v \in Units : job[v] # None =>
    \/ Keeps(job[v], job'[v])
    \/ \A u \in Neighbours(v) : TailPending(stack', u) \/ ~Idle(u)'

Tails == \A u \in Units : TailPending(stack, u) => TailPending(stack', u) \/ ~Idle(u)'

LEMMA Apply ==
  ASSUME Typed, SavedOK, NEW tr \in Transactions, NEW rest \in Seq(Frame),
         saved # None => ReturnsTo(rest, saved),
         manager_add_job(tr, rest)
  PROVE  Typed' /\ SavedOK' /\ Stays /\ Grows
<1> DEFINE D == Kept(tr)
           J == {u \in D : tr.jobs[u] # "nop"}
           isolated(S) == IF tr.mode \in {"isolate", "flush"}
                          THEN (S \ D) \ IgnoreOnIsolate ELSE {}
           replaced == {u \in J : job[u] # None /\ job_type_is_conflicting(job[u].type, tr.jobs[u])}
           gone == isolated(Installed) \cup replaced
           queued == J \cup UNION {Neighbours(u) : u \in gone \cup isolated(nop)}
           down == {u \in gone : /\ job[u].type \in {"start", "verify"}
                                 /\ ~job[u].ignore_order
                                 /\ ~UNIT_IS_ACTIVE_OR_RELOADING(ustate[u])}
           lost == {v \in down : v \notin J \/ tr.jobs[v] = "stop"}
<1>1. /\ requests > 0 /\ requests' = requests - 1
      /\ job' = [u \in Units |-> IF u \in J THEN job_install(tr, u)
                                 ELSE IF u \in gone THEN None ELSE job[u]]
      /\ nop' = (nop \ isolated(nop)) \cup (D \ J)
      /\ runq' = {u \in runq \cup queued : job'[u] # None}
      /\ armed' = (armed \ gone) \cup (J \cap JobTimeout)
      /\ saved' = IF saved \in gone THEN None ELSE saved
      /\ stack' = rest
      /\ held' = {u \in held : job'[u] # None /\ u \notin queued}
      /\ unmet' = {x \in unmet : x.unit \notin gone /\ ~(x.needs \in J /\ tr.jobs[x.needs] # "stop")}
                  \cup Lost(lost, "canceled", job')
      /\ stale' = (stale \ gone) \cup
           {u \in J : tr.jobs[u] = "reload" /\ UNIT_IS_ACTIVE_OR_RELOADING(ustate[u])}
      /\ ustate' = ustate
  BY Zenon DEF manager_add_job
<1>3. D \subseteq Units /\ J \subseteq D /\ J \subseteq DOMAIN tr.jobs
  BY Zenon, TransactionsAssumption DEF Kept
<1>4. gone \subseteq Units /\ isolated(nop) \subseteq nop /\ \A u \in gone : job[u] # None
  BY Zenon, <1>3 DEF Installed
<1>5. \A u \in gone : \A v \in Neighbours(u) : v \in queued
  OBVIOUS
<1>6. queued \subseteq Units
  BY ZenonT(60), <1>3, <1>4 DEF Neighbours
<1>7. lost \in SUBSET Units
  BY Zenon, <1>4
<1>8. ASSUME NEW u \in J
      PROVE  /\ job_install(tr, u) \in Job
             /\ job[u] # None /\ u \notin gone =>
                  Keeps(job[u], job_install(tr, u))
  <2>1. tr.jobs[u] # "nop" /\ u \in DOMAIN tr.jobs
    BY Zenon, <1>3
  <2>2. job_install(tr, u) \in Job
    BY Zenon, <2>1, InstallType
  <2>3. job[u] # None /\ u \notin gone => ~job_type_is_conflicting(job[u].type, tr.jobs[u])
    BY Zenon
  <2> QED
    BY <2>1, <2>2, <2>3, InstallType, UnitsAssumption DEF Keeps
<1>9. J \subseteq queued
  BY Zenon
<1> HIDE DEF D, J, isolated, replaced, gone, queued, down, lost
<1>10. job' \in [Units -> Job \cup {None}]
  BY Zenon, <1>1, <1>8 DEF Typed
<1>11. \A u \in Units : /\ u \in J => job'[u] = job_install(tr, u) /\ job'[u] # None
                        /\ u \notin J => job'[u] = None \/ job'[u] = job[u]
                        /\ u \notin gone /\ u \notin J => job'[u] = job[u]
  BY Zenon, <1>1, <1>8, UnitsAssumption
<1>12. unmet' \subseteq Unmet
  BY Zenon, <1>1, <1>7, <1>10, LostType DEF Typed, JobResult
<1>13. Typed'
  <2>1. requests' \in 0..MaxRequests
    <3>1. requests > 0 /\ requests' = requests - 1 /\ requests \in 0..MaxRequests
      BY Zenon, <1>1 DEF Typed
    <3> QED
      BY <3>1, MaxRequestsAssumption
  <2> QED
    BY Zenon, <1>1, <1>3, <1>4, <1>6, <1>10, <1>12, <2>1 DEF Typed
<1>14. SavedOK'
  BY Zenon, <1>1, <1>11, UnitsAssumption DEF SavedOK, Typed
<1>15. Stays
  BY Zenon, <1>1, <1>9, <1>11 DEF Stays, Same, Idle, Waiting
<1>16. Grows
  <2> SUFFICES ASSUME NEW v \in Units, job[v] # None, ~Keeps(job[v], job'[v]),
                      NEW u \in Neighbours(v)
               PROVE  ~Idle(u)'
    BY Zenon DEF Grows
  <2>1. v \in gone
    BY Zenon, <1>8, <1>11 DEF Keeps
  <2>2. u \in queued
    BY <1>5, <2>1 DEF gone, queued
  <2> QED
    BY Zenon, <1>1, <2>2 DEF Idle, Waiting
<1> QED
  BY <1>13, <1>14, <1>15, <1>16

LEMMA NeighboursSymmetric ==
  ASSUME NEW u \in Units, NEW v \in Units, u \in Neighbours(v)
  PROVE  v \in Neighbours(u)
BY DEF Neighbours

LEMMA FinishWakes ==
  ASSUME Typed, NEW u \in Units, NEW result \in JobResult, NEW recursive \in BOOLEAN,
         NEW rest \in Seq(Frame), result = "done" => job[u] # None,
         job_finish_and_invalidate(u, result, recursive, rest)
  PROVE  Stays /\ Grows /\ \A x \in Units : TailPending(rest, x) => TailPending(stack', x)
<1>1. ASSUME NEW x \in Units, TailPending(rest, x) \/ x \in Neighbours(u)
      PROVE  TailPending(stack', x)
  <2>1. u \in Neighbours(x) => TailPending(TailFrame(u), x)
    BY PendingFrames
  <2>2. x \in Neighbours(u) => u \in Neighbours(x)
    BY NeighboursSymmetric
  <2>3. TailFrame(u) \in Seq(Frame)
    BY Zenon, FrameTypes
  <2>4. TailPending(TailFrame(u) \o rest, x)
    BY <1>1, <2>1, <2>2, <2>3, PendingConcat
  <2>5. CASE PatchRestart(u, rest)
    BY <2>4, <2>5 DEF PatchRestart
  <2>6. CASE Uninstall(u, result, recursive, rest)
    <3> DEFINE F == FailFrame(u, FailTargets(u, job[u].type, result, recursive))
               O == OnFailureFrame(u, result)
    <3>1. F \in Seq(Frame) /\ O \in Seq(Frame)
      BY Zenon, FrameTypes, FailTargetsType
    <3>2. stack' = F \o O \o TailFrame(u) \o rest
      BY <2>6 DEF Uninstall
    <3> HIDE DEF F, O
    <3>3. TailPending(F \o O \o TailFrame(u), x) <=> 
            TailPending(F \o O, x) \/ TailPending(TailFrame(u), x)
      BY Zenon, <2>3, <3>1, Concatenation, PendingConcat
    <3>4. F \o O \o TailFrame(u) \in Seq(Frame)
      BY <2>3, <3>1, Concatenation
    <3> QED
      BY Zenon, <1>1, <2>1, <2>2, <3>2, <3>3, <3>4, PendingConcat
  <2> QED
    BY Zenon, <2>5, <2>6 DEF job_finish_and_invalidate
<1>2. \A x \in Units : x # u => job'[x] = job[x]
  BY DEF job_finish_and_invalidate, PatchRestart, Uninstall, Typed
<1>3. /\ job'[u] = None \/ u \in runq'
      /\ runq \ {u} \subseteq runq' /\ held' = held \ {u}
  BY DEF job_finish_and_invalidate, PatchRestart, Uninstall, Typed
<1>4. Stays
  BY Zenon, <1>2, <1>3 DEF Stays, Same, Idle, Waiting
<1>5. Grows
  <2> SUFFICES ASSUME NEW v \in Units, job[v] # None
               PROVE  \/ Keeps(job[v], job'[v])
                      \/ \A x \in Neighbours(v) : TailPending(stack', x)
    BY DEF Grows
  <2>1. CASE v = u
    BY Zenon, <1>1, <2>1 DEF Neighbours
  <2>2. CASE v # u
    BY Zenon, <1>2, <2>2 DEF Keeps
  <2> QED
    BY Zenon, <2>1, <2>2
<1> QED
  BY Zenon, <1>1, <1>4, <1>5

-----------------------------------------------------------------------------
(* The inductive invariant and the general argument *)

IInv == Typed /\ SavedOK /\ NoLostWakeup

LEMMA CompareSign ==
  ASSUME NEW j \in Job, NEW k \in Job
  PROVE  /\ job_compare(j, k) < 0 <=>
              ~j.ignore_order /\ ~k.ignore_order /\ ~Stopping(k.type)
         /\ job_compare(j, k) > 0 <=>
              ~j.ignore_order /\ ~k.ignore_order /\ Stopping(k.type)
BY SMTT(60) DEF job_compare, Job, MergingTypes

LEMMA WakeupPreserved ==
  ASSUME Typed, Typed', NoLostWakeup, Stays, Grows, Tails
  PROVE  NoLostWakeup'
<1> SUFFICES ASSUME NEW u \in Units, Idle(u)'
             PROVE  /\ ~job'[u].ignore_order
                    /\ \/ \E v \in Neighbours(u) : job'[v] # None /\ (Blocks(v, u)' \/ job'[v].ignore_order)
                       \/ TailPending(stack', u)
  BY DEF NoLostWakeup, Idle
<1>1. Idle(u) /\ Same(job[u], job'[u]) /\ job'[u] # None
  BY Zenon DEF Stays, Idle, Waiting
<1>2. /\ ~job[u].ignore_order
      /\ \/ \E v \in Neighbours(u) : job[v] # None /\ (Blocks(v, u) \/ job[v].ignore_order)
         \/ TailPending(stack, u)
  BY Zenon, <1>1 DEF NoLostWakeup, Idle
<1>3. CASE TailPending(stack, u)
  BY Zenon, <1>1, <1>2, <1>3 DEF Tails, Same
<1>4. ASSUME NEW v \in Neighbours(u), job[v] # None, Blocks(v, u) \/ job[v].ignore_order,
             ~TailPending(stack', u)
      PROVE  job'[v] # None /\ (Blocks(v, u)' \/ job'[v].ignore_order)
  <2>1. v \in Units /\ u \in Neighbours(v)
    BY Zenon, NeighboursSymmetric DEF Neighbours
  <2>2. Keeps(job[v], job'[v])
    BY Zenon, <1>4, <2>1 DEF Grows
  <2>3. /\ job[u] \in Job /\ job[v] \in Job /\ job'[v] \in Job
        /\ job'[u] # None
    BY Zenon, <1>1, <1>4, <2>1, <2>2 DEF Typed, Keeps, Idle, Waiting
  <2>4. CASE job[v].ignore_order
    BY Zenon, <2>2, <2>4 DEF Keeps
  <2>5. CASE Blocks(v, u) /\ ~job'[v].ignore_order
    <3>1. job'[u] \in Job
      BY Zenon, <2>3 DEF Typed
    <3>2. /\ ~job'[u].ignore_order /\ ~job'[v].ignore_order
          /\ Stopping(job'[u].type) = Stopping(job[u].type)
          /\ Stopping(job[v].type) => Stopping(job'[v].type)
      BY Zenon, <1>1, <1>2, <2>2, <2>5 DEF Keeps, Same
    <3>3. \/ <<v, u>> \in Before /\ ~Stopping(job[u].type)
          \/ <<u, v>> \in Before /\ Stopping(job[v].type)
      BY Zenon, <2>3, <2>5, CompareSign DEF Blocks
    <3>4. \/ <<v, u>> \in Before /\ job_compare(job'[v], job'[u]) < 0
          \/ <<u, v>> \in Before /\ job_compare(job'[u], job'[v]) > 0
      BY Zenon, <2>3, <3>1, <3>2, <3>3, CompareSign
    <3> QED
      BY Zenon, <2>2, <2>3, <3>4 DEF Blocks, Keeps
  <2> QED
    BY Zenon, <1>4, <2>2, <2>4, <2>5 DEF Keeps
<1> QED
  BY Zenon, <1>1, <1>2, <1>3, <1>4 DEF Same

LEMMA Unchanged ==
  ASSUME job' = job, runq \subseteq runq', held \subseteq held' \cup runq'
  PROVE  Stays /\ Grows
<1>1. Stays
  BY DEF Stays, Same, Idle, Waiting
<1>2. Grows
  BY DEF Grows, Keeps
<1> QED
  BY Zenon, <1>1, <1>2

LEMMA NothingPending ==
  ASSUME stack = <<>>
  PROVE  Tails
BY Zenon, PendingFrames DEF Tails

LEMMA PoppedPending ==
  ASSUME Typed, stack # <<>>, Head(stack).op # "tail",
         \A u \in Units : TailPending(Tail(stack), u) => TailPending(stack', u)
  PROVE  Tails
BY PendingTail DEF Tails, Typed

-----------------------------------------------------------------------------
(* One lemma for each action *)

LEMMA InitHolds == Init => IInv
<1> SUFFICES ASSUME Init PROVE IInv
  OBVIOUS
<1>1. Typed
  BY SMTT(60), MaxRequestsAssumption, EmptyFrames DEF Init, Typed, UnitActiveState
<1>2. SavedOK
  BY DEF Init, SavedOK
<1>3. NoLostWakeup
  BY DEF Init, NoLostWakeup, Waiting
<1> QED
  BY Zenon, <1>1, <1>2, <1>3 DEF IInv

LEMMA AddJobStep ==
  ASSUME IInv, AddJob
  PROVE  IInv'
<1>1. PICK tr \in Transactions : manager_add_job(tr, <<>>)
  BY DEF AddJob
<1>2. Typed' /\ SavedOK' /\ Stays /\ Grows
  BY ZenonT(60), <1>1, Apply, EmptyFrames, ReturnsFrames DEF IInv
<1>3. Tails
  BY NothingPending DEF AddJob
<1> QED
  BY Zenon, <1>2, <1>3, WakeupPreserved DEF IInv

LEMMA RequestMoreStep ==
  ASSUME IInv, RequestMore
  PROVE  IInv'
<1>1. PICK tr \in Transactions : manager_add_job(tr, stack)
  BY DEF RequestMore
<1>2. Typed' /\ SavedOK' /\ Stays /\ Grows
  BY <1>1, Apply DEF IInv, Typed, SavedOK
<1>3. Tails
  BY Zenon, <1>1 DEF Tails, manager_add_job
<1> QED
  BY <1>2, <1>3, WakeupPreserved DEF IInv

\* The events that finish a job: a timer, a cancellation, collection.
LEMMA FinishEventStep ==
  ASSUME IInv, stack = <<>>, NEW u \in Units, NEW recursive \in BOOLEAN,
         NEW result \in {"timeout", "canceled", "collected"},
         job_finish_and_invalidate(u, result, recursive, <<>>)
  PROVE  IInv'
<1>1. result \in JobResult /\ result # "done"
  BY DEF JobResult
<1>2. Typed' /\ SavedOK'
  BY Zenon, <1>1, FinishType, EmptyFrames, ReturnsFrames DEF IInv
<1>3. Stays /\ Grows
  BY ZenonT(60), <1>1, FinishWakes, EmptyFrames DEF IInv
<1>4. Tails
  BY NothingPending
<1> QED
  BY Zenon, <1>2, <1>3, <1>4, WakeupPreserved DEF IInv

LEMMA FinishNopStep ==
  ASSUME IInv, NEW u \in Units, NEW result, FinishNop(u, result)
  PROVE  IInv'
<1>1. stack' \in Seq(Frame) /\ \A v : ReturnsTo(stack', v)
  BY Zenon, FrameTypes, Concatenation, ReturnsFrames, ReturnsConcat DEF FinishNop
<1>2. Typed'
  BY <1>1 DEF IInv, Typed, FinishNop
<1>3. SavedOK'
  BY <1>1 DEF IInv, SavedOK, FinishNop
<1>4. Stays /\ Grows
  BY Unchanged DEF FinishNop
<1>5. Tails
  BY NothingPending DEF FinishNop
<1> QED
  BY <1>2, <1>3, <1>4, <1>5, WakeupPreserved DEF IInv

LEMMA SkipJobStep ==
  ASSUME IInv, NEW u \in Units, SkipJob(u)
  PROVE  IInv'
<1>1. Typed' /\ SavedOK'
  BY DEF IInv, Typed, SavedOK, SkipJob
<1>2. ASSUME NEW x \in Units, Idle(x)'
      PROVE  /\ ~job[x].ignore_order
             /\ \/ \E v \in Neighbours(x) : job[v] # None /\ (Blocks(v, x) \/ job[v].ignore_order)
                \/ TailPending(stack, x)
  <2>1. CASE x = u
    <3>1. ~job_is_runnable(u)
      BY Zenon, <1>2, <2>1 DEF SkipJob, Idle, Waiting
    <3>2. PICK v \in Units : Blocks(v, u) /\ ~job[u].ignore_order
      BY Zenon, <3>1 DEF job_is_runnable
    <3>3. v \in Neighbours(u) /\ job[v] # None
      BY Zenon, <3>2 DEF Blocks, Neighbours
    <3> QED
      BY Zenon, <2>1, <3>2, <3>3
  <2>2. CASE x # u
    BY Zenon, <1>2, <2>2 DEF IInv, NoLostWakeup, Idle, Waiting, SkipJob
  <2> QED
    BY Zenon, <2>1, <2>2
<1>3. NoLostWakeup'
  BY Zenon, <1>2 DEF NoLostWakeup, Idle, SkipJob, Blocks, Waiting
<1> QED
  BY Zenon, <1>1, <1>3 DEF IInv

LEMMA ThrottleEndsStep ==
  ASSUME IInv, ThrottleEnds
  PROVE  IInv'
<1>1. Typed' /\ SavedOK'
  BY DEF IInv, Typed, SavedOK, ThrottleEnds, Installed
<1>2. Stays
  BY DEF Stays, Same, Idle, Waiting, ThrottleEnds, Installed
<1>3. Grows
  BY DEF Grows, Keeps, ThrottleEnds
<1>4. Tails
  BY NothingPending DEF ThrottleEnds
<1> QED
  BY Zenon, <1>1, <1>2, <1>3, <1>4, WakeupPreserved DEF IInv

\* What the operations of a unit type may answer.
Answer == [ns : UnitActiveState, notify : BOOLEAN, reload_failure : BOOLEAN, code : Code]

LEMMA AnswerTypes ==
  ASSUME Typed, NEW u \in Units
  PROVE  job_perform_on_unit(u) \subseteq Answer
<1>1. ASSUME NEW C \in SUBSET Code PROVE Silently(u, C) \subseteq Answer
  <2> SUFFICES ASSUME NEW c \in C
               PROVE  [ns |-> ustate[u], notify |-> FALSE, reload_failure |-> FALSE,
                       code |-> c] \in Answer
    BY DEF Silently
  <2>1. ustate[u] \in UnitActiveState /\ c \in Code
    BY Zenon, <1>1 DEF Typed
  <2> QED
    BY Zenon, <2>1 DEF Answer
<1>2. ASSUME NEW C \in SUBSET Code, NEW S \in SUBSET UnitActiveState
      PROVE  Reporting(S, C) \subseteq Answer
  <2> SUFFICES ASSUME NEW s \in S, NEW c \in C
               PROVE  [ns |-> s, notify |-> TRUE, reload_failure |-> FALSE,
                       code |-> c] \in Answer
    BY DEF Reporting
  <2>1. s \in UnitActiveState /\ c \in Code
    BY Zenon, <1>2
  <2> QED
    BY Zenon, <2>1 DEF Answer
<1>3. TypeStart(u) \subseteq Answer
  BY Zenon, <1>1, <1>2 DEF TypeStart, Code, UnitActiveState
<1>4. unit_start(u) \subseteq Answer
  <2>1. Silently(u, {"EIO", "ESTALE", "EOPNOTSUPP"}
                    \cup (IF ustate[u] # "activating" THEN {"ECOMM", "EPROTO"} ELSE {})) \subseteq Answer
    BY <1>1 DEF Code
  <2>2. /\ Silently(u, {"EAGAIN"}) \subseteq Answer /\ Silently(u, {"EALREADY"}) \subseteq Answer
        /\ Silently(u, {"ENOLINK"}) \subseteq Answer
    BY Zenon, <1>1 DEF Code
  <2> QED
    BY Zenon, <1>3, <2>1, <2>2 DEF unit_start
<1>5. unit_stop(u) \subseteq Answer
  BY <1>1, <1>2 DEF unit_stop, Code, UnitActiveState
<1>6. unit_reload(u) \subseteq Answer
  <2>1. /\ Silently(u, {"EIO", "EBADR"}) \subseteq Answer
        /\ Silently(u, {"EAGAIN"}) \subseteq Answer /\ Silently(u, {"ENOEXEC"}) \subseteq Answer
    BY <1>1 DEF Code
  <2>2. Reporting({"active", "reloading", "deactivating"}, {"ok"}) \subseteq Answer
    BY <1>2 DEF Code, UnitActiveState
  <2>3. [ns |-> "active", notify |-> TRUE, reload_failure |-> TRUE, code |-> "ok"] \in Answer
    BY DEF Answer, Code, UnitActiveState
  <2> QED
    BY Zenon, <2>1, <2>2, <2>3 DEF unit_reload
<1>7. verify_active(u) \subseteq Answer
  BY <1>1 DEF verify_active, Code
<1> QED
  BY Zenon, <1>4, <1>5, <1>6, <1>7 DEF job_perform_on_unit

LEMMA EnterType ==
  ASSUME Typed, NEW u \in Units, NEW ns \in StatesOf[u], Enter(u, ns)
  PROVE  ustate' \in [Units -> UnitActiveState] /\ unmet' \subseteq Unmet
BY ZenonT(60), StatesOfAssumption DEF Typed, Enter

LEMMA NotifyFrameType ==
  ASSUME Typed, NEW u \in Units, NEW f \in BOOLEAN
  PROVE  /\ NotifyFrame(u, f) \in Frame
         /\ <<NotifyFrame(u, f)>> \in Seq(Frame)
         /\ \A v : ReturnsTo(<<NotifyFrame(u, f)>>, v)
<1>1. NotifyFrame(u, f) \in Frame
  BY DEF Typed, NotifyFrame, Frame
<1>2. \A v : ReturnsTo(<<NotifyFrame(u, f)>>, v)
  BY DEF ReturnsTo, NotifyFrame
<1> QED
  BY Zenon, <1>1, <1>2, SingletonSeq

LEMMA RunJobStep ==
  ASSUME IInv, NEW u \in Units, RunJob(u)
  PROVE  IInv'
<1>1. PICK a \in job_perform_on_unit(u) :
        /\ a.ns \in StatesOf[u]
        /\ Enter(u, a.ns)
        /\ stale' \subseteq stale
        /\ stack' = (IF a.notify THEN <<NotifyFrame(u, a.reload_failure)>> ELSE <<>>)
                    \o <<[op |-> "return", unit |-> u, code |-> a.code]>>
  BY ZenonT(60) DEF RunJob
<1>2. Typed /\ stack = <<>> /\ job[u] \in Job
  BY DEF IInv, RunJob, Waiting, Typed
<1>3. a.reload_failure \in BOOLEAN /\ a.code \in Code
  BY <1>2, AnswerTypes DEF Answer
<1> DEFINE N == IF a.notify THEN <<NotifyFrame(u, a.reload_failure)>> ELSE <<>>
           R == <<[op |-> "return", unit |-> u, code |-> a.code]>>
           j == [job[u] EXCEPT !.state = "running", !.ran = TRUE]
<1>4. N \in Seq(Frame) /\ ReturnsTo(N, u)
  BY Zenon, <1>2, <1>3, NotifyFrameType, EmptyFrames, ReturnsFrames
<1>5. R \in Seq(Frame) /\ ReturnsTo(R, u)
  <2>1. [op |-> "return", unit |-> u, code |-> a.code] \in Frame
    BY <1>3 DEF Frame
  <2>2. ReturnsTo(R, u)
    BY DEF ReturnsTo
  <2> QED
    BY Zenon, <2>1, <2>2, SingletonSeq
<1>6. j \in Job
  BY Zenon, <1>2 DEF Job
<1>7. job' = [job EXCEPT ![u] = j]
  BY ZenonT(60), <1>2 DEF RunJob, Typed, Job
<1>8. j.type = job[u].type /\ j.ignore_order = job[u].ignore_order /\ j.state = "running"
  BY <1>2 DEF Job
<1>9. stack' = N \o R
  BY Zenon, <1>1
<1> HIDE DEF N, R, j
<1>10. stack' \in Seq(Frame) /\ ReturnsTo(stack', u)
  BY Zenon, <1>4, <1>5, <1>9, Concatenation, ReturnsConcat
<1>11. job' \in [Units -> Job \cup {None}] /\ job'[u] = j /\ j # None
  BY Zenon, <1>2, <1>6, <1>7, UnitsAssumption DEF Typed
<1>12. /\ runq' = runq \ {u} /\ saved' = u
       /\ armed' \subseteq armed \cup {u} /\ nop' = nop /\ held' = held /\ requests' = requests
  BY Zenon DEF RunJob
<1>13. Typed'
  <2>1. ustate' \in [Units -> UnitActiveState] /\ unmet' \subseteq Unmet
    BY <1>1, <1>2, EnterType
  <2> QED
    BY Zenon, <1>1, <1>2, <1>10, <1>11, <1>12, <2>1 DEF Typed
<1>14. SavedOK'
  BY Zenon, <1>10, <1>11, <1>12 DEF SavedOK
<1>15. Stays
  BY Zenon, <1>2, <1>7, <1>8, <1>11, <1>12 DEF Stays, Same, Idle, Waiting, Typed
<1>16. Grows
  BY Zenon, <1>2, <1>7, <1>8, <1>11 DEF Grows, Keeps, Typed
<1>17. Tails
  BY Zenon, <1>2, NothingPending
<1> QED
  BY Zenon, <1>2, <1>13, <1>14, <1>15, <1>16, <1>17, WakeupPreserved DEF IInv

LEMMA UnitChangesStep ==
  ASSUME IInv, NEW u \in Units, NEW ns \in StatesOf[u], NEW f \in BOOLEAN,
         UnitChanges(u, ns, f)
  PROVE  IInv'
<1>1. stack' \in Seq(Frame) /\ \A v : ReturnsTo(stack', v)
  BY Zenon, NotifyFrameType DEF IInv, UnitChanges
<1>2. ustate' \in [Units -> UnitActiveState] /\ unmet' \subseteq Unmet
  BY Zenon, EnterType DEF IInv, UnitChanges
<1>3. /\ job' = job /\ nop' = nop /\ runq' = runq /\ armed' = armed /\ n_running' = n_running
      /\ saved' = saved /\ held' = held /\ requests' = requests /\ stale' \subseteq stale
  BY Zenon DEF UnitChanges
<1>4. Typed'
  BY Zenon, <1>1, <1>2, <1>3 DEF IInv, Typed
<1>5. SavedOK'
  BY Zenon, <1>1, <1>3 DEF IInv, SavedOK
<1>6. Stays /\ Grows
  BY Zenon, <1>3, Unchanged
<1>7. Tails
  BY NothingPending DEF UnitChanges
<1> QED
  BY Zenon, <1>4, <1>5, <1>6, <1>7, WakeupPreserved DEF IInv

LEMMA TrackHandlerStep ==
  ASSUME IInv, NEW u \in Units, bus_job_track_handler(u)
  PROVE  IInv'
<1> DEFINE j == [job[u] EXCEPT !.ref = FALSE]
<1>1. job[u] \in Job
  BY DEF IInv, Typed, bus_job_track_handler
<1>2. /\ j \in Job /\ j.type = job[u].type /\ j.ignore_order = job[u].ignore_order
      /\ j.state = job[u].state
  BY ZenonT(60), <1>1 DEF Job
<1>3. job' = [job EXCEPT ![u] = j]
  BY <1>1 DEF bus_job_track_handler, IInv, Typed, Job
<1>4. /\ UNCHANGED <<ustate, nop, runq, armed, n_running, saved, stack, held, unmet, stale, requests>>
      /\ stack = <<>> /\ job[u] # None
  BY DEF bus_job_track_handler
<1> HIDE DEF j
<1>5. /\ job' \in [Units -> Job \cup {None}] /\ job'[u] = j /\ j # None
      /\ \A v \in Units : v # u => job'[v] = job[v]
  BY Zenon, <1>2, <1>3, UnitsAssumption DEF IInv, Typed
<1>6. Typed'
  BY <1>4, <1>5 DEF IInv, Typed
<1>7. SavedOK'
  BY <1>4, <1>5 DEF IInv, SavedOK, Typed
<1>8. Stays
  BY Zenon, <1>2, <1>4, <1>5 DEF Stays, Same, Idle, Waiting
<1>9. Grows
  BY Zenon, <1>2, <1>4, <1>5 DEF Grows, Keeps
<1>10. Tails
  BY <1>4, NothingPending
<1> QED
  BY Zenon, <1>6, <1>7, <1>8, <1>9, <1>10, WakeupPreserved DEF IInv

LEMMA ClearJobsStep ==
  ASSUME IInv, manager_clear_jobs
  PROVE  IInv'
<1>2. Typed'
  BY DEF manager_clear_jobs, IInv, Typed
<1>3. SavedOK'
  BY DEF manager_clear_jobs, SavedOK
<1>4. \A u \in Units : ~Idle(u)'
  BY DEF manager_clear_jobs, Idle, Waiting
<1>5. NoLostWakeup'
  BY <1>4 DEF NoLostWakeup, Idle
<1> QED
  BY Zenon, <1>2, <1>3, <1>5 DEF IInv

LEMMA ReloadStep ==
  ASSUME IInv, manager_reload
  PROVE  IInv'
<1>1. PICK S \in SUBSET Installed :
        job' = [u \in Units |-> IF u \in S THEN [job[u] EXCEPT !.ref = FALSE] ELSE job[u]]
  BY Zenon DEF manager_reload
<1>2. ASSUME NEW u \in S
      PROVE  /\ job[u] \in Job
             /\ [job[u] EXCEPT !.ref = FALSE] \in Job
             /\ [job[u] EXCEPT !.ref = FALSE].state = job[u].state
  <2>1. job[u] \in Job
    BY DEF Installed, IInv, Typed
  <2> QED
    BY Zenon, <2>1 DEF Job
<1>3. S \subseteq Units
  BY DEF Installed
<1>4. job' \in [Units -> Job \cup {None}]
  BY <1>1, <1>2 DEF IInv, Typed
<1>5. \A u \in Units : /\ Waiting(u)' => Waiting(u)
                       /\ job[u] # None => job'[u] # None
  BY Zenon, <1>1, <1>2, <1>4, UnitsAssumption DEF Waiting
<1>7. Typed'
  BY <1>4 DEF manager_reload, ColdplugTimers, IInv, Typed, Installed
<1>8. SavedOK'
  BY <1>5 DEF manager_reload, SavedOK, IInv, Typed
<1>9. \A u \in Units : ~Idle(u)'
  BY <1>5 DEF manager_reload, Idle
<1>10. NoLostWakeup'
  BY <1>9 DEF NoLostWakeup, Idle
<1> QED
  BY <1>7, <1>8, <1>10 DEF IInv

LEMMA RequestNoMoreStep ==
  ASSUME IInv, RequestNoMore
  PROVE  IInv'
<1>1. Tail(stack) \in Seq(Frame) /\ Typed
  BY Zenon, HeadFrame DEF IInv, RequestNoMore
<1>2. Typed'
  BY Zenon, <1>1 DEF RequestNoMore, engine, Typed
<1>3. SavedOK'
  BY Zenon, <1>1, ReturnsTail DEF RequestNoMore, engine, SavedOK, IInv, Typed
<1>4. Stays /\ Grows
  BY Unchanged DEF RequestNoMore, engine
<1>5. Tails
  BY <1>1, PoppedPending DEF RequestNoMore
<1> QED
  BY Zenon, <1>1, <1>2, <1>3, <1>4, <1>5, WakeupPreserved DEF IInv

LEMMA QueueNeighboursStep ==
  ASSUME IInv, QueueNeighbours
  PROVE  IInv'
<1> DEFINE w == Head(stack).unit
           S == Neighbours(w) \cap Installed
<1>1. Tail(stack) \in Seq(Frame) /\ Typed /\ w \in Units /\ stack # <<>>
  BY Zenon, HeadFrame DEF IInv, QueueNeighbours
<1>2. /\ runq' = runq \cup S /\ held' = held \ S /\ stack' = Tail(stack)
      /\ UNCHANGED <<ustate, job, nop, armed, n_running, saved, unmet, stale, requests>>
  BY DEF QueueNeighbours
<1>3. S \subseteq Units
  BY Zenon DEF Neighbours
<1>4. Typed'
  BY Zenon, <1>1, <1>2, <1>3 DEF Typed
<1>5. SavedOK'
  BY Zenon, <1>1, <1>2, ReturnsTail DEF SavedOK, IInv, Typed
<1>6. job' = job /\ runq \subseteq runq' /\ held \subseteq held' \cup runq'
  BY <1>2
<1>7. Stays /\ Grows
  BY Zenon, <1>6, Unchanged
<1>8. Tails
  <2> SUFFICES ASSUME NEW u \in Units, TailPending(stack, u), ~TailPending(Tail(stack), u)
               PROVE  ~Idle(u)'
    BY Zenon, <1>2 DEF Tails
  <2>1. w \in Neighbours(u)
    BY Zenon, <1>1, PendingTail DEF Typed
  <2>2. u \in Neighbours(w)
    BY Zenon, <1>1, <2>1, NeighboursSymmetric
  <2> QED
    BY Zenon, <1>2, <2>2 DEF Idle, Waiting, Installed
<1> QED
  BY Zenon, <1>1, <1>4, <1>5, <1>7, <1>8, WakeupPreserved DEF IInv

\* A call that finishes a job, in the place of the innermost frame.
LEMMA FinishCall ==
  ASSUME IInv, stack # <<>>, Head(stack).op # "tail",
         NEW u \in Units, NEW result \in JobResult, result = "done" => job[u] # None,
         NEW s \in Seq(Frame), \A v : ReturnsTo(s, v),
         job_finish_and_invalidate(u, result, TRUE, s \o Tail(stack))
  PROVE  IInv'
<1>1. Tail(stack) \in Seq(Frame) /\ Typed /\ SavedOK
  BY Zenon, HeadFrame DEF IInv
<1>2. s \o Tail(stack) \in Seq(Frame)
  BY Zenon, <1>1, Concatenation
<1>3. saved # None => ReturnsTo(s \o Tail(stack), saved)
  BY Zenon, <1>1, ReturnsTail, ReturnsConcat DEF SavedOK, Typed
<1>4. Typed' /\ SavedOK'
  BY Zenon, <1>1, <1>2, <1>3, FinishType
<1>5. /\ Stays /\ Grows
      /\ \A x \in Units : TailPending(s \o Tail(stack), x) => TailPending(stack', x)
  BY Zenon, <1>1, <1>2, FinishWakes
<1>6. Tails
  BY Zenon, <1>1, <1>5, PendingConcat, PoppedPending
<1> QED
  BY Zenon, <1>1, <1>4, <1>5, <1>6, WakeupPreserved DEF IInv

LEMMA FailDependenciesStep ==
  ASSUME IInv, job_fail_dependencies
  PROVE  IInv'
<1> DEFINE s(v) == FailFrame(Head(stack).unit, Head(stack).todo \ {v})
<1>1. PICK v \in Head(stack).todo :
        IF job[v] # None /\ job[v].type \in {"start", "verify"}
        THEN job_finish_and_invalidate(v, "dependency", TRUE, s(v) \o Tail(stack))
        ELSE stack' = s(v) \o Tail(stack) /\ UNCHANGED <<ustate, engine, requests>>
  BY Zenon DEF job_fail_dependencies
<1>2. /\ Head(stack).op = "fail" /\ stack # <<>> /\ Typed /\ v \in Units
      /\ Tail(stack) \in Seq(Frame) /\ Head(stack).unit \in Units
      /\ Head(stack).todo \in SUBSET Units
  BY HeadFrame DEF IInv, job_fail_dependencies
<1>3. s(v) \in Seq(Frame) /\ \A x : ReturnsTo(s(v), x)
  BY Zenon, <1>2, FrameTypes, ReturnsFrames
<1> HIDE DEF s
<1>4. CASE job[v] # None /\ job[v].type \in {"start", "verify"}
  BY ZenonT(60), <1>1, <1>2, <1>3, <1>4, FinishCall DEF JobResult
<1>5. CASE stack' = s(v) \o Tail(stack) /\ UNCHANGED <<ustate, engine, requests>>
  <2>1. stack' \in Seq(Frame)
    BY Zenon, <1>2, <1>3, <1>5, Concatenation
  <2>2. Typed'
    BY Zenon, <1>2, <1>5, <2>1 DEF Typed, engine
  <2>3. SavedOK'
    BY Zenon, <1>2, <1>3, <1>5, ReturnsTail, ReturnsConcat DEF SavedOK, IInv, Typed, engine
  <2>4. Stays /\ Grows
    BY <1>5, Unchanged DEF engine
  <2>5. Tails
    BY ZenonT(60), <1>2, <1>3, <1>5, PendingConcat, PoppedPending
  <2> QED
    BY Zenon, <1>2, <2>2, <2>3, <2>4, <2>5, WakeupPreserved DEF IInv
<1> QED
  BY Zenon, <1>1, <1>4, <1>5

LEMMA UnitNotifyStep ==
  ASSUME IInv, unit_notify
  PROVE  IInv'
<1> DEFINE u   == Head(stack).unit
           ns  == ustate[u]
           s   == IF NotifyRequests(u, Head(stack).os, ns) THEN RequestFrame(u) ELSE <<>>
           res == IF job[u] = None THEN None
                  ELSE ProcessResult(u, ns, Head(stack).reload_failure)
<1>1. IF res # None
      THEN job_finish_and_invalidate(u, res, TRUE, s \o Tail(stack))
      ELSE /\ runq' = Requeue(u)
           /\ held' = held \ {u}
           /\ stack' = s \o Tail(stack)
           /\ UNCHANGED <<ustate, job, nop, armed, n_running, saved, unmet, stale, requests>>
  BY Zenon DEF unit_notify
<1>2. /\ Head(stack).op = "notify" /\ stack # <<>> /\ Typed
      /\ Tail(stack) \in Seq(Frame) /\ u \in Units
  <2>1. stack # <<>> /\ Head(stack).op = "notify"
    BY Zenon DEF unit_notify
  <2> QED
    BY <2>1, HeadFrame DEF IInv
<1>3. s \in Seq(Frame) /\ \A x : ReturnsTo(s, x)
  BY Zenon, <1>2, FrameTypes, EmptyFrames, ReturnsFrames
<1>4. res # None => res \in JobResult /\ job[u] # None
  BY DEF ProcessResult, JobResult
<1> HIDE DEF u, s, res
<1>5. CASE res # None
  BY ZenonT(60), <1>1, <1>2, <1>3, <1>4, <1>5, FinishCall
<1>6. CASE res = None
  <2>1. stack' = s \o Tail(stack) /\ saved' = saved /\ job' = job
    BY Zenon, <1>1, <1>6
  <2>2. stack' \in Seq(Frame)
    BY Zenon, <1>2, <1>3, <2>1, Concatenation
  <2>3. Typed'
    BY Zenon, <1>1, <1>2, <1>6, <2>2 DEF Typed, Requeue
  <2>4. SavedOK'
    <3>1. saved # None => ReturnsTo(stack', saved)
      BY Zenon, <1>2, <1>3, <2>1, ReturnsTail, ReturnsConcat DEF SavedOK, IInv, Typed
    <3> QED
      BY Zenon, <2>1, <3>1 DEF SavedOK, IInv
  <2>5. Stays
    BY <1>1, <1>6 DEF Stays, Same, Idle, Waiting, Requeue
  <2>6. Grows
    BY <1>1, <1>6 DEF Grows, Keeps
  <2>7. Tails
    BY Zenon, <1>2, <1>3, <2>1, PendingConcat, PoppedPending
  <2> QED
    BY Zenon, <1>2, <2>3, <2>4, <2>5, <2>6, <2>7, WakeupPreserved DEF IInv
<1> QED
  BY <1>5, <1>6

LEMMA ReturnFromUnitStep ==
  ASSUME IInv, ReturnFromUnit
  PROVE  IInv'
<1> DEFINE u == Head(stack).unit
           code == Head(stack).code
<1>1. /\ Head(stack).op = "return" /\ stack # <<>> /\ Typed
      /\ Tail(stack) \in Seq(Frame) /\ u \in Units /\ code \in Code
  BY HeadFrame DEF IInv, ReturnFromUnit
<1>2. saved # None => saved = u /\ job[u] # None /\ ReturnsTo(Tail(stack), saved)
  BY <1>1, ReturnsTail DEF IInv, SavedOK, Typed
<1>3. CASE saved = None \/ code = "ok"
  <2>1. /\ stack' = Tail(stack) /\ saved' = None
        /\ UNCHANGED <<ustate, job, nop, runq, armed, n_running, held, unmet, stale, requests>>
    BY Zenon, <1>3 DEF ReturnFromUnit
  <2>2. Typed' /\ SavedOK'
    BY <1>1, <2>1 DEF Typed, SavedOK
  <2>3. Stays /\ Grows
    BY <2>1, Unchanged
  <2>4. Tails
    BY <1>1, <2>1, PoppedPending
  <2> QED
    BY Zenon, <1>1, <2>2, <2>3, <2>4, WakeupPreserved DEF IInv
<1>4. CASE saved # None /\ code = "EAGAIN"
  <2> DEFINE j == [job[u] EXCEPT !.state = "waiting"]
  <2>1. job[u] \in Job
    BY Zenon, <1>1, <1>2, <1>4 DEF Typed
  <2>2. j \in Job /\ j.type = job[u].type /\ j.ignore_order = job[u].ignore_order
    BY Zenon, <2>1 DEF Job
  <2>3. /\ job' = [job EXCEPT ![u] = j]
        /\ held' = IF u \in runq THEN held ELSE held \cup {u}
        /\ stack' = Tail(stack) /\ saved' = None
        /\ UNCHANGED <<ustate, nop, runq, armed, unmet, stale, requests>>
    BY Zenon, <1>1, <1>4, <2>1 DEF ReturnFromUnit, Typed, Job
  <2> HIDE DEF j
  <2>4. /\ job' \in [Units -> Job \cup {None}] /\ job'[u] = j /\ j # None
        /\ \A v \in Units : v # u => job'[v] = job[v]
    <3>1. job \in [Units -> Job \cup {None}]
      BY Zenon, <1>1 DEF Typed
    <3> QED
      BY <1>1, <2>2, <2>3, <3>1, UnitsAssumption
  <2>5. Typed' /\ SavedOK'
    <3>1. held' \subseteq Units /\ saved' = None
      BY Zenon, <1>1, <2>3 DEF Typed
    <3>2. Typed'
      BY Zenon, <1>1, <2>3, <2>4, <3>1 DEF Typed
    <3> QED
      BY Zenon, <3>1, <3>2 DEF SavedOK
  <2>6. Stays
    <3> SUFFICES ASSUME NEW v \in Units, Idle(v)'
                 PROVE  Idle(v) /\ Same(job[v], job'[v])
      BY Zenon DEF Stays
    <3>1. Waiting(v)' /\ v \notin runq /\ v \notin held' /\ held \subseteq held'
      BY <2>3 DEF Idle
    <3>2. v # u
      BY <2>3, <3>1
    <3>3. job'[v] = job[v]
      BY <2>4, <3>2
    <3> QED
      BY <3>1, <3>3 DEF Idle, Waiting, Same
  <2>7. Grows
    <3>1. \A v \in Units : job[v] # None => Keeps(job[v], job'[v])
      BY <2>2, <2>4 DEF Keeps
    <3> QED
      BY Zenon, <3>1 DEF Grows
  <2>8. Tails
    BY Zenon, <1>1, <2>3, PoppedPending
  <2> QED
    BY Zenon, <1>1, <2>5, <2>6, <2>7, <2>8, WakeupPreserved DEF IInv
<1>5. CASE saved # None /\ code \notin {"ok", "EAGAIN"}
  <2>1. job_finish_and_invalidate(u, ResultOf(code), TRUE, Tail(stack))
    BY Zenon, <1>5 DEF ReturnFromUnit
  <2>2. <<>> \o Tail(stack) = Tail(stack)
    BY <1>1, EmptyConcat
  <2>3. ResultOf(code) \in JobResult
    BY DEF ResultOf, JobResult
  <2> QED
    BY Zenon, <1>1, <1>2, <1>5, <2>1, <2>2, <2>3, EmptyFrames, ReturnsFrames, FinishCall
<1> QED
  BY <1>3, <1>4, <1>5

LEMMA StepHolds ==
  ASSUME IInv, [Next]_vars
  PROVE  IInv'
<1>1. CASE ManagerEvent
  <2>1. ASSUME NEW u \in Units, job_dispatch_timer(u)
        PROVE  IInv'
    BY Zenon, <2>1, FinishEventStep DEF job_dispatch_timer
  <2>2. ASSUME NEW u \in Units, bus_job_method_cancel(u)
        PROVE  IInv'
    BY Zenon, <2>2, FinishEventStep DEF bus_job_method_cancel
  <2>3. ASSUME NEW u \in Units, manager_dispatch_gc_job_queue(u)
        PROVE  IInv'
    BY ZenonT(60), <2>3, FinishEventStep DEF manager_dispatch_gc_job_queue
  <2> QED
    BY Zenon, <1>1, <2>1, <2>2, <2>3, AddJobStep, ThrottleEndsStep, ClearJobsStep, ReloadStep,
       RunJobStep, SkipJobStep, FinishNopStep, TrackHandlerStep DEF ManagerEvent
<1>2. CASE UnitEvent
  BY <1>2, UnitChangesStep DEF UnitEvent
<1>3. CASE Call
  BY Zenon, <1>3, FailDependenciesStep, QueueNeighboursStep, RequestMoreStep, RequestNoMoreStep,
     UnitNotifyStep, ReturnFromUnitStep DEF Call
<1>4. CASE UNCHANGED vars
  <2>1. Typed' /\ SavedOK'
    BY Zenon, <1>4 DEF IInv, Typed, SavedOK, vars, engine
  <2>2. Stays /\ Grows /\ Tails
    BY <1>4, Unchanged DEF Tails, vars, engine
  <2> QED
    BY <2>1, <2>2, WakeupPreserved DEF IInv
<1> QED
  BY <1>1, <1>2, <1>3, <1>4 DEF Next

-----------------------------------------------------------------------------

\* job_run_and_invalidate() drops a job that may not run yet from the run queue; a job
\* dropped there is always put back by the end of a job it is ordered against, or by
\* the answer of its own unit.
THEOREM NoWakeupIsLost == Spec => []NoLostWakeup
<1>1. IInv => NoLostWakeup
  BY DEF IInv
<1> QED
  BY <1>1, InitHolds, StepHolds, PTL DEF Spec

-----------------------------------------------------------------------------
\* Merging is commutative: it does not matter which of two jobs was requested first.
THEOREM MergeCommutes ==
  ASSUME NEW x \in MergingTypes, NEW y \in MergingTypes, NEW s
  PROVE  job_type_merge_and_collapse(x, y, s) = job_type_merge_and_collapse(y, x, s)
BY MergeAndCollapse DEF MergingTypes

\* Merging is associative once collapsed, as the comment above the table of job.c and
\* test-job-type.c claim: for every state of the unit, and where a merge fails too.
THEOREM MergeAssociates ==
  ASSUME NEW x \in MergingTypes, NEW y \in MergingTypes, NEW z \in MergingTypes, NEW s
  PROVE  LET merge(p, q) == IF p = "none" \/ q = "none" THEN "none"
                            ELSE job_type_merge_and_collapse(p, q, s)
         IN  merge(merge(x, y), z) = merge(x, merge(y, z))
<1>1. \A p, q \in MergingTypes :
         job_type_merge_and_collapse(p, q, s) =
           IF p = q THEN p
           ELSE IF "stop" \in {p, q} THEN "none"
           ELSE IF "restart" \in {p, q} THEN "restart"
           ELSE IF "reload" \notin {p, q} THEN "start"
           ELSE IF "start" \in {p, q} /\ ~UNIT_IS_ACTIVE_OR_RELOADING(s)
                THEN "start" ELSE "reload"
  BY MergeAndCollapse
<1> QED
  BY <1>1 DEF MergingTypes

-----------------------------------------------------------------------------
(* Folding the types of a unit's jobs *)

\* The inductive invariant: at least one type has been folded.
FoldIInv == FoldTypeOK /\ seen # {} /\ OrderIrrelevant

\* The type folded from a unit's jobs is a function of the set of their types, in
\* every order of the transaction's list, and is one that may be installed.
THEOREM FoldIsOrderIrrelevant == FoldSpec => [](FoldTypeOK /\ OrderIrrelevant)
<1>1. FoldInit => FoldIInv
  BY DEF FoldInit, FoldIInv, FoldTypeOK, OrderIrrelevant, Merged, MergingTypes
<1>2. FoldIInv /\ [FoldNext]_foldVars => FoldIInv'
  <2> SUFFICES ASSUME FoldIInv, [FoldNext]_foldVars PROVE FoldIInv'
    OBVIOUS
  <2>1. CASE UNCHANGED foldVars
    BY <2>1 DEF FoldIInv, FoldTypeOK, OrderIrrelevant, foldVars
  <2>2. ASSUME NEW t \in MergingTypes, MergeNext(t) PROVE FoldIInv'
    <3>1. /\ type \in MergingTypes
          /\ type' = job_type_merge_and_collapse(type, t, state)
      BY <2>2 DEF FoldIInv, FoldTypeOK, MergeNext
    <3>2. FoldTypeOK'
      BY <2>2, <3>1, MergeAndCollapse DEF FoldIInv, FoldTypeOK, MergeNext, MergingTypes
    <3>3. OrderIrrelevant'
      <4>1. seen # {} /\ seen \in SUBSET MergingTypes /\ type = Merged(seen, state) /\ state' = state
            /\ seen' = seen \cup {t}
        BY <2>2 DEF FoldIInv, FoldTypeOK, OrderIrrelevant, MergeNext
      <4>2. seen' = {"stop"} <=> t = "stop" /\ seen \subseteq {"stop"}
        BY <4>1
      <4>3. Merged(seen', state) = job_type_merge_and_collapse(type, t, state)
        <5>1. CASE t = "start"
          BY <5>1, <3>1, <4>1, <4>2, MergeAndCollapse DEF Merged, MergingTypes
        <5>2. CASE t = "verify"
          BY <5>2, <3>1, <4>1, <4>2, MergeAndCollapse DEF Merged, MergingTypes
        <5>3. CASE t = "stop"
          BY <5>3, <3>1, <4>1, <4>2, MergeAndCollapse DEF Merged, MergingTypes
        <5>4. CASE t = "reload"
          BY <5>4, <3>1, <4>1, <4>2, MergeAndCollapse DEF Merged, MergingTypes
        <5>5. CASE t = "restart"
          BY <5>5, <3>1, <4>1, <4>2, MergeAndCollapse DEF Merged, MergingTypes
        <5> QED
          BY Zenon, <5>1, <5>2, <5>3, <5>4, <5>5 DEF MergingTypes
      <4> QED
        BY Zenon, <3>1, <4>1, <4>3 DEF OrderIrrelevant
    <3> QED
      BY <2>2, <3>2, <3>3 DEF FoldIInv, MergeNext
  <2> QED
    BY <2>1, <2>2 DEF FoldNext
<1> QED
  BY <1>1, <1>2, PTL DEF FoldSpec, FoldIInv

\* If the fold fails, two of the listed types conflict: delete_one_unmergeable_job
\* finds a pair of jobs of which to drop one.
THEOREM ConflictIsBetweenTwo == FoldSpec => []ConflictHasPair
<1>1. FoldTypeOK /\ OrderIrrelevant => ConflictHasPair
  <2> SUFFICES ASSUME FoldTypeOK, OrderIrrelevant, type = "none"
               PROVE  \E x, y \in seen : ~job_type_is_mergeable(x, y)
    BY DEF ConflictHasPair
  <2>1. "stop" \in seen /\ seen # {"stop"}
    BY DEF OrderIrrelevant, Merged
  <2>2. PICK y \in seen : y # "stop"
    BY <2>1
  <2>3. job_type_lookup_merge("stop", y) = "none"
    BY <2>1, <2>2, MergeTable DEF FoldTypeOK
  <2> QED
    BY <2>1, <2>2, <2>3 DEF job_type_is_mergeable
<1> QED
  BY <1>1, FoldIsOrderIrrelevant, PTL

-----------------------------------------------------------------------------
(* The counter of running jobs *)

Runs == {u \in Units : Running(u)}

LEMMA NatsAreInts == \A n \in Nat : n \in Int
OBVIOUS

LEMMA RunsFinite == IsFiniteSet(Runs) /\ Cardinality(Runs) \in Nat
<1>1. Runs \in SUBSET Units
  BY DEF Runs
<1> QED
  BY Zenon, <1>1, UnitsAssumption, FS_Subset, FS_CardinalityType

LEMMA CountSame ==
  ASSUME RunningCounted, n_running' = n_running, Runs' = Runs
  PROVE  RunningCounted'
BY Zenon DEF RunningCounted, Runs

\* job_set_state() on a job that leaves the state JOB_RUNNING, if it is in it.
LEMMA CountLeave ==
  ASSUME RunningCounted, NEW u \in Units, n_running' = LeaveRunning(u), Runs' = Runs \ {u}
  PROVE  RunningCounted'
<1>1. n_running = Cardinality(Runs)
  BY Zenon DEF RunningCounted, Runs
<1>2. Running(u) <=> u \in Runs
  BY DEF Runs
<1>3. n_running' = Cardinality(Runs \ {u})
  <2>1. Cardinality(Runs \ {u}) = IF u \in Runs THEN Cardinality(Runs) - 1 ELSE Cardinality(Runs)
    BY Zenon, RunsFinite, FS_RemoveElement
  <2> QED
    BY Zenon, <1>1, <1>2, <2>1 DEF LeaveRunning
<1>4. n_running' = Cardinality(Runs')
  BY Zenon, <1>3
<1> QED
  BY Zenon, <1>4 DEF RunningCounted, Runs

\* One job changes.
LEMMA RunsOthers ==
  ASSUME NEW u \in Units, \A v \in Units : v # u => job'[v] = job[v]
  PROVE  /\ Running(u)' => Runs' = Runs \cup {u}
         /\ ~Running(u)' => Runs' = Runs \ {u}
BY DEF Runs, Running

LEMMA FinishCounted ==
  ASSUME Typed, RunningCounted, NEW u \in Units, NEW result, NEW recursive, NEW rest,
         result = "done" => job[u] # None,
         job_finish_and_invalidate(u, result, recursive, rest)
  PROVE  RunningCounted'
<1>1. CASE PatchRestart(u, rest) /\ job[u] # None
  <2>1. job[u] \in Job
    BY <1>1 DEF Typed
  <2> DEFINE j == [job[u] EXCEPT !.type = "start", !.state = "waiting"]
  <2>2. job' = [job EXCEPT ![u] = j]
    BY Zenon, <1>1, <2>1 DEF PatchRestart, Typed, Job
  <2>3. j.state = "waiting"
    BY <2>1 DEF Job
  <2> HIDE DEF j
  <2>4. job'[u] = j /\ \A v \in Units : v # u => job'[v] = job[v]
    BY Zenon, <2>2 DEF Typed
  <2>5. ~Running(u)'
    BY <2>3, <2>4 DEF Running
  <2>6. n_running' = LeaveRunning(u)
    BY <1>1 DEF PatchRestart
  <2> QED
    BY Zenon, <2>4, <2>5, <2>6, RunsOthers, CountLeave
<1>2. CASE Uninstall(u, result, recursive, rest)
  <2>1. job' = [job EXCEPT ![u] = None] /\ n_running' = LeaveRunning(u)
    BY Zenon, <1>2 DEF Uninstall
  <2>2. job'[u] = None /\ \A v \in Units : v # u => job'[v] = job[v]
    BY Zenon, <2>1 DEF Typed
  <2>3. ~Running(u)'
    BY <2>2 DEF Running
  <2> QED
    BY Zenon, <2>1, <2>2, <2>3, RunsOthers, CountLeave
<1> QED
  BY Zenon, <1>1, <1>2 DEF job_finish_and_invalidate

\* A job that runs after job_install() is the one that ran before.
LEMMA InstallState ==
  ASSUME Typed, NEW tr \in Transactions, NEW u \in DOMAIN tr.jobs, tr.jobs[u] # "nop",
         job_install(tr, u).state = "running"
  PROVE  Running(u) /\ ~job_type_is_conflicting(job[u].type, tr.jobs[u])
<1> DEFINE n == job_new(tr, u)
           j == job_merge_into_installed(job[u], n, ustate[u])
<1>1. u \in Units
  BY Zenon, TransactionsAssumption
<1>2. n.state = "waiting"
  BY DEF job_new
<1>3. ~(job[u] = None \/ job_type_is_conflicting(job[u].type, tr.jobs[u]))
  BY Zenon, <1>2 DEF job_install
<1>4. job[u] \in Job
  BY <1>1, <1>3 DEF Typed
<1>5. j \in {j, [j EXCEPT !.state = "waiting"]} /\ j.state = job[u].state
  BY <1>4 DEF job_merge_into_installed, Job
<1>6. [j EXCEPT !.state = "waiting"].state = "waiting"
  BY <1>4 DEF job_merge_into_installed, Job
<1>7. job_install(tr, u) \in {j, [j EXCEPT !.state = "waiting"]}
  BY <1>3 DEF job_install
<1> HIDE DEF n, j
<1> QED
  BY Zenon, <1>3, <1>5, <1>6, <1>7 DEF Running

LEMMA ApplyCounted ==
  ASSUME Typed, RunningCounted, NEW tr \in Transactions, NEW rest, manager_add_job(tr, rest)
  PROVE  RunningCounted'
<1> DEFINE D == Kept(tr)
           J == {u \in D : tr.jobs[u] # "nop"}
           isolated(S) == IF tr.mode \in {"isolate", "flush"}
                          THEN (S \ D) \ IgnoreOnIsolate ELSE {}
           replaced == {u \in J : /\ job[u] # None
                                  /\ job_type_is_conflicting(job[u].type, tr.jobs[u])}
           gone == isolated(Installed) \cup replaced
           X == {u \in Units : Running(u) /\ (u \in gone \/ job'[u].state = "waiting")}
<1>1. /\ job' = [u \in Units |-> IF u \in J THEN job_install(tr, u)
                                 ELSE IF u \in gone THEN None ELSE job[u]]
      /\ n_running' = n_running - Cardinality(X)
  BY Zenon DEF manager_add_job
<1>2. J \subseteq D /\ D \subseteq DOMAIN tr.jobs
  BY Zenon DEF Kept
<1>3. ASSUME NEW u \in Units
      PROVE  u \in Runs' <=> u \in Runs \ X
  <2>1. CASE u \in J
    <3>1. job'[u] = job_install(tr, u)
      BY <1>1, <2>1
    <3>2. job_install(tr, u) \in Job /\ tr.jobs[u] # "nop" /\ u \in DOMAIN tr.jobs
      BY Zenon, <1>2, <2>1, InstallType
    <3>3. u \in gone => u \in replaced
      BY Zenon, <1>2, <2>1
    <3>4. job'[u] # None /\ job'[u].state \in {"waiting", "running"}
      BY Zenon, <3>1, <3>2, UnitsAssumption DEF Job
    <3>5. job'[u].state = "running" => Running(u) /\ u \notin replaced
      BY <3>1, <3>2, InstallState
    <3> HIDE DEF gone, replaced, J
    <3> QED
      BY Zenon, <3>3, <3>4, <3>5 DEF Runs, Running
  <2>2. CASE u \notin J /\ u \in gone
    <3>1. job'[u] = None
      BY <1>1, <2>2
    <3> HIDE DEF gone, J
    <3> QED
      BY Zenon, <2>2, <3>1 DEF Runs, Running
  <2>3. CASE u \notin J /\ u \notin gone
    <3>1. job'[u] = job[u]
      BY Zenon, <1>1, <2>3
    <3> HIDE DEF gone, J
    <3> QED
      BY Zenon, <2>3, <3>1 DEF Runs, Running
  <2> QED
    BY Zenon, <2>1, <2>2, <2>3
<1>4. X \subseteq Runs
  BY DEF Runs
<1> HIDE DEF X
<1>5. Runs' = Runs \ X
  <2>1. Runs' \subseteq Units /\ Runs \subseteq Units
    BY DEF Runs
  <2> QED
    BY <1>3, <2>1
<1>6. Runs \cap X = X
  BY <1>4
<1>7. Cardinality(Runs \ X) = Cardinality(Runs) - Cardinality(X)
  BY Zenon, <1>6, RunsFinite, FS_Difference
<1>8. n_running' = Cardinality(Runs \ X)
  BY Zenon, <1>1, <1>7 DEF RunningCounted, Runs
<1>9. n_running' = Cardinality(Runs')
  BY Zenon, <1>5, <1>8
<1> QED
  BY Zenon, <1>9 DEF RunningCounted, Runs

LEMMA RunJobCounted ==
  ASSUME Typed, RunningCounted, NEW u \in Units, RunJob(u)
  PROVE  RunningCounted'
<1>1. job[u] \in Job /\ job[u].state = "waiting"
  BY DEF RunJob, Waiting, Typed
<1> DEFINE j == [job[u] EXCEPT !.state = "running", !.ran = TRUE]
<1>2. job' = [job EXCEPT ![u] = j]
  BY ZenonT(60), <1>1 DEF RunJob, Typed, Job
<1>3. j.state = "running" /\ j \in Job
  BY Zenon, <1>1 DEF Job
<1> HIDE DEF j
<1>4. job'[u] = j /\ j # None /\ \A v \in Units : v # u => job'[v] = job[v]
  BY Zenon, <1>2, <1>3, UnitsAssumption DEF Typed
<1>5. Running(u)' /\ u \notin Runs
  BY <1>1, <1>3, <1>4 DEF Running, Runs
<1>6. Runs' = Runs \cup {u}
  BY Zenon, <1>4, <1>5, RunsOthers
<1>7. n_running' = n_running + 1
  BY Zenon DEF RunJob
<1>8. Cardinality(Runs \cup {u}) = Cardinality(Runs) + 1
  BY SMT, <1>5, RunsFinite, FS_AddElement
<1>9. n_running' = Cardinality(Runs')
  BY Zenon, <1>6, <1>7, <1>8 DEF RunningCounted, Runs
<1> QED
  BY Zenon, <1>9 DEF RunningCounted, Runs

\* The job that the unit put off waits again.
LEMMA ReturnCounted ==
  ASSUME IInv, RunningCounted, ReturnFromUnit
  PROVE  RunningCounted'
<1> DEFINE u == Head(stack).unit
           code == Head(stack).code
<1>1. /\ Head(stack).op = "return" /\ stack # <<>> /\ Typed
      /\ u \in Units /\ code \in Code
  BY Zenon, HeadFrame DEF IInv, ReturnFromUnit
<1>2. saved # None => saved = u /\ job[u] # None
  BY Zenon, <1>1, ReturnsTail DEF IInv, SavedOK, Typed
<1>3. CASE saved = None \/ code = "ok"
  <2>1. job' = job /\ n_running' = n_running
    BY Zenon, <1>3 DEF ReturnFromUnit
  <2>2. Runs' = Runs
    BY <2>1 DEF Runs, Running
  <2> QED
    BY Zenon, <2>1, <2>2, CountSame
<1>4. CASE saved # None /\ code = "EAGAIN"
  <2>1. PICK w \in Units : w = u
    BY <1>1
  <2> DEFINE j == [job[w] EXCEPT !.state = "waiting"]
  <2>2. job[w] \in Job
    BY Zenon, <1>1, <1>2, <1>4, <2>1 DEF Typed
  <2>3. j.state = "waiting"
    BY <2>2 DEF Job
  <2>4. job' = [job EXCEPT ![w] = j] /\ n_running' = LeaveRunning(w)
    BY Zenon, <1>1, <1>4, <2>1, <2>2 DEF ReturnFromUnit, Typed, Job
  <2> HIDE DEF j
  <2>5. job'[w] = j /\ \A v \in Units : v # w => job'[v] = job[v]
    BY <1>1, <2>4 DEF Typed
  <2>6. ~Running(w)'
    BY <2>3, <2>5 DEF Running
  <2> QED
    BY Zenon, <2>4, <2>5, <2>6, RunsOthers, CountLeave
<1>5. CASE saved # None /\ code \notin {"ok", "EAGAIN"}
  <2>1. job_finish_and_invalidate(u, ResultOf(code), TRUE, Tail(stack))
    BY Zenon, <1>5 DEF ReturnFromUnit
  <2> QED
    BY Zenon, <1>1, <1>2, <1>5, <2>1, FinishCounted
<1> QED
  BY Zenon, <1>3, <1>4, <1>5

LEMMA NotifyCounted ==
  ASSUME IInv, RunningCounted, unit_notify
  PROVE  RunningCounted'
<1> DEFINE u   == Head(stack).unit
           s   == (IF NotifyRequests(u, Head(stack).os, ustate[u]) THEN RequestFrame(u)
                   ELSE <<>>) \o Tail(stack)
           res == IF job[u] = None THEN None
                  ELSE ProcessResult(u, ustate[u], Head(stack).reload_failure)
<1>1. IF res # None
      THEN job_finish_and_invalidate(u, res, TRUE, s)
      ELSE job' = job /\ n_running' = n_running
  BY Zenon DEF unit_notify
<1>2. Typed /\ u \in Units
  BY Zenon, HeadFrame DEF IInv, unit_notify
<1>3. res # None => job[u] # None
  OBVIOUS
<1> HIDE DEF u, s, res
<1>4. CASE res # None
  BY Zenon, <1>1, <1>2, <1>3, <1>4, FinishCounted
<1>5. CASE res = None
  <2>1. job' = job /\ n_running' = n_running
    BY Zenon, <1>1, <1>5
  <2>2. Runs' = Runs
    BY <2>1 DEF Runs, Running
  <2> QED
    BY <2>1, <2>2, CountSame
<1> QED
  BY <1>4, <1>5

LEMMA FailCounted ==
  ASSUME IInv, RunningCounted, job_fail_dependencies
  PROVE  RunningCounted'
<1> DEFINE s(v) == FailFrame(Head(stack).unit, Head(stack).todo \ {v}) \o Tail(stack)
<1>1. PICK v \in Head(stack).todo :
        IF job[v] # None /\ job[v].type \in {"start", "verify"}
        THEN job_finish_and_invalidate(v, "dependency", TRUE, s(v))
        ELSE stack' = s(v) /\ UNCHANGED <<ustate, engine, requests>>
  BY Zenon DEF job_fail_dependencies
<1>2. Typed /\ v \in Units
  BY HeadFrame DEF IInv, job_fail_dependencies
<1> HIDE DEF s
<1>3. CASE job[v] # None /\ job[v].type \in {"start", "verify"}
  BY Zenon, <1>1, <1>2, <1>3, FinishCounted
<1>4. CASE UNCHANGED <<ustate, engine, requests>>
  <2>1. job' = job /\ n_running' = n_running
    BY <1>4 DEF engine
  <2>2. Runs' = Runs
    BY <2>1 DEF Runs, Running
  <2> QED
    BY Zenon, <2>1, <2>2, CountSame
<1> QED
  BY Zenon, <1>1, <1>3, <1>4

\* The client that goes away changes nothing that is counted, nor does reading the
\* jobs back at daemon-reload, which counts them afresh.
LEMMA TrackCounted ==
  ASSUME Typed, RunningCounted, NEW u \in Units, bus_job_track_handler(u)
  PROVE  RunningCounted'
<1> DEFINE j == [job[u] EXCEPT !.ref = FALSE]
<1>1. job[u] \in Job /\ job[u] # None
  BY DEF Typed, bus_job_track_handler
<1>2. j \in Job /\ j.state = job[u].state
  BY ZenonT(60), <1>1 DEF Job
<1>3. job' = [job EXCEPT ![u] = j] /\ n_running' = n_running
  BY <1>1 DEF bus_job_track_handler, Typed, Job
<1> HIDE DEF j
<1>4. job'[u] = j /\ j # None /\ \A v \in Units : v # u => job'[v] = job[v]
  BY Zenon, <1>2, <1>3, UnitsAssumption DEF Typed
<1>5. Runs' = Runs
  BY <1>1, <1>2, <1>4 DEF Runs, Running
<1> QED
  BY Zenon, <1>3, <1>5, CountSame

LEMMA ReloadCounted ==
  ASSUME Typed, RunningCounted, manager_reload
  PROVE  RunningCounted'
<1>1. PICK S \in SUBSET Installed :
        job' = [u \in Units |-> IF u \in S THEN [job[u] EXCEPT !.ref = FALSE] ELSE job[u]]
  BY Zenon DEF manager_reload
<1>2. ASSUME NEW u \in S
      PROVE  /\ job[u] \in Job
             /\ [job[u] EXCEPT !.ref = FALSE] \in Job
             /\ [job[u] EXCEPT !.ref = FALSE].state = job[u].state
  <2>1. job[u] \in Job
    BY DEF Installed, Typed
  <2> QED
    BY Zenon, <2>1 DEF Job
<1>3. ASSUME NEW u \in Units
      PROVE  Running(u)' <=> Running(u)
  BY Zenon, <1>1, <1>2, UnitsAssumption DEF Running
<1>4. Runs' = Runs
  BY <1>3 DEF Runs
<1>5. n_running' = n_running
  BY Zenon DEF manager_reload, RunningCounted
<1> QED
  BY <1>4, <1>5, CountSame

LEMMA ClearCounted ==
  ASSUME RunningCounted, manager_clear_jobs
  PROVE  RunningCounted'
<1>1. \A u \in Units : ~Running(u)'
  BY DEF manager_clear_jobs, Running
<1>2. Runs' = {}
  BY <1>1 DEF Runs
<1>3. n_running' = n_running - n_running /\ n_running \in Nat
  BY Zenon, RunsFinite DEF manager_clear_jobs, RunningCounted, Runs
<1>4. n_running' = 0
  BY <1>3
<1>5. n_running' = Cardinality(Runs')
  BY Zenon, <1>2, <1>4, FS_EmptySet
<1> QED
  BY Zenon, <1>5 DEF RunningCounted, Runs

LEMMA CountStep ==
  ASSUME IInv, RunningCounted, [Next]_vars
  PROVE  RunningCounted'
<1>0. Typed
  BY DEF IInv
<1>1. ASSUME job' = job, n_running' = n_running
      PROVE  RunningCounted'
  <2>1. Runs' = Runs
    BY <1>1 DEF Runs, Running
  <2> QED
    BY Zenon, <1>1, <2>1, CountSame
<1>2. CASE ManagerEvent
  <2>1. CASE AddJob
    BY Zenon, <1>0, <2>1, ApplyCounted DEF AddJob
  <2>2. CASE ThrottleEnds
    BY Zenon, <1>1, <2>2 DEF ThrottleEnds
  <2>3. CASE \E u \in Units : \/ SkipJob(u) \/ FinishNop(u, "done") \/ FinishNop(u, "canceled")
                              \/ FinishNop(u, "timeout")
    BY Zenon, <1>1, <2>3 DEF SkipJob, FinishNop
  <2>4. CASE \E u \in Units : \/ job_dispatch_timer(u) \/ bus_job_method_cancel(u)
                              \/ manager_dispatch_gc_job_queue(u)
    <3>1. PICK u \in Units : \/ job_finish_and_invalidate(u, "timeout", TRUE, <<>>)
                             \/ job_finish_and_invalidate(u, "canceled", TRUE, <<>>)
                             \/ job_finish_and_invalidate(u, "collected", FALSE, <<>>)
      BY Zenon, <2>4 DEF job_dispatch_timer, bus_job_method_cancel, manager_dispatch_gc_job_queue
    <3>2. "timeout" # "done" /\ "canceled" # "done" /\ "collected" # "done"
      OBVIOUS
    <3> QED
      BY Zenon, <1>0, <3>1, <3>2, FinishCounted
  <2> QED
    BY Zenon, <1>0, <1>2, <2>1, <2>2, <2>3, <2>4, ClearCounted, ReloadCounted, RunJobCounted,
       TrackCounted DEF ManagerEvent
<1>3. CASE UnitEvent
  BY Zenon, <1>1, <1>3 DEF UnitEvent, UnitChanges
<1>4. CASE Call
  <2>1. CASE QueueNeighbours
    BY Zenon, <1>1, <2>1 DEF QueueNeighbours
  <2>2. CASE RequestMore
    BY Zenon, <1>0, <2>2, ApplyCounted DEF RequestMore
  <2>3. CASE RequestNoMore
    BY <1>1, <2>3 DEF RequestNoMore, engine
  <2> QED
    BY Zenon, <1>4, <2>1, <2>2, <2>3, FailCounted, NotifyCounted, ReturnCounted DEF Call
<1>5. CASE UNCHANGED vars
  BY <1>1, <1>5 DEF vars, engine
<1> QED
  BY Zenon, <1>2, <1>3, <1>4, <1>5 DEF Next

\* m->n_running_jobs, which job_set_state() raises and lowers, is the number of running
\* jobs in every state, also within nested calls: the assertion in job_set_state() that
\* it is positive before it is lowered never fails.
THEOREM RunningIsCounted == Spec => []RunningCounted
<1>1. Init => RunningCounted
  <2> SUFFICES ASSUME Init PROVE RunningCounted
    OBVIOUS
  <2>1. Runs = {}
    BY DEF Init, Runs, Running
  <2>2. n_running = Cardinality(Runs)
    BY Zenon, <2>1, FS_EmptySet DEF Init
  <2> QED
    BY Zenon, <2>2 DEF RunningCounted, Runs
<1>2. Init => IInv
  BY InitHolds
<1>3. IInv /\ [Next]_vars => IInv'
  BY StepHolds
<1>4. IInv /\ RunningCounted /\ [Next]_vars => RunningCounted'
  BY CountStep
<1> QED
  BY <1>1, <1>2, <1>3, <1>4, PTL DEF Spec

\* Every variable of the job engine keeps its type.  In particular the job that
\* job_run_and_invalidate() goes on with after the unit's operation has returned is
\* still installed, merging installed jobs always gives a type that can run, and the
\* counter of running jobs stays an integer.
THEOREM TypeCorrect == Spec => []TypeOK
<1>1. IInv /\ RunningCounted => TypeOK
  <2> SUFFICES ASSUME IInv, RunningCounted PROVE TypeOK
    OBVIOUS
  <2>1. n_running \in Int
    BY Zenon, RunsFinite, NatsAreInts DEF RunningCounted, Runs
  <2> QED
    BY <2>1 DEF IInv, Typed, TypeOK
<1> QED
  BY <1>1, InitHolds, StepHolds, RunningIsCounted, PTL DEF Spec

-----------------------------------------------------------------------------
(* Without a cycle in the order of the units, some job can always run. *)

LEMMA Smallest ==
  ASSUME NEW T \in SUBSET Nat, T # {}
  PROVE  \E x \in T : \A y \in T : ~(y < x)
<1>1. \E x \in T : \A y \in T : <<y, x>> \notin OpToRel(<, Nat)
  BY Zenon, WFMin, NatLessThanWellFounded
<1> QED
  BY Zenon, <1>1 DEF OpToRel

\* When the manager is idle and jobs are installed, a job is in the run queue, running or
\* held back by its unit, for every order of the units that has no cycle (rank numbers
\* the units along it): job_is_runnable() never leaves all jobs waiting for each other.
THEOREM JobsNeverStall ==
  ASSUME NEW N \in Nat, NEW rank \in [Units -> 0..N],
         \A u, v \in Units : <<u, v>> \in Before => rank[u] < rank[v]
  PROVE  Spec => []NoStall
<1>1. IInv => NoStall
  <2> SUFFICES ASSUME IInv, stack = <<>>, Installed # {},
                      \A u \in Installed : u \notin runq /\ u \notin held /\ ~Running(u)
               PROVE  FALSE
    BY DEF NoStall
  <2>1. ASSUME NEW u \in Installed
        PROVE  /\ u \in Units /\ job[u] \in Job /\ Idle(u)
    BY DEF Installed, IInv, Typed, Idle, Waiting, Running, Job
  <2>2. ASSUME NEW u \in Installed
        PROVE  \E v \in Installed : Blocks(v, u)
    <3>1. ~TailPending(stack, u)
      BY Zenon, <2>1, PendingFrames
    <3>2. PICK v \in Neighbours(u) : job[v] # None /\ (Blocks(v, u) \/ job[v].ignore_order)
      BY Zenon, <2>1, <3>1 DEF IInv, NoLostWakeup, Idle
    <3>3. v \in Installed
      BY Zenon, <3>2 DEF Installed, Neighbours
    <3>4. ~job[v].ignore_order
      BY Zenon, <2>1, <3>3 DEF IInv, NoLostWakeup, Idle
    <3> QED
      BY Zenon, <3>2, <3>3, <3>4
  <2>3. ASSUME NEW u \in Installed, NEW v \in Installed, Blocks(v, u)
        PROVE  \/ rank[v] < rank[u] /\ ~Stopping(job[u].type)
               \/ rank[u] < rank[v] /\ Stopping(job[v].type)
    BY SMTT(60), <2>1, <2>3 DEF Blocks, job_compare
  <2> DEFINE St == {u \in Installed : Stopping(job[u].type)}
  <2>4. CASE St # {}
    <3> DEFINE T == {N - rank[u] : u \in St}
    <3>1. T \in SUBSET Nat /\ T # {}
      BY SMTT(60), <2>1, <2>4
    <3>2. PICK u \in St : \A v \in St : ~(N - rank[v] < N - rank[u])
      BY Zenon, <3>1, Smallest
    <3>3. PICK v \in Installed : Blocks(v, u)
      BY <2>2
    <3>4. v \in St /\ rank[u] < rank[v]
      BY <2>3, <3>3
    <3>5. rank[u] \in Nat /\ rank[v] \in Nat
      BY <2>1
    <3> QED
      BY SMTT(60), <3>2, <3>4, <3>5
  <2>5. CASE St = {}
    <3> DEFINE T == {rank[u] : u \in Installed}
    <3>1. T \in SUBSET Nat /\ T # {}
      BY SMTT(60), <2>1
    <3>2. PICK u \in Installed : \A v \in Installed : ~(rank[v] < rank[u])
      BY Zenon, <3>1, Smallest
    <3>3. PICK v \in Installed : Blocks(v, u)
      BY <2>2
    <3> QED
      BY Zenon, <2>3, <2>5, <3>2, <3>3
  <2> QED
    BY <2>4, <2>5
<1> QED
  BY <1>1, InitHolds, StepHolds, PTL DEF Spec

-----------------------------------------------------------------------------
(* A reload that was asked for *)

\* The return codes that job_run_and_invalidate() takes for "done".
DoneCode == {"EALREADY", "ECOMM"}

NoDone(calls) ==
  \A i \in DOMAIN calls : calls[i].op = "return" => calls[i].code \notin DoneCode

\* A unit has just answered without reporting a state: nothing else can happen before
\* job_run_and_invalidate() goes on.
AtReturn(u) == Len(stack) = 1 /\ stack[1].op = "return" /\ stack[1].unit = u

\* The job of u will still reload the unit, or restart it.
Owed(u) ==
  /\ job[u] # None
  /\ job[u].type \in {"reload", "restart"}
  /\ UNIT_IS_ACTIVE_OR_RELOADING(ustate[u])

Calm(u) == Owed(u) /\ (job[u].type = "reload" => ~Running(u))

\* A reload that runs although it is owed is one that its unit has refused.
StaleOK ==
  /\ NoDone(stack) \/ \E u \in Units \ stale : AtReturn(u)
  /\ \A u \in stale :
       \/ Calm(u)
       \/ Owed(u) /\ saved = u /\ AtReturn(u) /\ stack[1].code # "ok"

-----------------------------------------------------------------------------
(* The call stack *)

LEMMA DoneConcat ==
  ASSUME NEW s \in Seq(Frame), NEW t \in Seq(Frame), NoDone(s), NoDone(t)
  PROVE  NoDone(s \o t)
<1>1. /\ DOMAIN s = 1..Len(s) /\ DOMAIN t = 1..Len(t)
      /\ DOMAIN (s \o t) = 1..(Len(s) + Len(t))
      /\ Len(s) \in Nat /\ Len(t) \in Nat
  BY Elements, Concatenation
<1>2. \A i \in 1..Len(s) : (s \o t)[i] = s[i]
  BY <1>1, Concatenation
<1>3. ASSUME NEW i \in 1..(Len(s) + Len(t)), i > Len(s)
      PROVE  i - Len(s) \in 1..Len(t) /\ (s \o t)[i] = t[i - Len(s)]
  BY <1>1, <1>3, Concatenation
<1> QED
  BY <1>1, <1>2, <1>3 DEF NoDone

LEMMA DoneTail ==
  ASSUME NEW s \in Seq(Frame), s # <<>>, NoDone(s)
  PROVE  NoDone(Tail(s)) /\ (Head(s).op = "return" => Head(s).code \notin DoneCode)
<1>1. /\ DOMAIN s = 1..Len(s) /\ Len(s) \in Nat /\ Len(s) > 0 /\ Head(s) = s[1]
      /\ DOMAIN Tail(s) = 1..(Len(s) - 1)
      /\ \A i \in 1..(Len(s) - 1) : Tail(s)[i] = s[i + 1]
  BY Zenon, Elements, HeadAndTail
<1> QED
  BY <1>1 DEF NoDone

LEMMA DoneFrames ==
  ASSUME NEW u, NEW S, NEW result, NEW f
  PROVE  /\ NoDone(TailFrame(u)) /\ NoDone(FailFrame(u, S)) /\ NoDone(RequestFrame(u))
         /\ NoDone(OnFailureFrame(u, result)) /\ NoDone(<<>>)
         /\ NoDone(<<NotifyFrame(u, f)>>)
BY DEF NoDone, TailFrame, FailFrame, RequestFrame, OnFailureFrame, NotifyFrame

\* While something else than a return is next, no answer is pending.
LEMMA NoReturn ==
  ASSUME Typed, StaleOK, stack = <<>> \/ Head(stack).op # "return"
  PROVE  NoDone(stack) /\ \A u \in stale : Calm(u)
<1>1. ASSUME NEW u, AtReturn(u)
      PROVE  FALSE
  <2>1. stack \in Seq(Frame) /\ Len(stack) = 1 /\ stack[1].op = "return"
    BY <1>1 DEF Typed, AtReturn
  <2>2. stack # <<>>
    <3>1. Len(<<>>) = 0
      OBVIOUS
    <3>2. ASSUME stack = <<>> PROVE FALSE
      <4>1. Len(stack) = 0
        BY Zenon, <3>1, <3>2
      <4> QED
        BY <2>1, <4>1
    <3> QED
      BY <3>2
  <2>3. Head(stack) = stack[1]
    BY <2>1, <2>2, HeadAndTail
  <2> QED
    BY Zenon, <2>1, <2>2, <2>3
<1> QED
  BY <1>1 DEF StaleOK

-----------------------------------------------------------------------------
(* The steps *)

\* A step that leaves the jobs and the states of the units that are owed a reload.
LEMMA StaleKept ==
  ASSUME NoDone(stack'), stale' \subseteq stale,
         \A u \in stale' : Calm(u) /\ job'[u] = job[u]
                           /\ UNIT_IS_ACTIVE_OR_RELOADING(ustate'[u])
  PROVE  StaleOK'
<1>1. \A u \in stale' : Calm(u)'
  BY DEF Calm, Owed, Running
<1> QED
  BY Zenon, <1>1 DEF StaleOK, NoDone

LEMMA FinishStale ==
  ASSUME Typed, NEW u \in Units, NEW result, NEW recursive, NEW rest \in Seq(Frame),
         NoDone(rest), \A v \in stale : v # u => Calm(v),
         result = "done" => u \notin stale,
         job_finish_and_invalidate(u, result, recursive, rest)
  PROVE  StaleOK'
<1>1. \A v \in stale : v \in Units
  BY Zenon DEF Typed
<1>2. ustate' = ustate
  BY DEF job_finish_and_invalidate
<1>3. CASE PatchRestart(u, rest) /\ result = "done"
  <2>1. stack' = TailFrame(u) \o rest
    BY <1>3 DEF PatchRestart
  <2>2. NoDone(stack')
    BY Zenon, <2>1, DoneConcat, DoneFrames, FrameTypes
  <2>3. stale' = stale /\ \A v \in Units : v # u => job'[v] = job[v]
    BY Zenon, <1>3 DEF PatchRestart, Typed
  <2>4. \A v \in stale' : Calm(v) /\ job'[v] = job[v] /\ UNIT_IS_ACTIVE_OR_RELOADING(ustate'[v])
    BY Zenon, <1>1, <1>2, <1>3, <2>3 DEF Calm, Owed
  <2> QED
    BY Zenon, <2>2, <2>3, <2>4, StaleKept
<1>4. CASE Uninstall(u, result, recursive, rest)
  <2> DEFINE F == FailFrame(u, FailTargets(u, job[u].type, result, recursive))
             O == OnFailureFrame(u, result)
  <2>1. /\ F \in Seq(Frame) /\ O \in Seq(Frame) /\ TailFrame(u) \in Seq(Frame)
        /\ NoDone(F) /\ NoDone(O) /\ NoDone(TailFrame(u))
    BY Zenon, FrameTypes, FailTargetsType, DoneFrames
  <2>2. stack' = F \o O \o TailFrame(u) \o rest
    BY <1>4 DEF Uninstall
  <2> HIDE DEF F, O
  <2>3. NoDone(F \o O) /\ F \o O \in Seq(Frame)
    BY Zenon, <2>1, DoneConcat, Concatenation
  <2>4. NoDone(F \o O \o TailFrame(u)) /\ F \o O \o TailFrame(u) \in Seq(Frame)
    BY Zenon, <2>1, <2>3, DoneConcat, Concatenation
  <2>5. NoDone(stack')
    BY Zenon, <2>2, <2>4, DoneConcat
  <2>6. stale' \subseteq stale /\ u \notin stale'
    BY Zenon, <1>4 DEF Uninstall
  <2>7. \A v \in Units : v # u => job'[v] = job[v]
    BY Zenon, <1>4 DEF Uninstall, Typed
  <2>8. \A v \in stale' : Calm(v) /\ job'[v] = job[v] /\ UNIT_IS_ACTIVE_OR_RELOADING(ustate'[v])
    BY Zenon, <1>1, <1>2, <2>6, <2>7 DEF Calm, Owed
  <2> QED
    BY Zenon, <2>5, <2>6, <2>8, StaleKept
<1> QED
  BY Zenon, <1>3, <1>4 DEF job_finish_and_invalidate

\* job_install() keeps what is owed, and a new reload never ends up in a job that runs.
LEMMA InstallOwed ==
  ASSUME Typed, NEW tr \in Transactions, NEW u \in DOMAIN tr.jobs, tr.jobs[u] # "nop",
         UNIT_IS_ACTIVE_OR_RELOADING(ustate[u]),
         \/ tr.jobs[u] = "reload"
         \/ Calm(u) /\ ~job_type_is_conflicting(job[u].type, tr.jobs[u])
  PROVE  /\ job_install(tr, u).type \in {"reload", "restart"}
         /\ job_install(tr, u).type = "reload" => job_install(tr, u).state = "waiting"
<1> DEFINE t == tr.jobs[u]
           n == job_new(tr, u)
           m == job_type_merge_and_collapse(job[u].type, t, ustate[u])
           j == job_merge_into_installed(job[u], n, ustate[u])
<1>1. u \in Units /\ t \in MergingTypes
  BY Zenon, TransactionsAssumption DEF TransactionTypes, MergingTypes
<1>2. n.type = t /\ n.state = "waiting"
  BY Zenon DEF job_new
<1>3. CASE job[u] = None \/ job_type_is_conflicting(job[u].type, t)
  <2>1. t = "reload"
    BY <1>3 DEF Calm, Owed
  <2>2. job_install(tr, u) = n
    BY <1>3 DEF job_install
  <2> HIDE DEF n
  <2> QED
    BY Zenon, <1>2, <2>1, <2>2
<1>4. CASE ~(job[u] = None \/ job_type_is_conflicting(job[u].type, t))
  <2>1. job[u] \in Job
    BY Zenon, <1>1, <1>4 DEF Typed
  <2>2. job[u].type \in MergingTypes /\ job[u].state \in {"waiting", "running"}
    BY <2>1 DEF Job
  <2>3. job_type_lookup_merge(job[u].type, t) # "none"
    BY Zenon, <1>1, <1>4, <2>2 DEF job_type_is_conflicting, job_type_is_mergeable, MergingTypes
  <2>4. /\ m \in {"reload", "restart"}
        /\ job[u].type = "restart" => m = "restart"
    <3>1. PICK x \in MergingTypes : x = job[u].type
      BY <2>2
    <3>2. t = "reload" \/ x \in {"reload", "restart"}
      BY Zenon, <3>1 DEF Calm, Owed
    <3>3. "stop" \notin {x, t} \/ x = t
      BY <1>1, <2>3, <3>1, MergeTable
    <3>4. m = IF x = t THEN x
              ELSE IF "stop" \in {x, t} THEN "none"
              ELSE IF "restart" \in {x, t} THEN "restart"
              ELSE IF "reload" \notin {x, t} THEN "start"
              ELSE IF "start" \in {x, t} /\ ~UNIT_IS_ACTIVE_OR_RELOADING(ustate[u])
                   THEN "start" ELSE "reload"
      BY <1>1, <3>1, MergeAndCollapse
    <3> HIDE DEF m, t
    <3> QED
      BY <3>1, <3>2, <3>3, <3>4
  <2>5. j.type = m /\ j.state = job[u].state
    BY <1>2, <2>1 DEF job_merge_into_installed, Job
  <2>6. LET k == [j EXCEPT !.state = "waiting"] IN k.type = m /\ k.state = "waiting"
    BY <1>2, <2>1 DEF job_merge_into_installed, Job
  <2>7. job_install(tr, u) =
          IF Waiting(u) \/ LateMerge(u, t) THEN j ELSE [j EXCEPT !.state = "waiting"]
    BY Zenon, <1>4 DEF job_install
  <2>8. t = "reload" => ~LateMerge(u, t)
    BY Zenon DEF LateMerge, job_type_allows_late_merge
  <2>9. t # "reload" /\ job[u].state = "running" => job[u].type = "restart"
    BY Zenon, <1>4 DEF Calm, Owed, Running
  <2>10. Waiting(u) => job[u].state = "waiting"
    BY DEF Waiting
  <2> HIDE DEF j, m, n, t
  <2> QED
    BY Zenon, <2>2, <2>4, <2>5, <2>6, <2>7, <2>8, <2>9, <2>10
<1> QED
  BY Zenon, <1>3, <1>4

LEMMA ApplyStale ==
  ASSUME Typed, NEW tr \in Transactions, NEW rest, manager_add_job(tr, rest),
         NoDone(rest), \A u \in stale : Calm(u)
  PROVE  StaleOK'
<1> DEFINE D == Kept(tr)
           J == {u \in D : tr.jobs[u] # "nop"}
           isolated(S) == IF tr.mode \in {"isolate", "flush"}
                          THEN (S \ D) \ IgnoreOnIsolate ELSE {}
           replaced == {u \in J : /\ job[u] # None
                                  /\ job_type_is_conflicting(job[u].type, tr.jobs[u])}
           gone == isolated(Installed) \cup replaced
           asked == {u \in J : tr.jobs[u] = "reload" /\ UNIT_IS_ACTIVE_OR_RELOADING(ustate[u])}
<1>1. /\ job' = [u \in Units |-> IF u \in J THEN job_install(tr, u)
                                 ELSE IF u \in gone THEN None ELSE job[u]]
      /\ stale' = (stale \ gone) \cup asked
      /\ stack' = rest /\ ustate' = ustate
  BY Zenon DEF manager_add_job
<1>2. J \subseteq DOMAIN tr.jobs /\ DOMAIN tr.jobs \subseteq Units /\ stale \subseteq Units
  BY Zenon, TransactionsAssumption DEF Kept, Typed
<1>3. ASSUME NEW u \in stale'
      PROVE  Calm(u)'
  <2>1. u \in Units /\ UNIT_IS_ACTIVE_OR_RELOADING(ustate[u])
    BY Zenon, <1>1, <1>2 DEF Calm, Owed
  <2>2. CASE u \in J
    <3>1. job'[u] = job_install(tr, u)
      BY Zenon, <1>1, <2>1, <2>2
    <3>2. \/ tr.jobs[u] = "reload"
          \/ Calm(u) /\ ~job_type_is_conflicting(job[u].type, tr.jobs[u])
      BY Zenon, <1>1, <2>2 DEF Calm, Owed
    <3>3. u \in DOMAIN tr.jobs /\ tr.jobs[u] # "nop"
      BY <1>2, <2>2
    <3>4. job_install(tr, u) \in Job
      BY Zenon, <3>3, InstallType
    <3>5. /\ job_install(tr, u).type \in {"reload", "restart"}
          /\ job_install(tr, u).type = "reload" => job_install(tr, u).state = "waiting"
      BY Zenon, <2>1, <3>2, <3>3, InstallOwed
    <3> QED
      BY Zenon, <1>1, <2>1, <3>1, <3>4, <3>5, UnitsAssumption DEF Calm, Owed, Running
  <2>3. CASE u \notin J
    <3>1. u \in stale /\ job'[u] = job[u]
      BY <1>1, <2>1, <2>3
    <3> QED
      BY Zenon, <1>1, <3>1 DEF Calm, Owed, Running
  <2> QED
    BY Zenon, <2>2, <2>3
<1>4. NoDone(stack)'
  BY Zenon, <1>1 DEF NoDone
<1> QED
  BY Zenon, <1>3, <1>4 DEF StaleOK

\* What the operations of a unit answer: a code that ends the job as done comes at
\* once, and only from a unit that is up already or down already.
LEMMA Answers ==
  ASSUME Typed, NEW u \in Units, NEW a \in job_perform_on_unit(u)
  PROVE  /\ a.code \in DoneCode =>
              /\ ~a.notify
              /\ job[u].type # "reload"
              /\ job[u].type = "restart" => ~UNIT_IS_ACTIVE_OR_RELOADING(a.ns)
         /\ job[u].type = "reload" /\ a.code # "ok" => ~a.notify
<1>1. ASSUME NEW C, NEW b \in Silently(u, C)
      PROVE  b.ns = ustate[u] /\ b.notify = FALSE /\ b.code \in C
  BY <1>1 DEF Silently
<1>2. ASSUME NEW S, NEW C, NEW b \in Reporting(S, C)
      PROVE  b.code \in C
  BY <1>2 DEF Reporting
<1>3. ASSUME a \in unit_stop(u)
      PROVE  a.code \in DoneCode => ~a.notify /\ ~UNIT_IS_ACTIVE_OR_RELOADING(a.ns)
  <2>1. CASE UNIT_IS_INACTIVE_OR_FAILED(ustate[u])
    BY Zenon, <1>1, <1>3, <2>1 DEF unit_stop, UNIT_IS_INACTIVE_OR_FAILED, UNIT_IS_ACTIVE_OR_RELOADING
  <2>2. CASE ~UNIT_IS_INACTIVE_OR_FAILED(ustate[u])
    <3>1. a.code \in {"ok", "EIO", "EAGAIN"}
      <4>1. \/ a \in Silently(u, {"ok", "EIO"})
            \/ a \in Reporting({"deactivating", "inactive", "failed"}, {"ok"})
            \/ a \in Reporting({"deactivating"}, {"EAGAIN"})
        BY <1>3, <2>2 DEF unit_stop
      <4>2. a.code \in {"ok", "EIO"} \/ a.code \in {"ok"} \/ a.code \in {"EAGAIN"}
        BY Zenon, <1>1, <1>2, <4>1
      <4> QED
        BY <4>2
    <3> QED
      BY <3>1 DEF DoneCode
  <2> QED
    BY Zenon, <2>1, <2>2
<1>4. ASSUME a \in unit_reload(u)
      PROVE  a.code \notin DoneCode /\ (a.code # "ok" => ~a.notify)
  <2>1. \/ \E C \in {{"EIO", "EBADR"}, {"EAGAIN"}, {"ENOEXEC"}} : a \in Silently(u, C)
        \/ a \in Reporting({"active", "reloading", "deactivating"}, {"ok"})
        \/ a = [ns |-> "active", notify |-> TRUE, reload_failure |-> TRUE, code |-> "ok"]
    BY <1>4 DEF unit_reload
  <2>2. CASE \E C \in {{"EIO", "EBADR"}, {"EAGAIN"}, {"ENOEXEC"}} : a \in Silently(u, C)
    <3>1. PICK C \in {{"EIO", "EBADR"}, {"EAGAIN"}, {"ENOEXEC"}} : a \in Silently(u, C)
      BY <2>2
    <3>2. a.notify = FALSE /\ a.code \in C
      BY Zenon, <1>1, <3>1
    <3> QED
      BY <3>1, <3>2 DEF DoneCode
  <2>3. CASE a \in Reporting({"active", "reloading", "deactivating"}, {"ok"})
    <3>1. a.code \in {"ok"}
      BY Zenon, <1>2, <2>3
    <3> QED
      BY <3>1 DEF DoneCode
  <2>4. CASE a = [ns |-> "active", notify |-> TRUE, reload_failure |-> TRUE, code |-> "ok"]
    BY <2>4 DEF DoneCode
  <2> QED
    BY Zenon, <2>1, <2>2, <2>3, <2>4
<1>5. ASSUME a \in unit_start(u)
      PROVE  a.code \in DoneCode => ~a.notify
  <2>1. (\E C : a \in Silently(u, C)) \/ a \in TypeStart(u)
    BY <1>5 DEF unit_start
  <2>2. CASE \E C : a \in Silently(u, C)
    BY Zenon, <1>1, <2>2
  <2>3. CASE a \in TypeStart(u)
    <3>1. \/ a \in Silently(u, {"ok", "EIO"}) \/ a \in Silently(u, {"EAGAIN"})
          \/ a \in Reporting({"activating", "active", "inactive", "failed"}, {"ok"})
          \/ a \in Reporting({"failed"}, {"EIO"})
      BY <2>3 DEF TypeStart
    <3>2. \/ a.code \in {"ok", "EIO"} \/ a.code \in {"EAGAIN"}
          \/ a.code \in {"ok"} \/ a.code \in {"EIO"}
      BY Zenon, <1>1, <1>2, <3>1
    <3> QED
      BY Zenon, <3>2 DEF DoneCode
  <2> QED
    BY Zenon, <2>1, <2>2, <2>3
<1>6. ASSUME a \in verify_active(u)
      PROVE  ~a.notify
  BY Zenon, <1>1, <1>6 DEF verify_active
<1>7. \/ job[u].type = "reload" /\ a \in unit_reload(u)
      \/ job[u].type \in {"stop", "restart"} /\ a \in unit_stop(u)
      \/ job[u].type = "start" /\ a \in unit_start(u)
      \/ job[u].type \notin {"start", "stop", "restart", "reload"} /\ a \in verify_active(u)
  BY DEF job_perform_on_unit
<1> QED
  BY Zenon, <1>3, <1>4, <1>5, <1>6, <1>7

LEMMA RunJobStale ==
  ASSUME IInv, StaleOK, NEW u \in Units, RunJob(u)
  PROVE  StaleOK'
<1>1. PICK a \in job_perform_on_unit(u) :
        /\ Enter(u, a.ns)
        /\ stale' = IF \/ job[u].type = "reload" /\ a.code = "ok"
                       \/ ~UNIT_IS_ACTIVE_OR_RELOADING(a.ns)
                    THEN stale \ {u} ELSE stale
        /\ stack' = (IF a.notify THEN <<NotifyFrame(u, a.reload_failure)>> ELSE <<>>)
                    \o <<[op |-> "return", unit |-> u, code |-> a.code]>>
  BY ZenonT(60) DEF RunJob
<1>2. Typed /\ stack = <<>> /\ job[u] \in Job /\ saved' = u
  BY DEF IInv, RunJob, Waiting, Typed
<1>3. a.reload_failure \in BOOLEAN /\ a.code \in Code
  BY Zenon, <1>2, AnswerTypes DEF Answer
<1>4. \A v \in stale : Calm(v) /\ v \in Units
  BY <1>2, NoReturn DEF Typed
<1>5. /\ a.code \in DoneCode =>
           /\ ~a.notify
           /\ job[u].type # "reload"
           /\ job[u].type = "restart" => ~UNIT_IS_ACTIVE_OR_RELOADING(a.ns)
      /\ job[u].type = "reload" /\ a.code # "ok" => ~a.notify
  BY Zenon, <1>2, Answers
<1> DEFINE f == [op |-> "return", unit |-> u, code |-> a.code]
           N == IF a.notify THEN <<NotifyFrame(u, a.reload_failure)>> ELSE <<>>
           j == [job[u] EXCEPT !.state = "running", !.ran = TRUE]
<1>6. job' = [job EXCEPT ![u] = j] /\ j \in Job /\ j.type = job[u].type
  BY ZenonT(60), <1>2 DEF RunJob, Typed, Job
<1>7. f \in Frame /\ <<f>> \in Seq(Frame) /\ f.op = "return" /\ f.unit = u /\ f.code = a.code
  BY <1>3 DEF Frame
<1>8. N \in Seq(Frame) /\ NoDone(N)
  BY Zenon, <1>2, <1>3, NotifyFrameType, EmptyFrames, DoneFrames
<1>9. stack' = N \o <<f>>
  BY Zenon, <1>1
<1>10. ~a.notify => stack' = <<f>>
  BY <1>7, <1>9
<1> HIDE DEF f, N, j
<1>11. a.code \notin DoneCode => NoDone(stack')
  <2>1. a.code \notin DoneCode => NoDone(<<f>>)
    BY <1>7 DEF NoDone
  <2> QED
    BY Zenon, <1>7, <1>8, <1>9, <2>1, DoneConcat
<1>12. ~a.notify => AtReturn(u)' /\ stack'[1] = f
  BY <1>7, <1>10 DEF AtReturn
<1>13. a.code \in DoneCode => u \notin stale'
  BY Zenon, <1>1, <1>4, <1>5 DEF Calm, Owed
<1>14. NoDone(stack)' \/ \E w \in Units \ stale' : AtReturn(w)'
  BY Zenon, <1>5, <1>11, <1>12, <1>13 DEF NoDone
<1>15. ASSUME NEW v \in stale', v # u
       PROVE  Calm(v)'
  <2>1. Calm(v) /\ v \in Units
    BY Zenon, <1>1, <1>4, <1>15
  <2>2. job'[v] = job[v] /\ ustate'[v] = ustate[v]
    BY Zenon, <1>1, <1>2, <1>6, <1>15, <2>1 DEF Typed, Enter
  <2> QED
    BY Zenon, <2>1, <2>2 DEF Calm, Owed, Running
<1>16. ASSUME u \in stale'
       PROVE  Calm(u)' \/ (Owed(u)' /\ saved' = u /\ AtReturn(u)' /\ stack'[1].code # "ok")
  <2>1. /\ UNIT_IS_ACTIVE_OR_RELOADING(a.ns) /\ Calm(u)
        /\ ~(job[u].type = "reload" /\ a.code = "ok")
    BY Zenon, <1>1, <1>4, <1>16
  <2>2. job'[u] = j /\ j # None /\ ustate'[u] = a.ns
    BY Zenon, <1>1, <1>2, <1>6, UnitsAssumption DEF Typed, Enter
  <2>3. Owed(u)'
    BY Zenon, <1>6, <2>1, <2>2 DEF Calm, Owed
  <2>4. CASE job[u].type = "reload"
    BY Zenon, <1>2, <1>5, <1>7, <1>12, <2>1, <2>3, <2>4
  <2>5. CASE job[u].type # "reload"
    BY Zenon, <1>6, <2>2, <2>3, <2>5 DEF Calm
  <2> QED
    BY Zenon, <2>4, <2>5
<1>17. \A v \in stale' : \/ Calm(v)'
                         \/ Owed(v)' /\ saved' = v /\ AtReturn(v)' /\ stack'[1].code # "ok"
  BY Zenon, <1>15, <1>16
<1> QED
  BY Zenon, <1>14, <1>17 DEF StaleOK

LEMMA ReturnStale ==
  ASSUME IInv, StaleOK, ReturnFromUnit
  PROVE  StaleOK'
<1>1. /\ Head(stack).op = "return" /\ stack # <<>> /\ Typed /\ stack \in Seq(Frame)
      /\ Tail(stack) \in Seq(Frame) /\ Head(stack).unit \in Units
      /\ Head(stack).code \in Code /\ Head(stack) = stack[1]
  BY HeadFrame, HeadAndTail DEF IInv, Typed, ReturnFromUnit
<1>2. PICK u \in Units : u = Head(stack).unit
  BY Zenon, <1>1
<1> DEFINE code == Head(stack).code
<1>3. saved # None => saved = u /\ job[u] # None
  BY Zenon, <1>1, <1>2, ReturnsTail DEF IInv, SavedOK, Typed
<1>4. \A w : AtReturn(w) => w = u /\ Tail(stack) = <<>>
  <2>1. Len(stack) = 1 => Len(Tail(stack)) = 0
    BY <1>1, HeadAndTail
  <2>2. Tail(stack) # <<>> => Len(Tail(stack)) \in Nat \ {0}
    BY SMT, <1>1, Elements
  <2> QED
    BY Zenon, <1>1, <1>2, <2>1, <2>2 DEF AtReturn
<1>5. NoDone(Tail(stack)) /\ (u \in stale => code \notin DoneCode)
  BY Zenon, <1>1, <1>4, DoneTail, DoneFrames DEF StaleOK
<1>6. /\ \A v \in stale : v # u => Calm(v)
      /\ u \in stale => Owed(u) /\ (Calm(u) \/ (saved = u /\ code # "ok"))
  BY Zenon, <1>1, <1>4 DEF StaleOK, Calm
<1>7. CASE saved = None \/ code = "ok"
  <2>1. stack' = Tail(stack) /\ job' = job /\ ustate' = ustate /\ stale' = stale
    BY Zenon, <1>2, <1>7 DEF ReturnFromUnit
  <2>2. \A v \in stale : Calm(v)
    BY Zenon, <1>2, <1>6, <1>7, UnitsAssumption
  <2>3. NoDone(stack')
    BY Zenon, <1>5, <2>1
  <2> QED
    BY Zenon, <2>1, <2>2, <2>3, StaleKept DEF Calm, Owed
<1>8. CASE saved # None /\ code = "EAGAIN"
  <2> DEFINE j == [job[u] EXCEPT !.state = "waiting"]
  <2>1. job[u] \in Job
    BY Zenon, <1>1, <1>3, <1>8 DEF Typed
  <2>2. j \in Job /\ j.type = job[u].type /\ j.state = "waiting"
    BY Zenon, <2>1 DEF Job
  <2>3. /\ job' = [job EXCEPT ![u] = j]
        /\ stack' = Tail(stack) /\ ustate' = ustate /\ stale' = stale
    BY Zenon, <1>1, <1>2, <1>8, <2>1 DEF ReturnFromUnit, Typed, Job
  <2> HIDE DEF j
  <2>4. /\ job'[u] = j /\ j # None
        /\ \A v \in Units : v # u => job'[v] = job[v]
    BY Zenon, <1>1, <2>2, <2>3, UnitsAssumption DEF Typed
  <2>5. stale \subseteq Units
    BY Zenon, <1>1 DEF Typed
  <2>6. \A v \in stale' : Calm(v)'
    BY Zenon, <1>6, <2>2, <2>3, <2>4, <2>5 DEF Calm, Owed, Running
  <2>7. NoDone(stack)'
    BY Zenon, <1>5, <2>3 DEF NoDone
  <2> QED
    BY Zenon, <2>6, <2>7 DEF StaleOK
<1>9. CASE saved # None /\ code \notin {"ok", "EAGAIN"}
  <2>1. job_finish_and_invalidate(u, ResultOf(code), TRUE, Tail(stack))
    BY Zenon, <1>2, <1>9 DEF ReturnFromUnit
  <2>2. ResultOf(code) = "done" => code \in DoneCode
    BY <1>1 DEF ResultOf, DoneCode, Code
  <2> QED
    BY Zenon, <1>1, <1>5, <1>6, <2>1, <2>2, FinishStale
<1> QED
  BY Zenon, <1>7, <1>8, <1>9

LEMMA NotifyStale ==
  ASSUME IInv, StaleOK, unit_notify
  PROVE  StaleOK'
<1>1. /\ Head(stack).op = "notify" /\ stack # <<>> /\ Typed /\ stack \in Seq(Frame)
      /\ Tail(stack) \in Seq(Frame) /\ Head(stack).unit \in Units
  <2>1. stack # <<>> /\ Head(stack).op = "notify" /\ Typed
    BY Zenon DEF unit_notify, IInv
  <2> QED
    BY <2>1, HeadFrame DEF Typed
<1>2. PICK u \in Units : u = Head(stack).unit
  BY <1>1
<1> DEFINE s   == IF NotifyRequests(u, Head(stack).os, ustate[u]) THEN RequestFrame(u) ELSE <<>>
           res == IF job[u] = None THEN None
                  ELSE ProcessResult(u, ustate[u], Head(stack).reload_failure)
<1>3. IF res # None
      THEN job_finish_and_invalidate(u, res, TRUE, s \o Tail(stack))
      ELSE /\ stack' = s \o Tail(stack)
           /\ UNCHANGED <<ustate, job, stale>>
  BY Zenon, <1>2 DEF unit_notify
<1>4. NoDone(stack) /\ \A v \in stale : Calm(v)
  BY <1>1, NoReturn
<1>5. s \in Seq(Frame) /\ NoDone(s)
  BY Zenon, FrameTypes, EmptyFrames, DoneFrames
<1>6. ASSUME u \in stale, res # None
      PROVE  res # "done"
  <2>1. Calm(u)
    BY <1>4, <1>6
  <2>2. CASE job[u].type = "reload"
    BY Zenon, <1>6, <2>1, <2>2 DEF Calm, Owed, ProcessResult
  <2>3. CASE job[u].type = "restart"
    BY Zenon, <1>6, <2>1, <2>3 DEF Calm, Owed, ProcessResult, UNIT_IS_ACTIVE_OR_RELOADING,
                      UNIT_IS_INACTIVE_OR_FAILED
  <2> QED
    BY Zenon, <2>1, <2>2, <2>3 DEF Calm, Owed
<1> HIDE DEF s, res
<1>7. s \o Tail(stack) \in Seq(Frame) /\ NoDone(s \o Tail(stack))
  BY Zenon, <1>1, <1>4, <1>5, DoneTail, DoneConcat, Concatenation
<1>8. CASE res # None
  BY Zenon, <1>1, <1>3, <1>4, <1>6, <1>7, <1>8, FinishStale
<1>9. CASE res = None
  <2>1. stack' = s \o Tail(stack) /\ ustate' = ustate /\ job' = job /\ stale' = stale
    BY <1>3, <1>9
  <2>2. NoDone(stack')
    BY Zenon, <1>7, <2>1
  <2> QED
    BY Zenon, <1>4, <2>1, <2>2, StaleKept DEF Calm, Owed
<1> QED
  BY Zenon, <1>8, <1>9

LEMMA FailStale ==
  ASSUME IInv, StaleOK, job_fail_dependencies
  PROVE  StaleOK'
<1> DEFINE s(v) == FailFrame(Head(stack).unit, Head(stack).todo \ {v})
<1>1. PICK v \in Head(stack).todo :
        \/ job_finish_and_invalidate(v, "dependency", TRUE, s(v) \o Tail(stack))
        \/ stack' = s(v) \o Tail(stack) /\ UNCHANGED <<ustate, engine, requests>>
  BY Zenon DEF job_fail_dependencies
<1>2. /\ Head(stack).op = "fail" /\ stack # <<>> /\ Typed /\ v \in Units
      /\ Tail(stack) \in Seq(Frame) /\ Head(stack).unit \in Units
      /\ Head(stack).todo \in SUBSET Units /\ stack \in Seq(Frame)
  BY Zenon, HeadFrame DEF IInv, Typed, job_fail_dependencies
<1>3. NoDone(stack) /\ \A x \in stale : Calm(x)
  BY Zenon, <1>2, NoReturn
<1>4. s(v) \in Seq(Frame) /\ NoDone(s(v))
  BY Zenon, <1>2, FrameTypes, DoneFrames
<1> HIDE DEF s
<1>5. s(v) \o Tail(stack) \in Seq(Frame) /\ NoDone(s(v) \o Tail(stack))
  BY Zenon, <1>2, <1>3, <1>4, DoneTail, DoneConcat, Concatenation
<1>6. CASE job_finish_and_invalidate(v, "dependency", TRUE, s(v) \o Tail(stack))
  <2>1. "dependency" # "done"
    OBVIOUS
  <2> QED
    BY Zenon, <1>2, <1>3, <1>5, <1>6, <2>1, FinishStale
<1>7. CASE stack' = s(v) \o Tail(stack) /\ UNCHANGED <<ustate, engine, requests>>
  <2>1. NoDone(stack')
    BY Zenon, <1>5, <1>7
  <2>2. ustate' = ustate /\ job' = job /\ stale' = stale
    BY <1>7 DEF engine
  <2> QED
    BY Zenon, <1>3, <2>1, <2>2, StaleKept DEF Calm, Owed
<1> QED
  BY Zenon, <1>1, <1>6, <1>7

\* The steps that leave the jobs alone, but for who refers to them.
LEMMA SameJobs ==
  ASSUME Typed, StaleOK, stack = <<>> \/ Head(stack).op # "return",
         NoDone(stack'), stale' \subseteq stale, job' \in [Units -> Job \cup {None}],
         \A u \in stale' : /\ UNIT_IS_ACTIVE_OR_RELOADING(ustate'[u])
                           /\ job'[u] # None
                           /\ job'[u].type = job[u].type /\ job'[u].state = job[u].state
  PROVE  StaleOK'
<1>1. \A u \in stale : Calm(u)
  BY Zenon, NoReturn
<1>2. \A u \in stale' : Calm(u)'
  BY <1>1 DEF Calm, Owed, Running
<1> QED
  BY Zenon, <1>2 DEF StaleOK, NoDone

LEMMA StaleStep ==
  ASSUME IInv, StaleOK, [Next]_vars
  PROVE  StaleOK'
<1>1. Typed /\ stack \in Seq(Frame) /\ job \in [Units -> Job \cup {None}] /\ Typed'
  BY StepHolds DEF IInv, Typed
<1>2. ASSUME stack = <<>>
      PROVE  NoDone(stack) /\ \A u \in stale : Calm(u)
  BY Zenon, <1>1, <1>2, NoReturn
<1>3. ASSUME stack = <<>>, job' = job, ustate' = ustate, stale' = stale, NoDone(stack')
      PROVE  StaleOK'
  BY Zenon, <1>2, <1>3, StaleKept DEF Calm, Owed
<1>4. ASSUME stack # <<>>, Head(stack).op # "return",
             stack' = Tail(stack), job' = job, ustate' = ustate, stale' = stale
      PROVE  StaleOK'
  <2>1. NoDone(stack) /\ \A u \in stale : Calm(u)
    BY Zenon, <1>1, <1>4, NoReturn
  <2>2. NoDone(stack')
    BY Zenon, <1>1, <1>4, <2>1, DoneTail
  <2> QED
    BY Zenon, <1>4, <2>1, <2>2, StaleKept DEF Calm, Owed
<1>5. CASE ManagerEvent
  <2>1. CASE AddJob
    BY Zenon, <1>1, <1>2, <2>1, ApplyStale, DoneFrames DEF AddJob
  <2>2. CASE ThrottleEnds
    BY Zenon, <1>2, <1>3, <2>2 DEF ThrottleEnds
  <2>3. CASE \E u \in Units : SkipJob(u)
    BY Zenon, <1>2, <1>3, <2>3 DEF SkipJob
  <2>4. CASE \E u \in Units : \E result : FinishNop(u, result)
    <3>1. PICK u \in Units : \E result : FinishNop(u, result)
      BY <2>4
    <3>2. PICK result : FinishNop(u, result)
      BY <3>1
    <3>3. NoDone(OnFailureFrame(u, result) \o TailFrame(u))
      BY Zenon, FrameTypes, DoneFrames, DoneConcat
    <3> QED
      BY Zenon, <1>3, <3>2, <3>3 DEF FinishNop
  <2>5. CASE \E u \in Units : \/ job_dispatch_timer(u) \/ bus_job_method_cancel(u)
                              \/ manager_dispatch_gc_job_queue(u)
    <3>1. stack = <<>>
      BY Zenon, <2>5 DEF job_dispatch_timer, bus_job_method_cancel, manager_dispatch_gc_job_queue
    <3>2. PICK u \in Units : \/ job_finish_and_invalidate(u, "timeout", TRUE, <<>>)
                             \/ job_finish_and_invalidate(u, "canceled", TRUE, <<>>)
                             \/ job_finish_and_invalidate(u, "collected", FALSE, <<>>)
      BY Zenon, <2>5 DEF job_dispatch_timer, bus_job_method_cancel, manager_dispatch_gc_job_queue
    <3>3. "timeout" # "done" /\ "canceled" # "done" /\ "collected" # "done"
      OBVIOUS
    <3> QED
      BY Zenon, <1>1, <1>2, <3>1, <3>2, <3>3, EmptyFrames, DoneFrames, FinishStale
  <2>6. CASE manager_clear_jobs
    <3>1. stale' = {} /\ stack' = <<>>
      BY <2>6 DEF manager_clear_jobs
    <3>2. NoDone(stack')
      BY Zenon, <3>1, DoneFrames
    <3> QED
      BY Zenon, <3>1, <3>2 DEF StaleOK, NoDone
  <2>7. CASE manager_reload
    <3>1. PICK S \in SUBSET Installed :
            job' = [u \in Units |-> IF u \in S THEN [job[u] EXCEPT !.ref = FALSE] ELSE job[u]]
      BY Zenon, <2>7 DEF manager_reload
    <3>2. stack = <<>> /\ stack' = stack /\ ustate' = ustate /\ stale' = stale
      BY Zenon, <2>7 DEF manager_reload
    <3>3. \A u \in stale : Calm(u) /\ u \in Units /\ job[u] \in Job
      BY <1>1, <1>2, <3>2 DEF Typed, Calm, Owed
    <3>4. ASSUME NEW k \in Job
          PROVE  LET l == [k EXCEPT !.ref = FALSE]
                 IN  l \in Job /\ l.type = k.type /\ l.state = k.state
      BY ZenonT(60) DEF Job
    <3>5. ASSUME NEW u \in stale'
          PROVE  /\ job'[u] # None /\ job'[u].type = job[u].type
                 /\ job'[u].state = job[u].state
      BY Zenon, <3>1, <3>2, <3>3, <3>4, UnitsAssumption
    <3>6. \A u \in stale' : UNIT_IS_ACTIVE_OR_RELOADING(ustate'[u])
      BY <3>2, <3>3 DEF Calm, Owed
    <3>7. NoDone(stack') /\ stale' \subseteq stale
      BY Zenon, <1>2, <3>2
    <3>8. job' \in [Units -> Job \cup {None}]
      BY <1>1 DEF Typed
    <3> QED
      BY Zenon, <1>1, <3>2, <3>5, <3>6, <3>7, <3>8, SameJobs
  <2>8. CASE \E u \in Units : bus_job_track_handler(u)
    <3>1. PICK u \in Units : bus_job_track_handler(u)
      BY <2>8
    <3>2. /\ stack = <<>> /\ stack' = stack /\ ustate' = ustate /\ stale' = stale
          /\ job[u] # None /\ job' = [job EXCEPT ![u].ref = FALSE]
      BY <3>1 DEF bus_job_track_handler
    <3> DEFINE j == [job[u] EXCEPT !.ref = FALSE]
    <3>3. job[u] \in Job
      BY Zenon, <1>1, <3>2
    <3>4. j \in Job /\ j.type = job[u].type /\ j.state = job[u].state
      BY ZenonT(60), <3>3 DEF Job
    <3>5. job' = [job EXCEPT ![u] = j]
      BY Zenon, <1>1, <3>2, <3>3 DEF Job
    <3> HIDE DEF j
    <3>6. \A v \in stale : Calm(v) /\ v \in Units
      BY Zenon, <1>1, <1>2, <3>2 DEF Typed
    <3>7. ASSUME NEW v \in stale'
          PROVE  /\ job'[v] # None /\ job'[v].type = job[v].type
                 /\ job'[v].state = job[v].state
      <4>1. job[v] # None /\ v \in Units
        BY Zenon, <3>2, <3>6, <3>7 DEF Calm, Owed
      <4>2. job'[v] = IF v = u THEN j ELSE job[v]
        BY Zenon, <1>1, <3>5, <4>1
      <4> QED
        BY Zenon, <3>4, <4>1, <4>2, UnitsAssumption
    <3>8. \A v \in stale' : UNIT_IS_ACTIVE_OR_RELOADING(ustate'[v])
      BY <3>2, <3>6 DEF Calm, Owed
    <3>9. NoDone(stack') /\ stale' \subseteq stale
      BY Zenon, <1>2, <3>2
    <3>10. job' \in [Units -> Job \cup {None}]
      BY Zenon, <1>1 DEF Typed
    <3> QED
      BY Zenon, <1>1, <3>2, <3>7, <3>8, <3>9, <3>10, SameJobs
  <2> QED
    BY Zenon, <1>5, <2>1, <2>2, <2>3, <2>4, <2>5, <2>6, <2>7, <2>8, RunJobStale DEF ManagerEvent
<1>6. CASE UnitEvent
  <2>1. PICK u \in Units : \E ns \in StatesOf[u], f \in BOOLEAN : UnitChanges(u, ns, f)
    BY Zenon, <1>6 DEF UnitEvent
  <2>2. PICK ns \in StatesOf[u], f \in BOOLEAN : UnitChanges(u, ns, f)
    BY Zenon, <2>1
  <2>3. /\ stack = <<>> /\ stack' = <<NotifyFrame(u, f)>> /\ job' = job
        /\ ustate' = [ustate EXCEPT ![u] = ns]
        /\ stale' = IF UNIT_IS_ACTIVE_OR_RELOADING(ns) THEN stale ELSE stale \ {u}
    BY <2>2 DEF UnitChanges, Enter
  <2>4. NoDone(stack')
    BY Zenon, <2>3, DoneFrames
  <2>5. \A v \in stale' : Calm(v) /\ v \in stale /\ UNIT_IS_ACTIVE_OR_RELOADING(ustate'[v])
    BY Zenon, <1>1, <1>2, <2>3 DEF Typed, Calm, Owed
  <2> QED
    BY Zenon, <2>3, <2>4, <2>5, StaleKept
<1>7. CASE Call
  <2>1. CASE QueueNeighbours
    <3>1. "tail" # "return"
      OBVIOUS
    <3> QED
      BY Zenon, <1>4, <2>1, <3>1 DEF QueueNeighbours
  <2>2. CASE RequestMore
    <3>1. stack # <<>> /\ Head(stack).op = "request"
      BY <2>2 DEF RequestMore
    <3>2. NoDone(stack) /\ \A u \in stale : Calm(u)
      BY Zenon, <1>1, <3>1, NoReturn
    <3> QED
      BY Zenon, <1>1, <2>2, <3>2, ApplyStale DEF RequestMore
  <2>3. CASE RequestNoMore
    BY Zenon, <1>4, <2>3 DEF RequestNoMore, engine
  <2> QED
    BY Zenon, <1>7, <2>1, <2>2, <2>3, FailStale, NotifyStale, ReturnStale DEF Call
<1>8. CASE UNCHANGED vars
  BY <1>8 DEF vars, engine, StaleOK, NoDone, AtReturn, Calm, Owed, Running
<1> QED
  BY Zenon, <1>5, <1>6, <1>7, <1>8 DEF Next

\* job_type_allows_late_merge(), job_merge_into_installed() and job_run_and_invalidate()
\* together: a reload that is asked for while the unit is up stays owed until the unit
\* has begun another reload or goes down; a job that began earlier never absorbs it.
THEOREM ReloadIsHonoured == Spec => []ReloadHonoured
<1>1. Init => StaleOK
  BY Zenon, DoneFrames DEF Init, StaleOK
<1>2. Init => IInv
  BY InitHolds
<1>3. IInv /\ [Next]_vars => IInv'
  BY StepHolds
<1>4. IInv /\ StaleOK /\ [Next]_vars => StaleOK'
  BY Zenon, StaleStep
<1>5. IInv /\ StaleOK => ReloadHonoured
  BY DEF IInv, Typed, StaleOK, Calm, Owed, ReloadHonoured, Installed
<1> QED
  BY <1>1, <1>2, <1>3, <1>4, <1>5, PTL DEF Spec
-----------------------------------------------------------------------------
(* The jobs that need a unit that did not come up *)

\* job_fail_dependencies() is still to look at u's job.
FailPending(calls, u) ==
  \E i \in DOMAIN calls : calls[i].op = "fail" /\ u \in calls[i].todo

\* The job of u will not begin a start, or its order is ignored.
Spared(u) ==
  /\ job[u] # None
  /\ \/ job[u].ignore_order
     \/ job[u].type = "reload"
     \/ job[u].type \in {"start", "verify"} /\ FailPending(stack, u)

\* A unit that did not come up is still down for the jobs recorded with it, and the
\* failure has reached them or is on its way.
Reached ==
  \A x \in unmet :
    /\ x.unit \in PROPAGATE_START_FAILURE(x.needs)
    /\ ~UNIT_IS_ACTIVE_OR_RELOADING(ustate[x.needs])
    /\ x.type \in {"start", "verify"} /\ <<x.needs, x.unit>> \in Before => Spared(x.unit)

-----------------------------------------------------------------------------
(* The call stack *)

LEMMA FailConcat ==
  ASSUME NEW s \in Seq(Frame), NEW t \in Seq(Frame), NEW u
  PROVE  FailPending(s \o t, u) <=> FailPending(s, u) \/ FailPending(t, u)
<1>1. /\ DOMAIN s = 1..Len(s) /\ DOMAIN t = 1..Len(t)
      /\ DOMAIN (s \o t) = 1..(Len(s) + Len(t))
      /\ Len(s) \in Nat /\ Len(t) \in Nat
  BY Elements, Concatenation
<1>2. \A i \in 1..Len(s) : (s \o t)[i] = s[i]
  BY <1>1, Concatenation
<1>3. \A i \in 1..Len(t) : (s \o t)[Len(s) + i] = t[i]
  BY <1>1, Concatenation
<1>4. ASSUME NEW i \in 1..(Len(s) + Len(t)), i > Len(s)
      PROVE  i - Len(s) \in 1..Len(t) /\ (s \o t)[i] = t[i - Len(s)]
  BY <1>1, <1>4, Concatenation
<1>5. FailPending(s \o t, u) => FailPending(s, u) \/ FailPending(t, u)
  BY <1>1, <1>2, <1>4 DEF FailPending
<1>6. FailPending(s, u) => FailPending(s \o t, u)
  BY <1>1, <1>2 DEF FailPending
<1>7. ASSUME NEW i \in 1..Len(t), t[i].op = "fail", u \in t[i].todo
      PROVE  FailPending(s \o t, u)
  <2>1. Len(s) + i \in DOMAIN (s \o t)
    BY <1>1
  <2> QED
    BY <2>1, <1>3, <1>7 DEF FailPending
<1>8. FailPending(t, u) => FailPending(s \o t, u)
  BY <1>1, <1>7 DEF FailPending
<1> QED
  BY <1>5, <1>6, <1>8

LEMMA FailTail ==
  ASSUME NEW s \in Seq(Frame), s # <<>>, NEW u
  PROVE  FailPending(s, u) =>
           \/ Head(s).op = "fail" /\ u \in Head(s).todo
           \/ FailPending(Tail(s), u)
<1>1. /\ DOMAIN s = 1..Len(s) /\ Len(s) \in Nat /\ Len(s) > 0 /\ Head(s) = s[1]
      /\ DOMAIN Tail(s) = 1..(Len(s) - 1)
  BY Elements, HeadAndTail
<1>2. ASSUME NEW i \in 1..Len(s), i # 1
      PROVE  i - 1 \in 1..(Len(s) - 1) /\ s[i] = Tail(s)[i - 1]
  BY <1>1, <1>2, HeadAndTail
<1> QED
  BY Zenon, <1>1, <1>2 DEF FailPending

LEMMA FailFrames ==
  ASSUME NEW u, NEW v, NEW S
  PROVE  /\ u \in S => FailPending(FailFrame(v, S), u)
         /\ ~FailPending(<<>>, u)
BY DEF FailPending, FailFrame

-----------------------------------------------------------------------------
(* How the steps keep Reached *)

LEMMA ReachedKept ==
  ASSUME Reached,
         \A x \in unmet' : /\ x \in unmet
                           /\ ~UNIT_IS_ACTIVE_OR_RELOADING(ustate'[x.needs])
                           /\ Spared(x.unit) => Spared(x.unit)'
  PROVE  Reached'
BY Zenon DEF Reached

\* Who is recorded with a unit that did not come up.
LEMMA LostFields ==
  ASSUME NEW S, NEW result, NEW newjob, NEW x \in Lost(S, result, newjob)
  PROVE  /\ x.needs \in S /\ x.unit \in PROPAGATE_START_FAILURE(x.needs)
         /\ newjob[x.unit] # None /\ x.type = newjob[x.unit].type
<1>1. PICK p \in Units \X S :
        /\ p[1] \in PROPAGATE_START_FAILURE(p[2]) /\ newjob[p[1]] # None
        /\ x = [unit |-> p[1], needs |-> p[2], type |-> newjob[p[1]].type, result |-> result]
  BY Zenon DEF Lost
<1> QED
  BY <1>1

\* A job that ends fails those that need its unit, or, if it is collected, it was not
\* one that they wait for.
LEMMA FinishReached ==
  ASSUME Typed, Reached,
         NEW u \in Units, NEW result \in JobResult, NEW recursive \in BOOLEAN,
         NEW rest \in Seq(Frame),
         recursive \/ (job[u] # None /\ \A v \in Units : ~Blocks(u, v)),
         \A v \in Units : v # u /\ FailPending(stack, v) => FailPending(rest, v),
         job_finish_and_invalidate(u, result, recursive, rest)
  PROVE  Reached'
<1>1. /\ unmet \subseteq Unmet /\ job \in [Units -> Job \cup {None}]
      /\ ustate' = ustate
  BY Zenon DEF Typed, job_finish_and_invalidate
<1>2. \A x \in Unmet : x.unit \in Units /\ x.needs \in Units
  BY DEF Unmet
<1>3. CASE PatchRestart(u, rest) /\ job[u].type = "restart"
  <2>1. unmet' = unmet /\ stack' = TailFrame(u) \o rest
    BY Zenon, <1>3 DEF PatchRestart
  <2>2. \A v \in Units : FailPending(rest, v) => FailPending(stack', v)
    BY Zenon, <2>1, FrameTypes, FailConcat
  <2> SUFFICES ASSUME NEW v \in Units, Spared(v)
               PROVE  Spared(v)'
    BY Zenon, <1>1, <1>2, <2>1, ReachedKept DEF Reached
  <2>3. CASE v # u
    <3>1. job'[v] = job[v]
      BY Zenon, <1>1, <1>3, <2>3 DEF PatchRestart
    <3> QED
      BY Zenon, <2>2, <2>3, <3>1 DEF Spared
  <2>4. CASE v = u
    <3> DEFINE j == [job[u] EXCEPT !.type = "start", !.state = "waiting"]
    <3>1. job[u] \in Job /\ job[u] # None /\ job[u].ignore_order
      <4>1. job[u] # None /\ job[u].ignore_order
        BY <1>3, <2>4 DEF Spared
      <4> QED
        BY Zenon, <1>1, <4>1
    <3>2. job' = [job EXCEPT ![u] = j]
      BY Zenon, <1>1, <1>3, <3>1 DEF PatchRestart, Job
    <3>3. j \in Job /\ j.ignore_order
      BY ZenonT(40), <3>1 DEF Job, MergingTypes
    <3> HIDE DEF j
    <3>4. job'[u] = j /\ j # None
      BY Zenon, <1>1, <3>2, <3>3, UnitsAssumption
    <3> QED
      BY Zenon, <2>4, <3>3, <3>4 DEF Spared
  <2> QED
    BY Zenon, <2>3, <2>4
<1>4. CASE Uninstall(u, result, recursive, rest)
  <2> DEFINE T == FailTargets(u, job[u].type, result, recursive)
             F == FailFrame(u, T)
             O == OnFailureFrame(u, result)
             down == /\ ~UNIT_IS_ACTIVE_OR_RELOADING(ustate[u])
                     /\ ~job[u].ignore_order
                     /\ job[u].type \in {"start", "verify"} /\ result # "done"
  <2>1. F \in Seq(Frame) /\ O \in Seq(Frame) /\ TailFrame(u) \in Seq(Frame)
    BY Zenon, FrameTypes, FailTargetsType
  <2>2. /\ stack' = F \o O \o TailFrame(u) \o rest
        /\ job' = [job EXCEPT ![u] = None]
        /\ unmet' = {x \in unmet : x.unit # u} \cup
                    (IF down THEN Lost({u}, result, job') ELSE {})
    BY Zenon, <1>4 DEF Uninstall
  <2>3. \A v \in T : FailPending(F, v)
    BY Zenon, FailFrames
  <2>4. down /\ recursive => T = PROPAGATE_START_FAILURE(u)
    BY DEF FailTargets
  <2>5. down => ~UNIT_IS_ACTIVE_OR_RELOADING(ustate[u]) /\ ~job[u].ignore_order
                /\ job[u].type \in {"start", "verify"}
    OBVIOUS
  <2> HIDE DEF F, O, T, down
  <2>6. F \o O \in Seq(Frame) /\ F \o O \o TailFrame(u) \in Seq(Frame)
    BY <2>1, Concatenation
  <2>7. ASSUME NEW v \in Units, FailPending(F, v) \/ FailPending(rest, v)
        PROVE  FailPending(stack', v)
    <3>1. FailPending(F, v) => FailPending(F \o O, v)
      BY Zenon, <2>1, FailConcat
    <3>2. FailPending(F, v) => FailPending(F \o O \o TailFrame(u), v)
      BY Zenon, <2>1, <2>6, <3>1, FailConcat
    <3> QED
      BY Zenon, <2>2, <2>6, <2>7, <3>2, FailConcat
  <2>8. \A v \in Units : v # u => job'[v] = job[v]
    BY Zenon, <1>1, <2>2
  <2>9. job'[u] = None
    BY Zenon, <1>1, <2>2
  <2>10. ASSUME NEW v \in Units, v # u, Spared(v)
         PROVE  Spared(v)'
    BY Zenon, <2>7, <2>8, <2>10 DEF Spared
  <2>11. ASSUME NEW v \in PROPAGATE_START_FAILURE(u), down, job'[v] # None,
                job'[v].type \in {"start", "verify"}, <<u, v>> \in Before
         PROVE  Spared(v)'
    <3>1. v \in Units /\ v # u /\ job'[v] = job[v]
      BY Zenon, <2>8, <2>9, <2>11 DEF PROPAGATE_START_FAILURE
    <3>2. CASE recursive
      <4>1. FailPending(stack', v)
        BY Zenon, <2>3, <2>4, <2>7, <2>11, <3>1, <3>2
      <4> QED
        BY Zenon, <2>11, <4>1 DEF Spared
    <3>3. CASE ~recursive
      <4>1. job[u] \in Job /\ job[v] \in Job /\ ~Blocks(u, v) /\ job[u] # None /\ job[v] # None
        BY Zenon, <1>1, <2>11, <3>1, <3>3
      <4>2. ~(job_compare(job[u], job[v]) < 0)
        BY Zenon, <2>11, <4>1 DEF Blocks
      <4>3. ~Stopping(job[v].type)
        BY <2>11, <3>1 DEF Stopping
      <4>4. job[v].ignore_order
        BY Zenon, <2>5, <2>11, <4>1, <4>2, <4>3, CompareSign
      <4> QED
        BY Zenon, <2>11, <3>1, <4>4 DEF Spared
    <3> QED
      BY Zenon, <3>2, <3>3
  <2>12. ASSUME NEW x \in unmet', x \in unmet, x.unit # u
         PROVE  /\ x.unit \in PROPAGATE_START_FAILURE(x.needs)
                /\ ~UNIT_IS_ACTIVE_OR_RELOADING(ustate'[x.needs])
                /\ x.type \in {"start", "verify"} /\ <<x.needs, x.unit>> \in Before
                   => Spared(x.unit)'
    BY Zenon, <1>1, <1>2, <2>10, <2>12 DEF Reached
  <2>13. ASSUME NEW x \in Lost({u}, result, job'), down
         PROVE  /\ x.unit \in PROPAGATE_START_FAILURE(x.needs)
                /\ ~UNIT_IS_ACTIVE_OR_RELOADING(ustate'[x.needs])
                /\ x.type \in {"start", "verify"} /\ <<x.needs, x.unit>> \in Before
                   => Spared(x.unit)'
    <3> DEFINE S == {u}
    <3> HIDE DEF S
    <3>1. x \in Lost(S, result, job')
      BY Zenon, <2>13 DEF S
    <3>2. /\ x.needs \in S /\ x.unit \in PROPAGATE_START_FAILURE(x.needs)
          /\ job'[x.unit] # None /\ x.type = job'[x.unit].type
      BY <3>1, LostFields
    <3>3. x.needs = u
      BY Zenon, <3>2 DEF S
    <3> QED
      BY Zenon, <1>1, <2>5, <2>11, <2>13, <3>2, <3>3
  <2> QED
    BY Zenon, <2>2, <2>12, <2>13 DEF Reached
<1> QED
  BY Zenon, <1>3, <1>4 DEF job_finish_and_invalidate

\* Merging anything but a start or a restart into a start, check or reload gives a
\* reload, or a start or check where there was one.
LEMMA MergeStartsNothing ==
  ASSUME NEW x \in {"start", "verify", "reload"}, NEW y \in MergingTypes \ {"start", "restart"},
         NEW s, job_type_lookup_merge(x, y) # "none"
  PROVE  \/ job_type_merge_and_collapse(x, y, s) = "reload"
         \/ /\ job_type_merge_and_collapse(x, y, s) \in {"start", "verify"}
            /\ x \in {"start", "verify"}
<1>1. x \in MergingTypes /\ y \in MergingTypes
  BY DEF MergingTypes
<1>2. "stop" \notin {x, y} \/ x = y
  BY <1>1, MergeTable
<1>3. CASE x = y
  BY <1>1, <1>3, MergeAndCollapse
<1>4. CASE x # y
  <2>1. y \in {"verify", "reload"}
    BY <1>2, <1>4 DEF MergingTypes
  <2> QED
    BY <1>1, <1>4, <2>1, MergeAndCollapse
<1> QED
  BY Zenon, <1>3, <1>4

\* What merging does to a job that must not begin a start: unless it asks for a start
\* itself, the merged type is a reload, or the job was a start or a check already.
LEMMA InstallSpared ==
  ASSUME Typed, NEW tr \in Transactions, NEW u \in DOMAIN tr.jobs, tr.jobs[u] # "nop",
         Spared(u), ~job_type_is_conflicting(job[u].type, tr.jobs[u]),
         tr.jobs[u] \in {"start", "restart"} => tr.mode = "ignore-dependencies"
  PROVE  \/ job_install(tr, u).ignore_order
         \/ job_install(tr, u).type = "reload"
         \/ job_install(tr, u).type \in {"start", "verify"} /\ FailPending(stack, u)
<1> DEFINE t == tr.jobs[u]
           n == job_new(tr, u)
           m == job_type_merge_and_collapse(job[u].type, t, ustate[u])
           j == job_merge_into_installed(job[u], n, ustate[u])
<1>1. u \in Units /\ t \in MergingTypes /\ job[u] # None
  BY TransactionsAssumption DEF TransactionTypes, MergingTypes, Spared
<1>2. n.type = t /\ (n.ignore_order <=> tr.mode = "ignore-dependencies")
  BY DEF job_new
<1>3. job[u] \in Job
  BY Zenon, <1>1 DEF Typed
<1>4. PICK x \in MergingTypes : x = job[u].type
  BY <1>3 DEF Job
<1>5. job_install(tr, u) \in {j, [j EXCEPT !.state = "waiting"]}
  BY <1>1 DEF job_install
<1>6. LET k == [j EXCEPT !.state = "waiting"]
      IN  /\ j.type = m /\ k.type = m
          /\ j.ignore_order <=> job[u].ignore_order \/ n.ignore_order
          /\ k.ignore_order <=> job[u].ignore_order \/ n.ignore_order
  BY Zenon, <1>2, <1>3 DEF job_merge_into_installed, Job
<1>7. job_type_lookup_merge(x, t) # "none"
  BY Zenon, <1>1, <1>4 DEF job_type_is_conflicting, job_type_is_mergeable, MergingTypes
<1>8. m = job_type_merge_and_collapse(x, t, ustate[u])
  BY Zenon, <1>4
<1> HIDE DEF m, t, n, j
<1>9. ASSUME t \notin {"start", "restart"}, x \in {"start", "verify", "reload"}
      PROVE  m = "reload" \/ (m \in {"start", "verify"} /\ x \in {"start", "verify"})
  BY Zenon, <1>1, <1>7, <1>8, <1>9, MergeStartsNothing
<1>10. CASE job[u].ignore_order \/ tr.mode = "ignore-dependencies"
  BY Zenon, <1>2, <1>5, <1>6, <1>10
<1>11. CASE ~job[u].ignore_order /\ tr.mode # "ignore-dependencies"
  <2>1. x = "reload" \/ (x \in {"start", "verify"} /\ FailPending(stack, u))
    BY Zenon, <1>4, <1>11 DEF Spared
  <2>2. t \notin {"start", "restart"}
    BY Zenon, <1>11 DEF t
  <2>3. x \in {"start", "verify", "reload"}
    BY <2>1
  <2>4. m = "reload" \/ (m \in {"start", "verify"} /\ FailPending(stack, u))
    <3>1. x = "reload" => x \notin {"start", "verify"}
      OBVIOUS
    <3> QED
      BY Zenon, <1>9, <2>1, <2>2, <2>3, <3>1
  <2>5. job_install(tr, u).type = m
    BY Zenon, <1>5, <1>6
  <2> QED
    BY Zenon, <2>4, <2>5
<1> QED
  BY Zenon, <1>10, <1>11

\* A transaction cancels jobs without failing their dependents: it replaces those too,
\* and what it asks to be started it brings along.
LEMMA ApplyReached ==
  ASSUME Typed, Reached, NEW tr \in Transactions, Closed(tr), NEW rest,
         manager_add_job(tr, rest),
         \A u \in Units : FailPending(stack, u) => FailPending(rest, u)
  PROVE  Reached'
<1> DEFINE D == Kept(tr)
           J == {u \in D : tr.jobs[u] # "nop"}
           isolated(S) == IF tr.mode \in {"isolate", "flush"}
                          THEN (S \ D) \ IgnoreOnIsolate ELSE {}
           replaced == {u \in J : job[u] # None /\ job_type_is_conflicting(job[u].type, tr.jobs[u])}
           gone == isolated(Installed) \cup replaced
           down == {u \in gone : /\ job[u].type \in {"start", "verify"}
                                 /\ ~job[u].ignore_order
                                 /\ ~UNIT_IS_ACTIVE_OR_RELOADING(ustate[u])}
           lost == {v \in down : v \notin J \/ tr.jobs[v] = "stop"}
<1>1. /\ job' = [u \in Units |-> IF u \in J THEN job_install(tr, u)
                                 ELSE IF u \in gone THEN None ELSE job[u]]
      /\ stack' = rest /\ ustate' = ustate
      /\ unmet' = {x \in unmet : x.unit \notin gone /\ ~(x.needs \in J /\ tr.jobs[x.needs] # "stop")}
                  \cup Lost(lost, "canceled", job')
  BY Zenon DEF manager_add_job
<1>2. /\ DOMAIN tr.jobs \subseteq Units
      /\ \A u \in DOMAIN tr.jobs : tr.jobs[u] \in TransactionTypes
  BY Zenon, TransactionsAssumption
<1>3. D \subseteq DOMAIN tr.jobs /\ J \subseteq DOMAIN tr.jobs
  BY Zenon DEF Kept
<1>4. /\ unmet \subseteq Unmet /\ job \in [Units -> Job \cup {None}]
      /\ \A x \in Unmet : x.unit \in Units /\ x.needs \in Units
  BY DEF Typed, Unmet
\* Who is down stays in the transaction, unless it is told to stop.
<1>5. ASSUME NEW v \in DOMAIN tr.jobs, ~UNIT_IS_ACTIVE_OR_RELOADING(ustate[v]),
             tr.jobs[v] \notin {"stop", "nop"}
      PROVE  v \in J
  BY <1>5 DEF Kept, job_type_is_redundant
\* A start is always replaced by a stop.
<1>6. ASSUME NEW u \in DOMAIN tr.jobs, tr.jobs[u] = "stop", job[u] # None,
             job[u].type # "stop"
      PROVE  u \in replaced
  <2>1. job[u] \in Job
    BY Zenon, <1>2, <1>4, <1>6
  <2>2. PICK y \in MergingTypes : y = job[u].type
    BY <2>1 DEF Job
  <2>3. "stop" \in MergingTypes /\ "stop" # "nop" /\ "nop" \notin MergingTypes
    BY DEF MergingTypes
  <2>4. /\ job_type_lookup_merge(y, "stop") = "none"
        /\ job_type_lookup_merge("stop", y) = "none"
    BY <1>6, <2>2, <2>3, MergeTable
  <2>5. /\ job_type_is_conflicting(job[u].type, "stop")
        /\ job_type_is_conflicting("stop", job[u].type)
    BY Zenon, <2>2, <2>3, <2>4 DEF job_type_is_conflicting, job_type_is_mergeable
  <2> QED
    BY Zenon, <1>6, <2>3, <2>5 DEF Kept
<1>7. ASSUME NEW u \in DOMAIN tr.jobs, tr.jobs[u] = "stop", job'[u] # None
      PROVE  job'[u].type = "stop"
  <2>1. CASE u \in replaced
    <3>1. u \in J /\ job_type_is_conflicting(job[u].type, tr.jobs[u])
      BY Zenon, <2>1
    <3>2. job'[u] = job_new(tr, u)
      BY Zenon, <1>1, <1>2, <3>1 DEF job_install
    <3>3. job_new(tr, u).type = tr.jobs[u]
      BY DEF job_new
    <3> QED
      BY Zenon, <1>7, <3>2, <3>3
  <2>2. CASE job[u] = None
    <3>1. u \in J /\ job'[u] = job_new(tr, u)
      BY Zenon, <1>1, <1>2, <1>7, <2>2 DEF job_install, Installed
    <3>2. job_new(tr, u).type = tr.jobs[u]
      BY DEF job_new
    <3> QED
      BY Zenon, <1>7, <3>1, <3>2
  <2>3. CASE job[u] # None /\ u \notin replaced
    <3>1. job[u].type = "stop"
      BY Zenon, <1>6, <1>7, <2>3
    <3>2. CASE u \notin J
      BY Zenon, <1>1, <1>2, <1>7, <3>1, <3>2
    <3>3. CASE u \in J
      <4>1. job[u] \in Job /\ "stop" \in MergingTypes
        BY Zenon, <1>2, <1>4, <2>3 DEF MergingTypes
      <4>2. job_type_merge_and_collapse("stop", "stop", ustate[u]) = "stop"
        BY <4>1, MergeAndCollapse
      <4>3. job_new(tr, u).type = "stop"
        BY <1>7 DEF job_new
      <4> DEFINE k == job_merge_into_installed(job[u], job_new(tr, u), ustate[u])
      <4>4. k.type = "stop" /\ [k EXCEPT !.state = "waiting"].type = "stop"
        BY Zenon, <3>1, <4>1, <4>2, <4>3 DEF job_merge_into_installed, Job
      <4>5. job'[u] = job_install(tr, u)
        BY Zenon, <1>1, <1>2, <3>3
      <4>6. job_install(tr, u) \in {k, [k EXCEPT !.state = "waiting"]}
        BY Zenon, <2>3, <3>3 DEF job_install
      <4> QED
        BY Zenon, <4>4, <4>5, <4>6
    <3> QED
      BY Zenon, <3>2, <3>3
  <2> QED
    BY Zenon, <2>1, <2>2, <2>3
<1>8. ASSUME NEW v \in lost, NEW u \in PROPAGATE_START_FAILURE(v), job'[u] # None
      PROVE  job'[u].type \notin {"start", "verify"}
  <2>1. v \in Units /\ u \in Units /\ v \in gone /\ v \in down
    BY Zenon, <1>2, <1>3 DEF PROPAGATE_START_FAILURE, Installed
  <2>2. SUFFICES u \in DOMAIN tr.jobs /\ tr.jobs[u] = "stop"
    BY <1>7, <1>8
  <2>3. CASE v \in J
    BY Zenon, <1>3, <1>8, <2>1, <2>3 DEF Closed
  <2>4. CASE v \notin J
    <3>1. v \notin D /\ v \notin IgnoreOnIsolate /\ tr.mode \in {"isolate", "flush"} /\ job[v] # None
      BY Zenon, <2>1, <2>4 DEF Installed
    <3>2. u \in DOMAIN tr.jobs \cup IgnoreOnIsolate
      BY Zenon, <1>1, <1>3, <1>8, <2>1, <3>1 DEF Installed
    <3>3. ~(v \in DOMAIN tr.jobs /\ tr.jobs[v] # "nop")
      <4>1. job[v].type # "stop" /\ ~UNIT_IS_ACTIVE_OR_RELOADING(ustate[v])
        BY <2>1
      <4>2. v \in DOMAIN tr.jobs => tr.jobs[v] # "stop"
        BY Zenon, <1>6, <2>4, <3>1, <4>1
      <4>3. v \in DOMAIN tr.jobs => tr.jobs[v] \in {"stop", "nop"}
        BY Zenon, <1>5, <2>4, <4>1
      <4> QED
        BY <4>2, <4>3
    <3> QED
      BY Zenon, <1>8, <2>1, <3>1, <3>2, <3>3 DEF Closed
  <2> QED
    BY Zenon, <2>3, <2>4
<1>9. ASSUME NEW x \in unmet, x.unit \notin gone, Spared(x.unit),
             ~(x.needs \in J /\ tr.jobs[x.needs] # "stop")
      PROVE  Spared(x.unit)'
  <2> DEFINE u == x.unit
             v == x.needs
  <2>1. /\ u \in Units /\ v \in Units /\ job[u] # None
        /\ u \in PROPAGATE_START_FAILURE(v) /\ ~UNIT_IS_ACTIVE_OR_RELOADING(ustate[v])
    <3>1. x \in unmet /\ job[x.unit] # None
      BY Zenon, <1>9 DEF Spared
    <3>2. x.unit \in Units /\ x.needs \in Units
      BY Zenon, <1>4, <3>1
    <3> QED
      BY Zenon, <3>1, <3>2 DEF Reached
  <2> HIDE DEF u, v
  <2>2. FailPending(stack, u) => FailPending(stack', u)
    BY Zenon, <1>1, <2>1
  <2>3. CASE u \notin J
    <3>1. job'[u] = job[u]
      BY Zenon, <1>1, <1>9, <2>1, <2>3 DEF u
    <3> QED
      BY Zenon, <1>9, <2>2, <3>1 DEF Spared, u
  <2>4. CASE u \in J
    <3>1. u \in DOMAIN tr.jobs /\ tr.jobs[u] # "nop"
      BY Zenon, <1>3, <2>4
    <3>2. ~job_type_is_conflicting(job[u].type, tr.jobs[u])
      BY Zenon, <1>9, <2>1, <2>4 DEF u
    <3>3. ASSUME tr.jobs[u] \in {"start", "restart"}, tr.mode # "ignore-dependencies"
          PROVE  FALSE
      <4>1. v \in DOMAIN tr.jobs /\ tr.jobs[v] # "nop" /\ tr.jobs[v] # "stop"
        BY Zenon, <2>1, <3>1, <3>3 DEF Closed
      <4>2. v \in J
        BY <1>5, <2>1, <4>1
      <4> QED
        BY Zenon, <1>9, <4>1, <4>2 DEF v
    <3>4. job'[u] = job_install(tr, u) /\ job'[u] # None
      BY Zenon, <1>1, <2>1, <2>4, <3>1, InstallType, UnitsAssumption
    <3>5. \/ job_install(tr, u).ignore_order
          \/ job_install(tr, u).type = "reload"
          \/ job_install(tr, u).type \in {"start", "verify"} /\ FailPending(stack, u)
      BY Zenon, <1>9, <3>1, <3>2, <3>3, InstallSpared DEF u
    <3> QED
      BY Zenon, <2>2, <3>4, <3>5 DEF Spared, u
  <2> QED
    BY Zenon, <2>3, <2>4
<1>10. ASSUME NEW x \in Lost(lost, "canceled", job')
       PROVE  /\ x.unit \in PROPAGATE_START_FAILURE(x.needs)
              /\ ~UNIT_IS_ACTIVE_OR_RELOADING(ustate'[x.needs])
              /\ x.type \notin {"start", "verify"}
  <2>1. /\ x.needs \in lost /\ x.unit \in PROPAGATE_START_FAILURE(x.needs)
        /\ job'[x.unit] # None /\ x.type = job'[x.unit].type
    <3> HIDE DEF lost
    <3> QED
      BY <1>10, LostFields
  <2> QED
    BY Zenon, <1>1, <1>8, <2>1
<1> HIDE DEF J, gone, lost
<1>11. ASSUME NEW x \in unmet', x \in unmet, x.unit \notin gone,
              ~(x.needs \in J /\ tr.jobs[x.needs] # "stop")
       PROVE  /\ x.unit \in PROPAGATE_START_FAILURE(x.needs)
              /\ ~UNIT_IS_ACTIVE_OR_RELOADING(ustate'[x.needs])
              /\ x.type \in {"start", "verify"} /\ <<x.needs, x.unit>> \in Before
                   => Spared(x.unit)'
  BY Zenon, <1>1, <1>9, <1>11 DEF Reached
<1> QED
  BY Zenon, <1>1, <1>10, <1>11 DEF Reached
\* The steps that change neither the units nor what their jobs are for.
LEMMA SameNeeds ==
  ASSUME Typed, Reached, ustate' = ustate, unmet' = unmet,
         \A v \in Units : FailPending(stack, v) => FailPending(stack', v),
         \A v \in Units : job[v] # None =>
           /\ job'[v] # None /\ job'[v].type = job[v].type
           /\ job'[v].ignore_order = job[v].ignore_order
  PROVE  Reached'
<1>1. \A x \in unmet : x.unit \in Units
  BY DEF Typed, Unmet
<1>2. ASSUME NEW v \in Units, Spared(v)
      PROVE  Spared(v)'
  BY Zenon, <1>2 DEF Spared
<1> QED
  BY Zenon, <1>1, <1>2, ReachedKept DEF Reached

LEMMA NotifyReached ==
  ASSUME IInv, Reached, unit_notify
  PROVE  Reached'
<1>1. /\ Head(stack).op = "notify" /\ stack # <<>> /\ Typed /\ stack \in Seq(Frame)
      /\ Tail(stack) \in Seq(Frame) /\ Head(stack).unit \in Units
  <2>1. stack # <<>> /\ Head(stack).op = "notify" /\ Typed
    BY Zenon DEF unit_notify, IInv
  <2> QED
    BY <2>1, HeadFrame DEF Typed
<1>2. PICK u \in Units : u = Head(stack).unit
  BY <1>1
<1> DEFINE s   == IF NotifyRequests(u, Head(stack).os, ustate[u]) THEN RequestFrame(u) ELSE <<>>
           res == IF job[u] = None THEN None
                  ELSE ProcessResult(u, ustate[u], Head(stack).reload_failure)
<1>3. IF res # None
      THEN job_finish_and_invalidate(u, res, TRUE, s \o Tail(stack))
      ELSE /\ stack' = s \o Tail(stack)
           /\ UNCHANGED <<ustate, job, unmet>>
  BY Zenon, <1>2 DEF unit_notify
<1>4. s \in Seq(Frame)
  BY Zenon, FrameTypes, EmptyFrames
<1>5. res # None => res \in JobResult
  BY DEF ProcessResult, JobResult
<1> HIDE DEF s, res
<1>6. s \o Tail(stack) \in Seq(Frame)
  BY Zenon, <1>1, <1>4, Concatenation
<1>7. \A v \in Units : FailPending(stack, v) => FailPending(s \o Tail(stack), v)
  <2>1. "notify" # "fail"
    OBVIOUS
  <2> QED
    BY Zenon, <1>1, <1>4, <2>1, FailTail, FailConcat
<1>8. CASE res # None
  <2>1. TRUE \in BOOLEAN
    OBVIOUS
  <2> QED
    BY Zenon, <1>1, <1>3, <1>5, <1>6, <1>7, <1>8, <2>1, FinishReached
<1>9. CASE res = None
  <2>1. stack' = s \o Tail(stack) /\ ustate' = ustate /\ job' = job /\ unmet' = unmet
    BY <1>3, <1>9
  <2> QED
    BY Zenon, <1>1, <1>7, <2>1, SameNeeds
<1> QED
  BY Zenon, <1>8, <1>9

LEMMA FailReached ==
  ASSUME IInv, Reached, job_fail_dependencies
  PROVE  Reached'
<1> DEFINE s(v) == FailFrame(Head(stack).unit, Head(stack).todo \ {v})
<1>1. PICK v \in Head(stack).todo :
        IF job[v] # None /\ job[v].type \in {"start", "verify"}
        THEN job_finish_and_invalidate(v, "dependency", TRUE, s(v) \o Tail(stack))
        ELSE stack' = s(v) \o Tail(stack) /\ UNCHANGED <<ustate, engine, requests>>
  BY Zenon DEF job_fail_dependencies
<1>2. /\ Head(stack).op = "fail" /\ stack # <<>> /\ Typed /\ v \in Units
      /\ Tail(stack) \in Seq(Frame) /\ Head(stack).unit \in Units
      /\ Head(stack).todo \in SUBSET Units /\ stack \in Seq(Frame)
  BY Zenon, HeadFrame DEF IInv, Typed, job_fail_dependencies
<1>3. s(v) \in Seq(Frame) /\ \A w \in Head(stack).todo : w # v => FailPending(s(v), w)
  BY Zenon, <1>2, FrameTypes, FailFrames
<1> HIDE DEF s
<1>4. s(v) \o Tail(stack) \in Seq(Frame)
  BY Zenon, <1>2, <1>3, Concatenation
<1>5. \A w \in Units : w # v /\ FailPending(stack, w) => FailPending(s(v) \o Tail(stack), w)
  BY Zenon, <1>2, <1>3, FailTail, FailConcat
<1>6. CASE job[v] # None /\ job[v].type \in {"start", "verify"}
  <2>1. TRUE \in BOOLEAN /\ "dependency" \in JobResult
    BY DEF JobResult
  <2> QED
    BY Zenon, <1>1, <1>2, <1>4, <1>5, <1>6, <2>1, FinishReached
<1>7. CASE ~(job[v] # None /\ job[v].type \in {"start", "verify"})
  <2>1. ustate' = ustate /\ job' = job /\ unmet' = unmet /\ stack' = s(v) \o Tail(stack)
    BY <1>1, <1>7 DEF engine
  <2>2. ASSUME NEW w \in Units, Spared(w)
        PROVE  Spared(w)'
    BY Zenon, <1>5, <1>7, <2>1, <2>2 DEF Spared
  <2>3. \A x \in unmet : x.unit \in Units
    BY <1>2 DEF Typed, Unmet
  <2> QED
    BY Zenon, <2>1, <2>2, <2>3, ReachedKept DEF Reached
<1> QED
  BY Zenon, <1>6, <1>7

LEMMA ReturnReached ==
  ASSUME IInv, Reached, ReturnFromUnit
  PROVE  Reached'
<1>1. /\ Head(stack).op = "return" /\ stack # <<>> /\ Typed /\ stack \in Seq(Frame)
      /\ Tail(stack) \in Seq(Frame) /\ Head(stack).unit \in Units
      /\ Head(stack).code \in Code
  BY HeadFrame DEF IInv, Typed, ReturnFromUnit
<1>2. PICK u \in Units : u = Head(stack).unit
  BY Zenon, <1>1
<1> DEFINE code == Head(stack).code
<1>3. saved # None => saved = u /\ job[u] # None
  BY Zenon, <1>1, <1>2, ReturnsTail DEF IInv, SavedOK, Typed
<1>4. \A v \in Units : FailPending(stack, v) => FailPending(Tail(stack), v)
  <2>1. "return" # "fail"
    OBVIOUS
  <2> QED
    BY Zenon, <1>1, <2>1, FailTail
<1>5. CASE saved = None \/ code = "ok"
  <2>1. stack' = Tail(stack) /\ job' = job /\ ustate' = ustate /\ unmet' = unmet
    BY Zenon, <1>2, <1>5 DEF ReturnFromUnit
  <2> QED
    BY Zenon, <1>1, <1>4, <2>1, SameNeeds
<1>6. CASE saved # None /\ code = "EAGAIN"
  <2> DEFINE j == [job[u] EXCEPT !.state = "waiting"]
  <2>1. job[u] \in Job
    BY Zenon, <1>1, <1>3, <1>6 DEF Typed
  <2>2. j \in Job /\ j.type = job[u].type /\ j.ignore_order = job[u].ignore_order
    BY Zenon, <2>1 DEF Job
  <2>3. /\ job' = [job EXCEPT ![u] = j]
        /\ stack' = Tail(stack) /\ ustate' = ustate /\ unmet' = unmet
    BY Zenon, <1>1, <1>2, <1>6, <2>1 DEF ReturnFromUnit, Typed, Job
  <2> HIDE DEF j
  <2>4. ASSUME NEW v \in Units, job[v] # None
        PROVE  /\ job'[v] # None /\ job'[v].type = job[v].type
               /\ job'[v].ignore_order = job[v].ignore_order
    <3>1. job'[v] = IF v = u THEN j ELSE job[v]
      BY Zenon, <1>1, <2>3 DEF Typed
    <3> QED
      BY Zenon, <2>2, <2>4, <3>1, UnitsAssumption
  <2>5. \A v \in Units : FailPending(stack, v) => FailPending(stack', v)
    BY Zenon, <1>4, <2>3
  <2> QED
    BY Zenon, <1>1, <2>3, <2>4, <2>5, SameNeeds
<1>7. CASE saved # None /\ code \notin {"ok", "EAGAIN"}
  <2>1. job_finish_and_invalidate(u, ResultOf(code), TRUE, Tail(stack))
    BY Zenon, <1>2, <1>7 DEF ReturnFromUnit
  <2>2. ResultOf(code) \in JobResult /\ TRUE \in BOOLEAN
    BY DEF ResultOf, JobResult
  <2> HIDE DEF code
  <2> QED
    BY Zenon, <1>1, <1>4, <2>1, <2>2, FinishReached
<1> QED
  BY Zenon, <1>5, <1>6, <1>7

\* A state that a unit enters: those that needed it need no longer, if it is up.
LEMMA EnterReached ==
  ASSUME Typed, Reached, NEW u \in Units, NEW ns, Enter(u, ns), stack = <<>>,
         \A v \in Units : job[v] # None =>
           /\ job'[v] # None /\ job'[v].type = job[v].type
           /\ job'[v].ignore_order = job[v].ignore_order
  PROVE  Reached'
<1>1. /\ ustate' = [ustate EXCEPT ![u] = ns]
      /\ unmet' = IF UNIT_IS_ACTIVE_OR_RELOADING(ns) THEN {x \in unmet : x.needs # u} ELSE unmet
  BY DEF Enter
<1>2. \A x \in unmet : x.unit \in Units /\ x.needs \in Units
  BY DEF Typed, Unmet
<1>3. \A v \in Units : ustate'[v] = IF v = u THEN ns ELSE ustate[v]
  BY <1>1 DEF Typed
<1>4. ASSUME NEW x \in unmet'
      PROVE  x \in unmet /\ ~UNIT_IS_ACTIVE_OR_RELOADING(ustate'[x.needs])
  BY Zenon, <1>1, <1>2, <1>3, <1>4 DEF Reached
<1>5. ASSUME NEW v \in Units, Spared(v)
      PROVE  Spared(v)'
  BY Zenon, <1>5, FailFrames DEF Spared
<1> QED
  BY Zenon, <1>2, <1>4, <1>5, ReachedKept
LEMMA ReachedStep ==
  ASSUME IInv, Reached, \A tr \in Transactions : Closed(tr), [Next]_vars
  PROVE  Reached'
<1>1. Typed /\ stack \in Seq(Frame) /\ job \in [Units -> Job \cup {None}]
  BY DEF IInv, Typed
<1>2. ASSUME stack = <<>>, ustate' = ustate, job' = job, unmet' = unmet
      PROVE  Reached'
  BY Zenon, <1>1, <1>2, FailFrames, SameNeeds
<1>3. ASSUME stack # <<>>, Head(stack).op # "fail", stack' = Tail(stack),
             ustate' = ustate, job' = job, unmet' = unmet
      PROVE  Reached'
  <2>1. \A v \in Units : FailPending(stack, v) => FailPending(stack', v)
    BY Zenon, <1>1, <1>3, FailTail
  <2> QED
    BY Zenon, <1>1, <1>3, <2>1, SameNeeds
<1>4. CASE ManagerEvent
  <2>1. CASE AddJob
    BY Zenon, <1>1, <2>1, ApplyReached, FailFrames DEF AddJob
  <2>2. CASE ThrottleEnds
    BY Zenon, <1>2, <2>2 DEF ThrottleEnds
  <2>3. CASE \E u \in Units : SkipJob(u)
    BY Zenon, <1>2, <2>3 DEF SkipJob
  <2>4. CASE \E u \in Units : \E result : FinishNop(u, result)
    BY Zenon, <1>2, <2>4 DEF FinishNop
  <2>5. CASE \E u \in Units : job_dispatch_timer(u) \/ bus_job_method_cancel(u)
    <3>1. PICK u \in Units : /\ stack = <<>>
                             /\ \/ job_finish_and_invalidate(u, "timeout", TRUE, <<>>)
                                \/ job_finish_and_invalidate(u, "canceled", TRUE, <<>>)
      BY Zenon, <2>5 DEF job_dispatch_timer, bus_job_method_cancel
    <3>2. "timeout" \in JobResult /\ "canceled" \in JobResult /\ TRUE \in BOOLEAN
      BY DEF JobResult
    <3> QED
      BY Zenon, <1>1, <3>1, <3>2, EmptyFrames, FailFrames, FinishReached
  <2>6. CASE \E u \in Units : manager_dispatch_gc_job_queue(u)
    <3>1. PICK u \in Units : /\ stack = <<>> /\ job_may_gc(u)
                             /\ job_finish_and_invalidate(u, "collected", FALSE, <<>>)
      BY Zenon, <2>6 DEF manager_dispatch_gc_job_queue
    <3>2. "collected" \in JobResult /\ FALSE \in BOOLEAN
      BY DEF JobResult
    <3>3. job[u] # None /\ \A v \in Units : ~Blocks(u, v)
      BY Zenon, <3>1 DEF job_may_gc
    <3> QED
      BY Zenon, <1>1, <3>1, <3>2, <3>3, EmptyFrames, FailFrames, FinishReached
  <2>7. CASE manager_clear_jobs
    BY Zenon, <2>7 DEF manager_clear_jobs, Reached
  <2>8. CASE manager_reload
    <3>1. PICK S \in SUBSET Installed :
            job' = [u \in Units |-> IF u \in S THEN [job[u] EXCEPT !.ref = FALSE] ELSE job[u]]
      BY Zenon, <2>8 DEF manager_reload
    <3>2. stack = <<>> /\ ustate' = ustate /\ unmet' = unmet
      BY Zenon, <2>8 DEF manager_reload
    <3>3. ASSUME NEW k \in Job
          PROVE  LET l == [k EXCEPT !.ref = FALSE]
                 IN  l \in Job /\ l.type = k.type /\ l.ignore_order = k.ignore_order
      BY ZenonT(60) DEF Job
    <3>4. ASSUME NEW v \in Units, job[v] # None
          PROVE  /\ job'[v] # None /\ job'[v].type = job[v].type
                 /\ job'[v].ignore_order = job[v].ignore_order
      <4>1. job[v] \in Job
        BY Zenon, <1>1, <3>4
      <4> QED
        BY Zenon, <3>1, <3>3, <3>4, <4>1, UnitsAssumption
    <3> QED
      BY Zenon, <1>1, <3>2, <3>4, FailFrames, SameNeeds
  <2>9. CASE \E u \in Units : bus_job_track_handler(u)
    <3>1. PICK u \in Units : bus_job_track_handler(u)
      BY <2>9
    <3>2. /\ stack = <<>> /\ ustate' = ustate /\ unmet' = unmet
          /\ job[u] # None /\ job' = [job EXCEPT ![u].ref = FALSE]
      BY <3>1 DEF bus_job_track_handler
    <3> DEFINE j == [job[u] EXCEPT !.ref = FALSE]
    <3>3. job[u] \in Job
      BY Zenon, <1>1, <3>2
    <3>4. j \in Job /\ j.type = job[u].type /\ j.ignore_order = job[u].ignore_order
      BY ZenonT(60), <3>3 DEF Job
    <3>5. job' = [job EXCEPT ![u] = j]
      BY Zenon, <1>1, <3>2, <3>3 DEF Job
    <3> HIDE DEF j
    <3>6. ASSUME NEW v \in Units, job[v] # None
          PROVE  /\ job'[v] # None /\ job'[v].type = job[v].type
                 /\ job'[v].ignore_order = job[v].ignore_order
      <4>1. job'[v] = IF v = u THEN j ELSE job[v]
        BY Zenon, <1>1, <3>5
      <4> QED
        BY Zenon, <3>4, <3>6, <4>1, UnitsAssumption
    <3> QED
      BY Zenon, <1>1, <3>2, <3>6, FailFrames, SameNeeds
  <2>10. CASE \E u \in Units : RunJob(u)
    <3>1. PICK u \in Units : RunJob(u)
      BY <2>10
    <3>2. PICK a \in job_perform_on_unit(u) : Enter(u, a.ns)
      BY Zenon, <3>1 DEF RunJob
    <3>3. /\ stack = <<>> /\ job[u] # None
          /\ job' = [job EXCEPT ![u].state = "running", ![u].ran = TRUE]
      BY Zenon, <3>1 DEF RunJob, Waiting
    <3> DEFINE j == [job[u] EXCEPT !.state = "running", !.ran = TRUE]
    <3>4. job[u] \in Job
      BY Zenon, <1>1, <3>3
    <3>5. /\ j \in Job /\ j.type = job[u].type /\ j.ignore_order = job[u].ignore_order
          /\ job' = [job EXCEPT ![u] = j]
      BY ZenonT(60), <1>1, <3>3, <3>4 DEF Job
    <3> HIDE DEF j
    <3>6. ASSUME NEW v \in Units, job[v] # None
          PROVE  /\ job'[v] # None /\ job'[v].type = job[v].type
                 /\ job'[v].ignore_order = job[v].ignore_order
      <4>1. job'[v] = IF v = u THEN j ELSE job[v]
        BY Zenon, <1>1, <3>5
      <4> QED
        BY Zenon, <3>5, <3>6, <4>1, UnitsAssumption
    <3> QED
      BY Zenon, <1>1, <3>2, <3>3, <3>6, EnterReached
  <2> QED
    BY Zenon, <1>4, <2>1, <2>2, <2>3, <2>4, <2>5, <2>6, <2>7, <2>8, <2>9, <2>10 DEF ManagerEvent
<1>5. CASE UnitEvent
  <2>1. PICK u \in Units : \E ns \in StatesOf[u], f \in BOOLEAN : UnitChanges(u, ns, f)
    BY Zenon, <1>5 DEF UnitEvent
  <2>2. PICK ns \in StatesOf[u], f \in BOOLEAN : UnitChanges(u, ns, f)
    BY Zenon, <2>1
  <2>3. Enter(u, ns) /\ stack = <<>> /\ job' = job
    BY Zenon, <2>2 DEF UnitChanges
  <2> QED
    BY Zenon, <1>1, <2>3, EnterReached
<1>6. CASE Call
  <2>1. "tail" # "fail" /\ "request" # "fail"
    OBVIOUS
  <2>2. CASE QueueNeighbours
    BY Zenon, <1>3, <2>1, <2>2 DEF QueueNeighbours
  <2>3. CASE RequestMore
    BY Zenon, <1>1, <2>3, ApplyReached DEF RequestMore
  <2>4. CASE RequestNoMore
    BY Zenon, <1>3, <2>1, <2>4 DEF RequestNoMore, engine
  <2> QED
    BY Zenon, <1>6, <2>2, <2>3, <2>4, FailReached, NotifyReached, ReturnReached DEF Call
<1>7. CASE UNCHANGED vars
  BY <1>7 DEF vars, engine, Reached, Spared, FailPending
<1> QED
  BY Zenon, <1>4, <1>5, <1>6, <1>7 DEF Next
\* The job of u waited, and now it runs.
Began(u) == Waiting(u) /\ Running(u)'

LEMMA FinishBegins ==
  ASSUME Typed, NEW u, NEW result, NEW recursive, NEW rest,
         job_finish_and_invalidate(u, result, recursive, rest), NEW v \in Units
  PROVE  ~Began(v)
<1>1. job \in [Units -> Job \cup {None}]
  BY Zenon DEF Typed
<1>2. CASE v # u
  <2>1. job'[v] = job[v]
    BY Zenon, <1>1, <1>2 DEF job_finish_and_invalidate, PatchRestart, Uninstall
  <2> QED
    BY <2>1 DEF Began, Waiting, Running
<1>3. CASE v = u
  <2>1. CASE PatchRestart(u, rest) /\ job[u] # None
    <3> DEFINE j == [job[u] EXCEPT !.type = "start", !.state = "waiting"]
    <3>1. job[u] \in Job
      BY Zenon, <1>1, <1>3, <2>1
    <3>2. job' = [job EXCEPT ![u] = j] /\ j.state = "waiting"
      BY Zenon, <1>1, <2>1, <3>1 DEF PatchRestart, Job
    <3> HIDE DEF j
    <3>3. job'[u] = j
      BY Zenon, <1>1, <1>3, <3>2
    <3> QED
      BY <1>3, <3>2, <3>3 DEF Began, Running
  <2>2. CASE job' = [job EXCEPT ![u] = None]
    BY Zenon, <1>1, <1>3, <2>2 DEF Began, Running
  <2> QED
    BY Zenon, <1>3, <2>1, <2>2 DEF job_finish_and_invalidate, Uninstall, Began, Waiting
<1> QED
  BY Zenon, <1>2, <1>3

LEMMA ApplyBegins ==
  ASSUME Typed, NEW tr \in Transactions, NEW rest, manager_add_job(tr, rest), NEW v \in Units
  PROVE  ~Began(v)
<1> DEFINE J == {u \in Kept(tr) : tr.jobs[u] # "nop"}
<1>1. \/ v \in J /\ job'[v] = job_install(tr, v)
      \/ job'[v] = None \/ job'[v] = job[v]
  BY Zenon DEF manager_add_job
<1>2. CASE v \in J /\ job'[v] = job_install(tr, v)
  <2>1. v \in DOMAIN tr.jobs /\ tr.jobs[v] # "nop"
    BY Zenon, <1>2 DEF Kept
  <2>2. job'[v].state = "running" => job[v].state = "running"
    BY Zenon, <1>2, <2>1, InstallState DEF Running
  <2> QED
    BY <2>2 DEF Began, Waiting, Running
<1>3. CASE job'[v] = None \/ job'[v] = job[v]
  BY <1>3 DEF Began, Waiting, Running
<1> QED
  BY Zenon, <1>1, <1>2, <1>3

\* Only job_run_and_invalidate() makes a job run, with no call in progress.
LEMMA OnlyRunJob ==
  ASSUME IInv, [Next]_vars, NEW v \in Units, Began(v)
  PROVE  stack = <<>>
<1>1. Typed /\ job \in [Units -> Job \cup {None}]
  BY DEF IInv, Typed
<1>2. job' # job
  BY DEF Began, Waiting, Running
<1> SUFFICES ASSUME stack # <<>>
             PROVE  FALSE
  OBVIOUS
<1>3. ~ManagerEvent
  BY Zenon DEF ManagerEvent, AddJob, ThrottleEnds, manager_clear_jobs, manager_reload, RunJob,
     SkipJob, FinishNop, job_dispatch_timer, bus_job_method_cancel, bus_job_track_handler,
     manager_dispatch_gc_job_queue
<1>4. ~UnitEvent
  BY Zenon DEF UnitEvent, UnitChanges
<1>5. ~UNCHANGED vars
  BY <1>2 DEF vars, engine
<1>6. ASSUME job_fail_dependencies PROVE FALSE
  <2>1. PICK u \in Head(stack).todo :
          \/ job_finish_and_invalidate(u, "dependency", TRUE,
               FailFrame(Head(stack).unit, Head(stack).todo \ {u}) \o Tail(stack))
          \/ UNCHANGED engine
    BY Zenon, <1>6 DEF job_fail_dependencies
  <2> QED
    BY Zenon, <1>1, <1>2, <2>1, FinishBegins DEF engine
<1>7. ASSUME unit_notify PROVE FALSE
  <2> DEFINE u == Head(stack).unit
             s == IF NotifyRequests(u, Head(stack).os, ustate[u]) THEN RequestFrame(u) ELSE <<>>
             res == IF job[u] = None THEN None
                    ELSE ProcessResult(u, ustate[u], Head(stack).reload_failure)
  <2>1. job_finish_and_invalidate(u, res, TRUE, s \o Tail(stack)) \/ job' = job
    BY Zenon, <1>7 DEF unit_notify
  <2> HIDE DEF u, s, res
  <2> QED
    BY Zenon, <1>1, <1>2, <2>1, FinishBegins
<1>8. ASSUME ReturnFromUnit PROVE FALSE
  <2> DEFINE u == Head(stack).unit
             code == Head(stack).code
  <2>1. \/ job' = job
        \/ job' = [job EXCEPT ![u].state = "waiting"]
        \/ job_finish_and_invalidate(u, ResultOf(code), TRUE, Tail(stack))
    BY Zenon, <1>8 DEF ReturnFromUnit
  <2> HIDE DEF u, code
  <2>2. CASE job' = [job EXCEPT ![u].state = "waiting"]
    <3>1. CASE v # u
      <4>1. job'[v] = job[v]
        BY Zenon, <1>1, <2>2, <3>1
      <4> QED
        BY <4>1 DEF Began, Waiting, Running
    <3>2. CASE v = u
      <4>1. job[u] \in Job
        BY Zenon, <1>1, <3>2 DEF Began, Waiting
      <4>2. job'[u] = [job[u] EXCEPT !.state = "waiting"]
        BY Zenon, <1>1, <2>2, <3>2
      <4>3. job'[u].state = "waiting"
        BY Zenon, <4>1, <4>2 DEF Job
      <4> QED
        BY <3>2, <4>3 DEF Began, Running
    <3> QED
      BY Zenon, <3>1, <3>2
  <2> QED
    BY Zenon, <1>1, <1>2, <2>1, <2>2, FinishBegins
<1>9. ~RequestMore
  BY Zenon, <1>1, ApplyBegins DEF RequestMore
<1>10. ~QueueNeighbours /\ ~RequestNoMore
  BY Zenon, <1>2 DEF QueueNeighbours, RequestNoMore, engine
<1> QED
  BY Zenon, <1>3, <1>4, <1>5, <1>6, <1>7, <1>8, <1>9, <1>10 DEF Next, Call

\* job_fail_dependencies() reaches every start job that needs a unit that did not come
\* up and is ordered after it, and job_may_gc() lets no job be collected that one of
\* them waits for: none of them begins, whatever the units and their dependencies are,
\* as long as the transactions keep the requirements together (Closed).
THEOREM FailureIsPropagated ==
  ASSUME \A tr \in Transactions : Closed(tr)
  PROVE  Spec => FailurePropagated
<1> DEFINE A == \A x \in unmet : x.type \in {"start", "verify"} => ~Begins(x)
<1>1. Init => Reached
  BY DEF Init, Reached
<1>2. Init => IInv
  BY InitHolds
<1>3. IInv /\ [Next]_vars => IInv'
  BY StepHolds
<1>4. IInv /\ Reached /\ [Next]_vars => Reached'
  BY Zenon, ReachedStep
<1>5. IInv /\ Reached /\ [Next]_vars => [A]_vars
  <2> SUFFICES ASSUME IInv, Reached, [Next]_vars, NEW x \in unmet,
                      x.type \in {"start", "verify"}, Begins(x)
               PROVE  FALSE
    BY Zenon
  <2>1. x.unit \in Units
    BY DEF IInv, Typed, Unmet
  <2>2. Began(x.unit)
    BY Zenon DEF Begins, Began, Running
  <2>3. stack = <<>>
    BY Zenon, <2>1, <2>2, OnlyRunJob
  <2>4. Spared(x.unit)
    BY Zenon DEF Reached, Begins
  <2>5. job[x.unit].type = "reload"
    BY Zenon, <2>3, <2>4, FailFrames DEF Spared, Begins
  <2> QED
    BY <2>5 DEF Begins
<1> QED
  BY <1>1, <1>2, <1>3, <1>4, <1>5, PTL DEF Spec, FailurePropagated
=============================================================================
