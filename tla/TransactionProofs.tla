-------------------------- MODULE TransactionProofs -------------------------
(***************************************************************************)
(* What transaction_activate() leaves of a transaction: the anchor, what   *)
(* the jobs need, and no ordering cycle, for every set of units, every     *)
(* dependencies between them and every order in which tables are walked.   *)
(***************************************************************************)
EXTENDS Transaction, SequenceTheorems, WellFoundedInduction, TLAPS

-----------------------------------------------------------------------------
(* Lists of types *)

Elements(s) == {s[i] : i \in DOMAIN s}

LEMMA Smallest ==
  ASSUME NEW T \in SUBSET Nat, T # {}
  PROVE  \E x \in T : \A y \in T : ~(y < x)
<1>1. \E x \in T : \A y \in T : <<y, x>> \notin OpToRel(<, Nat)
  BY Zenon, WFMin, NatLessThanWellFounded
<1> QED
  BY Zenon, <1>1 DEF OpToRel

\* Induction up to n, for a property given by the set of the numbers that have it.
LEMMA UpTo ==
  ASSUME NEW m \in Nat, NEW n \in Nat, NEW H,
         m \in H, \A i \in m..n : i \in H /\ i < n => i + 1 \in H
  PROVE  \A i \in m..n : i \in H
<1> SUFFICES ASSUME {i \in m..n : i \notin H} # {} PROVE FALSE
  OBVIOUS
<1>1. {i \in m..n : i \notin H} \in SUBSET Nat
  OBVIOUS
<1>2. PICK x \in {i \in m..n : i \notin H} : \A y \in {i \in m..n : i \notin H} : ~(y < x)
  BY <1>1, Smallest, Zenon
<1>3. x # m /\ x - 1 \in m..n /\ x - 1 \in H /\ x - 1 < n
  BY <1>2
<1> QED
  BY <1>2, <1>3

LEMMA AppendElements ==
  ASSUME NEW q \in Seq(TransactionTypes), NEW e \in TransactionTypes
  PROVE  Append(q, e) \in Seq(TransactionTypes) /\ Elements(Append(q, e)) = Elements(q) \cup {e}
<1>1. /\ Append(q, e) \in Seq(TransactionTypes)
      /\ Len(q) \in Nat /\ DOMAIN q = 1..Len(q)
      /\ DOMAIN Append(q, e) = 1..(Len(q) + 1)
      /\ \A i \in 1..Len(q) : Append(q, e)[i] = q[i]
      /\ Append(q, e)[Len(q) + 1] = e
  OBVIOUS
<1> QED
  BY <1>1 DEF Elements

\* Without(): the loop ends, and keeps what it should.
IsKept(f, s, T, n) ==
  f = [i \in 0..n |-> IF i = 0 THEN <<>>
                      ELSE IF s[i] \in T THEN f[i - 1] ELSE Append(f[i - 1], s[i])]

LEMMA KeptExists ==
  ASSUME NEW s, NEW T, NEW n \in Nat
  PROVE  \E f : IsKept(f, s, T, n)
<1> DEFINE Body(f, i) == IF i = 0 THEN <<>>
                         ELSE IF s[i] \in T THEN f[i - 1] ELSE Append(f[i - 1], s[i])
           H == {m \in Nat : \E f : f = [i \in 0..m |-> Body(f, i)]}
<1>0. /\ \A f, g : Body(f, 0) = Body(g, 0)
      /\ \A f, g, i : f[i - 1] = g[i - 1] => Body(f, i) = Body(g, i)
  BY Zenon
<1> HIDE DEF Body
<1>1. 0 \in H
  <2> DEFINE f == [i \in 0..0 |-> Body(<<>>, i)]
  <2>1. f = [i \in 0..0 |-> Body(f, i)]
    BY <1>0
  <2> QED
    BY <2>1
<1>2. ASSUME NEW m \in 0..n, m \in H, m < n
      PROVE  m + 1 \in H
  <2>1. PICK f : f = [i \in 0..m |-> Body(f, i)]
    BY <1>2
  <2> DEFINE g == [i \in 0..(m + 1) |-> IF i = m + 1 THEN Body(f, i) ELSE f[i]]
  <2>2. \A i \in 0..(m + 1) : g[i] = Body(g, i)
    <3>1. ASSUME NEW i \in 0..(m + 1) PROVE g[i] = Body(g, i)
      <4>1. g[i] = Body(f, i)
        BY <2>1, <3>1
      <4>2. i # 0 => g[i - 1] = f[i - 1]
        BY <3>1
      <4> QED
        BY <1>0, <4>1, <4>2
    <3> QED
      BY <3>1
  <2>3. g = [i \in 0..(m + 1) |-> Body(g, i)]
    BY <2>2, Zenon
  <2> HIDE DEF g
  <2> QED
    BY <2>3
<1>4. \A i \in 0..n : i \in H
  <2> HIDE DEF H
  <2> QED
    BY <1>1, <1>2, UpTo
<1>5. \E f : f = [i \in 0..n |-> Body(f, i)]
  BY <1>4
<1> QED
  BY <1>5, Zenon DEF Body, IsKept

LEMMA WithoutList ==
  ASSUME NEW s \in Seq(TransactionTypes), NEW T
  PROVE  /\ Without(s, T) \in Seq(TransactionTypes)
         /\ Elements(Without(s, T)) = Elements(s) \ T
         /\ Len(Without(s, T)) <= Len(s)
<1>0. PICK n \in Nat : n = Len(s) /\ DOMAIN s = 1..n
  OBVIOUS
<1> DEFINE Body(f, i) == IF i = 0 THEN <<>>
                         ELSE IF s[i] \in T THEN f[i - 1] ELSE Append(f[i - 1], s[i])
<1>1. PICK f : f = [i \in 0..n |-> Body(f, i)] /\ Without(s, T) = f[n]
  <2>1. \E f : IsKept(f, s, T, n)
    BY <1>0, KeptExists, Zenon
  <2> QED
    BY <1>0, <2>1, Zenon DEF Without, IsKept
<1>2. \A i \in 0..n : f[i] = Body(f, i)
  BY <1>1, Zenon
<1>3. f[0] = <<>>
  <2>1. 0 \in 0..n
    OBVIOUS
  <2> QED
    BY <1>2, <2>1, Zenon
<1>4. ASSUME NEW m \in Nat, m < n
      PROVE  f[m + 1] = IF s[m + 1] \in T THEN f[m] ELSE Append(f[m], s[m + 1])
  <2>1. m + 1 \in 0..n /\ m + 1 # 0 /\ (m + 1) - 1 = m
    BY <1>4
  <2>2. f[m + 1] = IF m + 1 = 0 THEN <<>>
                   ELSE IF s[m + 1] \in T THEN f[(m + 1) - 1] ELSE Append(f[(m + 1) - 1], s[m + 1])
    BY <1>2, <2>1, Zenon
  <2> QED
    BY <2>1, <2>2, Zenon
<1> DEFINE P(m) == /\ f[m] \in Seq(TransactionTypes)
                   /\ Elements(f[m]) = {s[i] : i \in 1..m} \ T
                   /\ Len(f[m]) <= m
<1>5. P(0)
  <2>1. /\ <<>> \in Seq(TransactionTypes) /\ Elements(<<>>) = {} /\ Len(<<>>) = 0
        /\ {s[i] : i \in 1..0} = {}
    BY DEF Elements
  <2> QED
    BY <1>3, <2>1
<1>6. ASSUME NEW m \in 0..n, P(m), m < n
      PROVE  P(m + 1)
  <2>1. PICK e \in TransactionTypes : e = s[m + 1]
    BY <1>0, <1>6
  <2>2. PICK q \in Seq(TransactionTypes) :
          q = f[m] /\ Elements(q) = {s[i] : i \in 1..m} \ T /\ Len(q) <= m
    BY <1>6
  <2>3. {s[i] : i \in 1..(m + 1)} = {s[i] : i \in 1..m} \cup {e}
    BY <2>1
  <2>4. Append(q, e) \in Seq(TransactionTypes) /\ Elements(Append(q, e)) = Elements(q) \cup {e}
    BY AppendElements
  <2>5. f[m + 1] = IF e \in T THEN q ELSE Append(q, e)
    BY <1>4, <1>6, <2>1, <2>2
  <2>6. PICK r \in Seq(TransactionTypes) :
          r = f[m + 1] /\ Elements(r) = IF e \in T THEN Elements(q) ELSE Elements(q) \cup {e}
    BY <2>4, <2>5, Zenon
  <2>7. Elements(r) = {s[i] : i \in 1..(m + 1)} \ T
    <3>1. PICK A : A = {s[i] : i \in 1..m}
      BY Zenon
    <3>2. Elements(r) = (A \cup {e}) \ T
      BY <2>2, <2>6, <3>1
    <3> QED
      BY <2>3, <3>1, <3>2, Zenon
  <2>8. Len(r) <= m + 1
    BY <1>6, <2>2, <2>5, <2>6
  <2> QED
    BY <2>6, <2>7, <2>8
<1>7. P(n)
  <2> DEFINE H == {m \in Nat : P(m)}
  <2> HIDE DEF P
  <2>1. 0 \in H /\ \A m \in 0..n : m \in H /\ m < n => m + 1 \in H
    BY <1>5, <1>6
  <2> HIDE DEF H
  <2>2. \A i \in 0..n : i \in H
    <3>1. 0 \in Nat
      OBVIOUS
    <3> QED
      BY <1>0, <2>1, <3>1, UpTo, Zenon
  <2>3. n \in H
    BY <2>2
  <2> QED
    BY <2>3 DEF H
<1>8. Elements(s) = {s[i] : i \in 1..n}
  BY <1>0 DEF Elements
<1> QED
  BY <1>0, <1>1, <1>7, <1>8, Zenon

-----------------------------------------------------------------------------
(* The merging table *)

LEMMA Ords ==
  /\ Ord("start") = 0 /\ Ord("verify") = 1 /\ Ord("stop") = 2
  /\ Ord("reload") = 3 /\ Ord("restart") = 4
BY DEF Ord

LEMMA Rows ==
  /\ ((1 - 1) * 1) \div 2 = 0 /\ ((2 - 1) * 2) \div 2 = 1
  /\ ((3 - 1) * 3) \div 2 = 3 /\ ((4 - 1) * 4) \div 2 = 6
OBVIOUS

LEMMA Entries ==
  /\ job_merging_table[1] = "start"           /\ job_merging_table[2] = "none"
  /\ job_merging_table[3] = "none"            /\ job_merging_table[4] = "reload-or-start"
  /\ job_merging_table[5] = "reload"          /\ job_merging_table[6] = "none"
  /\ job_merging_table[7] = "restart"         /\ job_merging_table[8] = "restart"
  /\ job_merging_table[9] = "none"            /\ job_merging_table[10] = "restart"
BY DEF job_merging_table

\* The merging table, read as a function: it is symmetric.
LEMMA MergeTable ==
  ASSUME NEW x \in MergingTypes, NEW y \in MergingTypes
  PROVE  job_type_lookup_merge(x, y) =
           IF x = y THEN x
           ELSE IF "stop" \in {x, y} THEN "none"
           ELSE IF "restart" \in {x, y} THEN "restart"
           ELSE IF "reload" \notin {x, y} THEN "start"
           ELSE IF "start" \in {x, y} THEN "reload-or-start" ELSE "reload"
<1>1. CASE x = "start"
  BY <1>1, Ords, Rows, Entries DEF MergingTypes, job_type_lookup_merge
<1>2. CASE x = "verify"
  BY <1>2, Ords, Rows, Entries DEF MergingTypes, job_type_lookup_merge
<1>3. CASE x = "stop"
  BY <1>3, Ords, Rows, Entries DEF MergingTypes, job_type_lookup_merge
<1>4. CASE x = "reload"
  BY <1>4, Ords, Rows, Entries DEF MergingTypes, job_type_lookup_merge
<1>5. CASE x = "restart"
  BY <1>5, Ords, Rows, Entries DEF MergingTypes, job_type_lookup_merge
<1> QED
  BY <1>1, <1>2, <1>3, <1>4, <1>5 DEF MergingTypes

\* Merging two types and collapsing the result, by cases on the unit's state.
LEMMA MergeAndCollapse ==
  ASSUME NEW x \in MergingTypes, NEW y \in MergingTypes, NEW s
  PROVE  job_type_merge_and_collapse(x, y, s) =
           IF x = y THEN x
           ELSE IF "stop" \in {x, y} THEN "none"
           ELSE IF "restart" \in {x, y} THEN "restart"
           ELSE IF "reload" \notin {x, y} THEN "start"
           ELSE IF "start" \in {x, y} /\ ~UNIT_IS_ACTIVE_OR_RELOADING(s)
                THEN "start" ELSE "reload"
<1>1. /\ job_type_collapse("reload-or-start", s) =
           IF UNIT_IS_ACTIVE_OR_RELOADING(s) THEN "reload" ELSE "start"
      /\ \A t \in MergingTypes : job_type_collapse(t, s) = t
  BY DEF job_type_collapse, MergingTypes
<1>2. job_type_lookup_merge(x, y) \in MergingTypes \cup {"reload-or-start", "none"}
  BY MergeTable DEF MergingTypes
<1> QED
  BY <1>1, <1>2, MergeTable DEF job_type_merge_and_collapse, MergingTypes

LEMMA MergeTwo ==
  ASSUME NEW x \in MergingTypes, NEW y \in MergingTypes, NEW s, NEW r,
         r = job_type_merge_and_collapse(x, y, s)
  PROVE  /\ r \in MergingTypes \cup {"none"}
         /\ r \in {"start", "restart"} => x \in {"start", "restart"} \/ y \in {"start", "restart"}
         /\ x \in {"start", "reload", "restart"} \/ y = "start"
              => r \in {"start", "reload", "restart", "none"}
         /\ "stop" \in {x, y} => r \in {"stop", "none"}
BY MergeAndCollapse DEF MergingTypes

\* The loop of transaction_merge_jobs() over the jobs of a unit.
IsMerged(f, s, state, n) ==
  f = [i \in 1..n |-> IF i = 1 THEN s[1]
                      ELSE IF f[i - 1] = "none" THEN "none"
                      ELSE job_type_merge_and_collapse(f[i - 1], s[i], state)]

LEMMA MergedExists ==
  ASSUME NEW s, NEW state, NEW n \in Nat, n >= 1
  PROVE  \E f : IsMerged(f, s, state, n)
<1> DEFINE Body(f, i) == IF i = 1 THEN s[1]
                         ELSE IF f[i - 1] = "none" THEN "none"
                         ELSE job_type_merge_and_collapse(f[i - 1], s[i], state)
           H == {m \in Nat : \E f : f = [i \in 1..m |-> Body(f, i)]}
<1>0. /\ \A f, g : Body(f, 1) = Body(g, 1)
      /\ \A f, g, i : f[i - 1] = g[i - 1] => Body(f, i) = Body(g, i)
  BY Zenon
<1> HIDE DEF Body
<1>1. 1 \in H
  <2> DEFINE f == [i \in 1..1 |-> Body(<<>>, i)]
  <2>1. f = [i \in 1..1 |-> Body(f, i)]
    BY <1>0
  <2> QED
    BY <2>1
<1>2. ASSUME NEW m \in 1..n, m \in H, m < n
      PROVE  m + 1 \in H
  <2>1. PICK f : f = [i \in 1..m |-> Body(f, i)]
    BY <1>2
  <2> DEFINE g == [i \in 1..(m + 1) |-> IF i = m + 1 THEN Body(f, i) ELSE f[i]]
  <2>2. \A i \in 1..(m + 1) : g[i] = Body(g, i)
    <3>1. ASSUME NEW i \in 1..(m + 1) PROVE g[i] = Body(g, i)
      <4>1. g[i] = Body(f, i)
        BY <2>1, <3>1
      <4>2. i # 1 => g[i - 1] = f[i - 1]
        BY <3>1
      <4> QED
        BY <1>0, <4>1, <4>2
    <3> QED
      BY <3>1
  <2>3. g = [i \in 1..(m + 1) |-> Body(g, i)]
    BY <2>2, Zenon
  <2> HIDE DEF g
  <2> QED
    BY <2>3
<1>3. \A i \in 1..n : i \in H
  <2> HIDE DEF H
  <2> QED
    BY <1>1, <1>2, UpTo
<1>4. \E f : f = [i \in 1..n |-> Body(f, i)]
  BY <1>3
<1> QED
  BY <1>4, Zenon DEF Body, IsMerged

\* Merging a list of types: it starts its unit only if one of them does; a start among
\* them is kept in the result, and so is a stop.
LEMMA MergeListType ==
  ASSUME NEW s \in Seq(MergingTypes), s # <<>>, NEW state, NEW r, r = MergeList(s, state)
  PROVE  /\ r \in MergingTypes \cup {"none"}
         /\ r \in {"start", "restart"} => Elements(s) \intersect {"start", "restart"} # {}
         /\ "start" \in Elements(s) => r \in {"start", "reload", "restart", "none"}
         /\ "stop" \in Elements(s) => r \in {"stop", "none"}
<1>0. PICK n \in Nat : n = Len(s) /\ n >= 1 /\ DOMAIN s = 1..n
  OBVIOUS
<1> DEFINE Body(f, i) == IF i = 1 THEN s[1]
                         ELSE IF f[i - 1] = "none" THEN "none"
                         ELSE job_type_merge_and_collapse(f[i - 1], s[i], state)
<1>1. PICK f : f = [i \in 1..n |-> Body(f, i)] /\ r = f[n]
  <2>1. \E f : IsMerged(f, s, state, n)
    BY <1>0, MergedExists
  <2> QED
    BY <1>0, <2>1, Zenon DEF MergeList, IsMerged
<1>2. \A i \in 1..n : f[i] = Body(f, i)
  BY <1>1, Zenon
<1>3. f[1] = s[1]
  <2>1. 1 \in 1..n
    BY <1>0
  <2> QED
    BY <1>2, <2>1, Zenon
<1>4. ASSUME NEW m \in 1..n, m < n
      PROVE  f[m + 1] = IF f[m] = "none" THEN "none"
                        ELSE job_type_merge_and_collapse(f[m], s[m + 1], state)
  <2>1. m + 1 \in 1..n /\ m + 1 # 1 /\ (m + 1) - 1 = m
    BY <1>4
  <2> QED
    BY <1>2, <2>1, Zenon
<1> DEFINE Had(t, m) == \E i \in 1..m : s[i] = t
           P(m) == /\ f[m] \in MergingTypes \cup {"none"}
                   /\ f[m] \in {"start", "restart"} => Had("start", m) \/ Had("restart", m)
                   /\ Had("start", m) => f[m] \in {"start", "reload", "restart", "none"}
                   /\ Had("stop", m) => f[m] \in {"stop", "none"}
<1>5. P(1)
  BY <1>0, <1>3 DEF MergingTypes
<1>6. ASSUME NEW m \in 1..n, P(m), m < n
      PROVE  P(m + 1)
  <2>1. PICK e \in MergingTypes : e = s[m + 1]
    BY <1>0, <1>6
  <2>2. \A t : Had(t, m + 1) <=> Had(t, m) \/ e = t
    BY <2>1
  <2> HIDE DEF Had
  <2>3. CASE f[m] = "none"
    BY <1>4, <1>6, <2>2, <2>3 DEF MergingTypes
  <2>4. CASE f[m] # "none"
    <3>1. f[m] \in MergingTypes /\ f[m + 1] = job_type_merge_and_collapse(f[m], e, state)
      BY <1>4, <1>6, <2>1, <2>4
    <3>2. /\ f[m + 1] \in MergingTypes \cup {"none"}
          /\ f[m + 1] \in {"start", "restart"} => f[m] \in {"start", "restart"} \/ e \in {"start", "restart"}
          /\ f[m] \in {"start", "reload", "restart"} \/ e = "start"
               => f[m + 1] \in {"start", "reload", "restart", "none"}
          /\ "stop" \in {f[m], e} => f[m + 1] \in {"stop", "none"}
      BY <3>1, MergeTwo
    <3>3. f[m + 1] \in {"start", "restart"} => Had("start", m + 1) \/ Had("restart", m + 1)
      BY <1>6, <2>2, <3>2
    <3>4. Had("start", m + 1) => f[m + 1] \in {"start", "reload", "restart", "none"}
      BY <1>6, <2>2, <2>4, <3>2
    <3>5. Had("stop", m + 1) => f[m + 1] \in {"stop", "none"}
      BY <1>6, <2>2, <2>4, <3>2
    <3> QED
      BY <3>2, <3>3, <3>4, <3>5
  <2> QED
    BY <2>3, <2>4
<1>7. P(n)
  <2> DEFINE H == {m \in Nat : P(m)}
  <2> HIDE DEF P
  <2>1. 1 \in H /\ \A m \in 1..n : m \in H /\ m < n => m + 1 \in H
    BY <1>5, <1>6
  <2> HIDE DEF H
  <2>2. \A i \in 1..n : i \in H
    <3>1. 1 \in Nat
      OBVIOUS
    <3> QED
      BY <1>0, <2>1, <3>1, UpTo, Zenon
  <2>3. n \in H
    BY <1>0, <2>2
  <2> QED
    BY <2>3 DEF H
<1>8. \A t : t \in Elements(s) <=> Had(t, n)
  BY <1>0 DEF Elements
<1> QED
  <2> HIDE DEF Had
  <2> QED
    BY <1>1, <1>7, <1>8

\* A list of one type.
LEMMA MergeOne ==
  ASSUME NEW t, NEW state
  PROVE  MergeList(<<t>>, state) = t
<1> DEFINE s == <<t>>
           Body(f, i) == IF i = 1 THEN s[1]
                         ELSE IF f[i - 1] = "none" THEN "none"
                         ELSE job_type_merge_and_collapse(f[i - 1], s[i], state)
<1>0. Len(s) = 1 /\ s[1] = t /\ 1 \in 1..1
  OBVIOUS
<1> HIDE DEF s
<1>1. PICK f : f = [i \in 1..1 |-> Body(f, i)] /\ MergeList(s, state) = f[1]
  <2>1. \E f : IsMerged(f, s, state, 1)
    BY MergedExists
  <2> QED
    BY <1>0, <2>1, Zenon DEF MergeList, IsMerged
<1>2. f[1] = Body(f, 1)
  BY <1>0, <1>1, Zenon
<1>3. f[1] = t
  BY <1>0, <1>2, Zenon
<1> QED
  BY <1>1, <1>3, Zenon DEF s

LEMMA ListFacts ==
  ASSUME NEW s \in Seq(TransactionTypes)
  PROVE  /\ s = <<>> <=> Elements(s) = {}
         /\ "nop" \notin Elements(s) => s \in Seq(MergingTypes)
         /\ Elements(s) \subseteq {"nop"} /\ Len(s) <= 1 => s \in {<<>>, <<"nop">>}
         /\ s # <<>> => Head(s) \in Elements(s)
<1>1. s = <<>> <=> Elements(s) = {}
  <2>1. CASE s = <<>>
    BY <2>1 DEF Elements
  <2>2. CASE s # <<>>
    <3>1. 1 \in DOMAIN s
      BY <2>2
    <3> QED
      BY <2>2, <3>1, Zenon DEF Elements
  <2> QED
    BY <2>1, <2>2
<1>2. "nop" \notin Elements(s) => s \in Seq(MergingTypes)
  <2> SUFFICES ASSUME "nop" \notin Elements(s) PROVE s \in Seq(MergingTypes)
    OBVIOUS
  <2>1. \A i \in 1..Len(s) : s[i] \in MergingTypes
    BY DEF Elements, TransactionTypes
  <2> QED
    BY <2>1
<1>3. Elements(s) \subseteq {"nop"} /\ Len(s) <= 1 => s \in {<<>>, <<"nop">>}
  <2> SUFFICES ASSUME Elements(s) \subseteq {"nop"}, Len(s) <= 1, s # <<>> PROVE s = <<"nop">>
    OBVIOUS
  <2>1. Len(s) = 1 /\ s[1] = "nop"
    BY DEF Elements
  <2> QED
    BY <2>1
<1>4. s # <<>> => Head(s) \in Elements(s)
  <2> SUFFICES ASSUME s # <<>> PROVE Head(s) \in Elements(s)
    OBVIOUS
  <2>1. Head(s) = s[1] /\ 1 \in DOMAIN s
    OBVIOUS
  <2> QED
    BY <2>1, Zenon DEF Elements
<1> QED
  BY <1>1, <1>2, <1>3, <1>4

LEMMA ConsElements ==
  ASSUME NEW s \in Seq(TransactionTypes), NEW t \in TransactionTypes
  PROVE  <<t>> \o s \in Seq(TransactionTypes) /\ Elements(<<t>> \o s) = {t} \cup Elements(s)
<1>1. /\ <<t>> \o s \in Seq(TransactionTypes)
      /\ Len(s) \in Nat /\ DOMAIN s = 1..Len(s)
      /\ DOMAIN (<<t>> \o s) = 1..(Len(s) + 1)
      /\ (<<t>> \o s)[1] = t
      /\ \A i \in 1..Len(s) : (<<t>> \o s)[i + 1] = s[i]
      /\ \A i \in 2..(Len(s) + 1) : (<<t>> \o s)[i] = s[i - 1]
  OBVIOUS
<1>2. PICK q : q = <<t>> \o s
  BY Zenon
<1>3. \A i \in 1..(Len(s) + 1) : i = 1 \/ (i \in 2..(Len(s) + 1) /\ i - 1 \in 1..Len(s))
  BY <1>1
<1>4. \A i \in 1..Len(s) : i + 1 \in 1..(Len(s) + 1)
  BY <1>1
<1>5. 1 \in 1..(Len(s) + 1)
  BY <1>1
<1>6. ASSUME NEW e \in Elements(q) PROVE e \in {t} \cup Elements(s)
  <2>1. PICK i \in 1..(Len(s) + 1) : e = q[i]
    BY <1>1, <1>2, <1>6, Zenon DEF Elements
  <2>2. CASE i = 1
    BY <1>1, <1>2, <2>1, <2>2
  <2>3. CASE i \in 2..(Len(s) + 1) /\ i - 1 \in DOMAIN s
    <3>1. e = s[i - 1]
      BY <1>1, <1>2, <2>1, <2>3
    <3> QED
      BY <2>3, <3>1, Zenon DEF Elements
  <2> QED
    BY <1>1, <1>3, <2>1, <2>2, <2>3
<1>7. ASSUME NEW e \in {t} \cup Elements(s) PROVE e \in Elements(q)
  <2>1. CASE e = t
    BY <1>1, <1>2, <1>5, <2>1, Zenon DEF Elements
  <2>2. CASE e \in Elements(s)
    <3>1. PICK i \in 1..Len(s) : e = s[i]
      BY <1>1, <2>2, Zenon DEF Elements
    <3>2. q[i + 1] = e /\ i + 1 \in DOMAIN q
      BY <1>1, <1>2, <1>4, <3>1
    <3> QED
      BY <3>2, Zenon DEF Elements
  <2> QED
    BY <1>7, <2>1, <2>2
<1> QED
  BY <1>1, <1>2, <1>6, <1>7

LEMMA ElementTypes ==
  ASSUME NEW s \in Seq(TransactionTypes)
  PROVE  Elements(s) \subseteq TransactionTypes
BY DEF Elements

LEMMA JobPair ==
  ASSUME NEW k \in Job
  PROVE  k[1] \in Units /\ k[2] \in TransactionTypes /\ k = <<k[1], k[2]>>
BY DEF Job

LEMMA OneElement ==
  ASSUME NEW t
  PROVE  Elements(<<t>>) = {t} /\ Elements(<<>>) = {}
BY DEF Elements

-----------------------------------------------------------------------------
(* The invariant *)

\* Before the transaction is activated, and while jobs are deleted from it.
Begun == {"request", "build"}
Reducing == {"minimize", "drop", "collect", "verify", "merge", "collect again"}
Ended == {"drop again", "check", "applied"}

Typed ==
  /\ IsWorld(w)
  /\ pc \in Steps
  /\ jobs \in [Units -> Seq(TransactionTypes)]
  /\ anchor \in Job
  /\ calls \in Seq(Frame)
  /\ path \in Seq(Units) /\ clear \subseteq Units /\ rest \subseteq Units

\* JOB_NOP is alone in its transaction.
NopAlone ==
  IF anchor[2] = "nop"
  THEN /\ calls = <<>> /\ rest = {}
       /\ \A u \in Units : jobs[u] \in {<<>>, <<"nop">>}
  ELSE /\ \A u \in Units : "nop" \notin Elements(jobs[u])
       /\ \A i \in DOMAIN calls : \A p \in calls[i].todo : p.type # "nop"

\* What the steps of transaction_activate() find.
InTurn ==
  /\ pc = "request" => \A u \in Units : jobs[u] = <<>>
  /\ pc # "build" => calls = <<>>
  /\ failing => calls # <<>>
  /\ pc \in Begun \cup Ended \cup {"matter", "minimize", "verify", "merge"} => doomed = {}
  /\ pc # "verify" => path = <<>> /\ clear = {}
  /\ pc \in Ended => \A u \in Units : Len(jobs[u]) <= 1

\* The jobs that matter are closed under "needs", and the anchor is one of
\* them.  The jobs about to be deleted do not matter, or are garbage.
AnchorSafe ==
  /\ pc \notin {"request", "failed"} => anchor \in InTransaction
  /\ pc \in Reducing \cup {"matter"} => anchor \in matters
  /\ pc \in Reducing =>
       /\ \A l \in links : l.matters /\ l.subject \in matters => l.object \in matters
       /\ \/ doomed \intersect matters = {}
          \/ anchor \notin doomed /\ \A l \in links : l.object \notin doomed

\* The jobs that job j may not do without, in a transaction that follows
\* the dependencies of units that can be loaded.
Wanted(j) ==
  {k \in Job : /\ j[2] \in {"start", "restart"}
               /\ \/ k[2] = "start" /\ k[1] \in PULL_IN_START(j[1])
                  \/ k[2] = "stop" /\ k[1] \in PULL_IN_STOP(j[1]) \ w.trait["perpetual"]}

Linked(j, k) == \E l \in links : l.subject = j /\ l.object = k /\ l.matters

Asks(p, k) == p.unit = k[1] /\ p.type = k[2] /\ p.matters
AskedBy(f, j, k) == f.job = j /\ \E p \in f.todo : Asks(p, k)
Pending(cs, j, k) == \E i \in DOMAIN cs : AskedBy(cs[i], j, k)

\* The unit of k needs no job: it is as k would make it, and stays so.
Settled(k) ==
  /\ jobs[k[1]] = <<>>
  /\ k[2] = "start" => StaysUp(k[1])
  /\ k[2] = "stop" => StaysDown(k[1])

Plain == DependenciesFollowed /\ w.trait["missing"] = {}

\* Until the jobs of a unit are merged: what a job wants is still to be
\* pulled in, or is in the transaction, or was redundant, or the job goes.
Followed ==
  Plain /\ pc \in {"build", "matter"} \cup Reducing =>
    /\ ~failing
    /\ \A j \in InTransaction : \A k \in Wanted(j) :
         \/ Pending(calls, j, k)
         \/ k \in InTransaction /\ Linked(j, k)
         \/ pc \in Reducing \ {"minimize", "drop"} /\ Settled(k)
         \/ j \in doomed

\* Afterwards.
Answered(k) ==
  \/ Settled(k)
  \/ k[2] = "start" /\ jobs[k[1]] \in {<<"start">>, <<"reload">>, <<"restart">>}
  \/ k[2] = "stop" /\ jobs[k[1]] = <<"stop">>

Applies ==
  Plain /\ pc \in Ended =>
    \A u \in Units : \A t \in {"start", "restart"} :
      jobs[u] = <<t>> => \A k \in Wanted(<<u, t>>) : Answered(k)

\* The depth first search: clear units lead to clear units only, and every
\* set of them has one that leads out of the set.
Searched ==
  /\ \A u \in clear : \A v \in Units : Precedes(u, v) => v \in clear
  /\ \A C \in SUBSET clear : C # {} => \E u \in C : \A v \in C : ~Precedes(u, v)

IInv == Typed /\ NopAlone /\ InTurn /\ AnchorSafe /\ Followed /\ Applies /\ Searched

-----------------------------------------------------------------------------
(* Jobs of the transaction *)

LEMMA Members ==
  /\ \A u \in Units : JobsOf(u) = {<<u, t>> : t \in Elements(jobs[u])}
  /\ \A u \in Units : \A t : <<u, t>> \in InTransaction <=> t \in Elements(jobs[u])
  /\ \A j \in InTransaction : j[1] \in Units /\ j[2] \in Elements(jobs[j[1]]) /\ j = <<j[1], j[2]>>
  /\ \A u \in Units : \A j \in JobsOf(u) : j[1] = u /\ j \in InTransaction
<1>1. \A u \in Units : JobsOf(u) = {<<u, t>> : t \in Elements(jobs[u])}
  BY DEF JobsOf, Elements
<1>2. \A u \in Units : \A t : <<u, t>> \in JobsOf(u) <=> t \in Elements(jobs[u])
  BY <1>1
<1>3. \A u \in Units : \A t : <<u, t>> \in InTransaction <=> t \in Elements(jobs[u])
  BY <1>1 DEF InTransaction
<1>4. \A j \in InTransaction : \E u \in Units : j \in JobsOf(u)
  BY DEF InTransaction
<1>5. \A u \in Units : \A j \in JobsOf(u) : j[1] = u /\ j[2] \in Elements(jobs[u]) /\ j = <<u, j[2]>>
  BY <1>1
<1> QED
  BY <1>1, <1>3, <1>4, <1>5

LEMMA AddOne ==
  ASSUME Typed, NEW u \in Units, NEW t \in TransactionTypes, transaction_add_one_job(u, t)
  PROVE  /\ jobs' \in [Units -> Seq(TransactionTypes)]
         /\ \A v \in Units : Elements(jobs'[v]) = IF v = u THEN Elements(jobs[v]) \cup {t}
                                                  ELSE Elements(jobs[v])
         /\ InTransaction' = InTransaction \cup {<<u, t>>}
<1>0. jobs \in [Units -> Seq(TransactionTypes)]
  BY DEF Typed
<1>1. /\ jobs' \in [Units -> Seq(TransactionTypes)]
      /\ \A v \in Units : Elements(jobs'[v]) = IF v = u THEN Elements(jobs[v]) \cup {t}
                                               ELSE Elements(jobs[v])
  <2>1. CASE <<u, t>> \in JobsOf(u)
    <3>1. jobs' = jobs /\ t \in Elements(jobs[u])
      BY <2>1, Members DEF transaction_add_one_job
    <3> QED
      BY <1>0, <3>1
  <2>2. CASE <<u, t>> \notin JobsOf(u)
    <3>1. jobs' = [jobs EXCEPT ![u] = <<t>> \o jobs[u]]
      BY <2>2 DEF transaction_add_one_job
    <3>2. PICK q \in Seq(TransactionTypes) : q = <<t>> \o jobs[u] /\ Elements(q) = {t} \cup Elements(jobs[u])
      BY <1>0, ConsElements, Zenon
    <3>3. jobs' = [jobs EXCEPT ![u] = q]
      BY <3>1, <3>2
    <3> QED
      BY <1>0, <3>2, <3>3, Zenon
  <2> QED
    BY <2>1, <2>2, Zenon
<1>2. ASSUME NEW j \in InTransaction' PROVE j \in InTransaction \cup {<<u, t>>}
  <2>1. j[1] \in Units /\ j[2] \in Elements(jobs'[j[1]]) /\ j = <<j[1], j[2]>>
    <3>1. PICK v \in Units : j \in JobsOf(v)'
      BY <1>2 DEF InTransaction
    <3> QED
      BY <3>1 DEF JobsOf, Elements
  <2>2. j[2] \in Elements(jobs[j[1]]) \/ (j[1] = u /\ j[2] = t)
    BY <1>1, <2>1
  <2> QED
    BY <2>1, <2>2, Members
<1>3. ASSUME NEW j \in InTransaction \cup {<<u, t>>} PROVE j \in InTransaction'
  <2>1. j[1] \in Units /\ j[2] \in Elements(jobs'[j[1]]) /\ j = <<j[1], j[2]>>
    BY <1>1, <1>3, Members
  <2>2. j \in JobsOf(j[1])'
    BY <2>1 DEF JobsOf, Elements
  <2> QED
    BY <2>1, <2>2 DEF InTransaction
<1> QED
  BY <1>1, <1>2, <1>3

LEMMA UnlinkJobs ==
  ASSUME Typed, NEW S, Unlink(S)
  PROVE  /\ jobs' \in [Units -> Seq(TransactionTypes)]
         /\ \A v \in Units : /\ Elements(jobs'[v]) = {t \in Elements(jobs[v]) : <<v, t>> \notin S}
                             /\ Len(jobs'[v]) <= Len(jobs[v])
         /\ InTransaction' = InTransaction \ S
<1>0. jobs \in [Units -> Seq(TransactionTypes)]
  BY DEF Typed
<1>1. ASSUME NEW v \in Units
      PROVE  /\ jobs'[v] \in Seq(TransactionTypes)
             /\ Elements(jobs'[v]) = {t \in Elements(jobs[v]) : <<v, t>> \notin S}
             /\ Len(jobs'[v]) <= Len(jobs[v])
  <2>1. PICK T : T = {t \in TransactionTypes : <<v, t>> \in S}
    BY Zenon
  <2>2. jobs'[v] = Without(jobs[v], T)
    BY <2>1 DEF Unlink
  <2>3. /\ jobs'[v] \in Seq(TransactionTypes) /\ Len(jobs'[v]) <= Len(jobs[v])
        /\ Elements(jobs'[v]) = Elements(jobs[v]) \ T
    BY <1>0, <2>2, WithoutList
  <2>4. Elements(jobs[v]) \subseteq TransactionTypes
    BY <1>0 DEF Elements
  <2> QED
    BY <2>1, <2>3, <2>4
<1>2. jobs' \in [Units -> Seq(TransactionTypes)]
  <2>1. jobs' = [v \in Units |-> jobs'[v]]
    BY DEF Unlink
  <2> QED
    BY <1>1, <2>1
<1>3. ASSUME NEW j \in InTransaction' PROVE j \in InTransaction \ S
  <2>1. j[1] \in Units /\ j[2] \in Elements(jobs'[j[1]]) /\ j = <<j[1], j[2]>>
    <3>1. PICK v \in Units : j \in JobsOf(v)'
      BY <1>3 DEF InTransaction
    <3> QED
      BY <3>1 DEF JobsOf, Elements
  <2> QED
    BY <1>1, <2>1, Members
<1>4. ASSUME NEW j \in InTransaction \ S PROVE j \in InTransaction'
  <2>1. j[1] \in Units /\ j[2] \in Elements(jobs'[j[1]]) /\ j = <<j[1], j[2]>>
    BY <1>1, <1>4, Members
  <2>2. j \in JobsOf(j[1])'
    BY <2>1 DEF JobsOf, Elements
  <2> QED
    BY <2>1, <2>2 DEF InTransaction
<1> QED
  BY <1>1, <1>2, <1>3, <1>4

-----------------------------------------------------------------------------
(* Calls of transaction_add_job_and_dependencies() *)

LEMMA CallsReturn ==
  ASSUME NEW cs \in Seq(Frame), cs # <<>>, NEW j, NEW k
  PROVE  /\ Head(cs) \in Frame /\ Head(cs) = cs[1] /\ 1 \in DOMAIN cs
         /\ Tail(cs) \in Seq(Frame)
         /\ \A i \in DOMAIN Tail(cs) : i + 1 \in DOMAIN cs /\ Tail(cs)[i] = cs[i + 1]
         /\ Pending(cs, j, k) => AskedBy(Head(cs), j, k) \/ Pending(Tail(cs), j, k)
<1>1. /\ Head(cs) \in Frame /\ Head(cs) = cs[1] /\ 1 \in DOMAIN cs
      /\ Tail(cs) \in Seq(Frame)
      /\ \A i \in DOMAIN Tail(cs) : i + 1 \in DOMAIN cs /\ Tail(cs)[i] = cs[i + 1]
      /\ \A i \in DOMAIN cs : i # 1 => i - 1 \in DOMAIN Tail(cs) /\ Tail(cs)[i - 1] = cs[i]
  OBVIOUS
<1>2. ASSUME Pending(cs, j, k), ~AskedBy(Head(cs), j, k) PROVE Pending(Tail(cs), j, k)
  <2>1. PICK i \in DOMAIN cs : AskedBy(cs[i], j, k)
    BY <1>2 DEF Pending
  <2>2. i - 1 \in DOMAIN Tail(cs) /\ AskedBy(Tail(cs)[i - 1], j, k)
    BY <1>1, <1>2, <2>1
  <2> QED
    BY <2>2, Zenon DEF Pending
<1> QED
  BY <1>1, <1>2

\* q is the list of the call g and the calls cs.
Nests(q, g, cs) ==
  /\ q \in Seq(Frame) /\ q # <<>>
  /\ \A i \in DOMAIN q : q[i] = g \/ \E m \in DOMAIN cs : q[i] = cs[m]
  /\ \A j, k : AskedBy(g, j, k) \/ Pending(cs, j, k) => Pending(q, j, k)

LEMMA NoCalls ==
  ASSUME NEW j, NEW k
  PROVE  ~Pending(<<>>, j, k)
BY DEF Pending

LEMMA CallsNest ==
  ASSUME NEW cs \in Seq(Frame), NEW g \in Frame, NEW q, q = <<g>> \o cs
  PROVE  Nests(q, g, cs)
<1>1. /\ q \in Seq(Frame) /\ q # <<>>
      /\ 1 \in DOMAIN q /\ q[1] = g
      /\ \A m \in DOMAIN cs : m + 1 \in DOMAIN q /\ q[m + 1] = cs[m]
      /\ \A i \in DOMAIN q : i # 1 => i - 1 \in DOMAIN cs /\ q[i] = cs[i - 1]
  OBVIOUS
<1>2. \A i \in DOMAIN q : q[i] = g \/ \E m \in DOMAIN cs : q[i] = cs[m]
  BY <1>1
<1>3. ASSUME NEW j, NEW k, AskedBy(g, j, k) PROVE Pending(q, j, k)
  BY <1>1, <1>3, Zenon DEF Pending
<1>4. ASSUME NEW j, NEW k, Pending(cs, j, k) PROVE Pending(q, j, k)
  <2>1. PICK m \in DOMAIN cs : AskedBy(cs[m], j, k)
    BY <1>4 DEF Pending
  <2>2. m + 1 \in DOMAIN q /\ AskedBy(q[m + 1], j, k)
    BY <1>1, <2>1
  <2> QED
    BY <2>2, Zenon DEF Pending
<1> QED
  BY <1>1, <1>2, <1>3, <1>4 DEF Nests

\* The loops of transaction_add_job_and_dependencies() reach all that a job wants.
LEMMA PullsAll ==
  ASSUME Typed, NEW u \in Units, NEW t \in TransactionTypes
  PROVE  /\ Pulls(u, t) \subseteq Pull
         /\ t = "nop" => Pulls(u, t) = {}
         /\ \A p \in Pulls(u, t) : p.type # "nop"
         /\ \A k \in Wanted(<<u, t>>) : \E p \in Pulls(u, t) : Asks(p, k)
<1>1. \A d, v : On(d, v) \subseteq Units /\ By(d, v) \subseteq Units
  BY DEF On, By
<1>2. ASSUME NEW p \in Pulls(u, t)
      PROVE  p \in Pull /\ p.type # "nop" /\ t # "nop"
  <2> DEFINE pull(n, nt, v, m, c, s) ==
        [phase |-> n, type |-> nt, unit |-> v, matters |-> m, conflicts |-> c, strict |-> s]
  <2>1. \A v : /\ PULL_IN_START(v) \subseteq Units /\ PULL_IN_START_IGNORED(v) \subseteq Units
               /\ PULL_IN_VERIFY(v) \subseteq Units /\ PULL_IN_STOP(v) \subseteq Units
               /\ PULL_IN_STOP_IGNORED(v) \subseteq Units /\ PROPAGATE_RESTART(v) \subseteq Units
               /\ PROPAGATE_STOP(v) \subseteq Units
    BY <1>1 DEF PULL_IN_START, PULL_IN_START_IGNORED, PULL_IN_VERIFY, PULL_IN_STOP,
       PULL_IN_STOP_IGNORED, PROPAGATE_RESTART, PROPAGATE_STOP
  <2>2. t # "nop" /\ \E v \in Units :
          \/ p = pull(1, t, v, FALSE, FALSE, FALSE)
          \/ p = pull(2, "start", v, TRUE, FALSE, TRUE)
          \/ p = pull(3, "start", v, FALSE, FALSE, FALSE)
          \/ p = pull(4, "verify", v, TRUE, FALSE, TRUE)
          \/ p = pull(5, "stop", v, TRUE, TRUE, TRUE)
          \/ p = pull(6, "stop", v, FALSE, FALSE, FALSE)
          \/ p = pull(7, "stop", v, TRUE, FALSE, TRUE)
          \/ p = pull(7, "restart", v, TRUE, FALSE, TRUE)
          \/ p = pull(8, "reload", v, FALSE, FALSE, FALSE)
    BY <1>1, <1>2, <2>1 DEF Pulls
  <2>3. {"start", "verify", "stop", "restart", "reload"} \subseteq TransactionTypes
    BY DEF TransactionTypes, MergingTypes
  <2>4. PICK v \in Units :
          \/ p = pull(1, t, v, FALSE, FALSE, FALSE)
          \/ p = pull(2, "start", v, TRUE, FALSE, TRUE)
          \/ p = pull(3, "start", v, FALSE, FALSE, FALSE)
          \/ p = pull(4, "verify", v, TRUE, FALSE, TRUE)
          \/ p = pull(5, "stop", v, TRUE, TRUE, TRUE)
          \/ p = pull(6, "stop", v, FALSE, FALSE, FALSE)
          \/ p = pull(7, "stop", v, TRUE, FALSE, TRUE)
          \/ p = pull(7, "restart", v, TRUE, FALSE, TRUE)
          \/ p = pull(8, "reload", v, FALSE, FALSE, FALSE)
    BY <2>2
  <2>p1. CASE p = pull(1, t, v, FALSE, FALSE, FALSE)
    BY <2>2, <2>3, <2>p1 DEF Pull
  <2>p2. CASE p = pull(2, "start", v, TRUE, FALSE, TRUE)
    BY <2>2, <2>3, <2>p2 DEF Pull
  <2>p3. CASE p = pull(3, "start", v, FALSE, FALSE, FALSE)
    BY <2>2, <2>3, <2>p3 DEF Pull
  <2>p4. CASE p = pull(4, "verify", v, TRUE, FALSE, TRUE)
    BY <2>2, <2>3, <2>p4 DEF Pull
  <2>p5. CASE p = pull(5, "stop", v, TRUE, TRUE, TRUE)
    BY <2>2, <2>3, <2>p5 DEF Pull
  <2>p6. CASE p = pull(6, "stop", v, FALSE, FALSE, FALSE)
    BY <2>2, <2>3, <2>p6 DEF Pull
  <2>p7. CASE p = pull(7, "stop", v, TRUE, FALSE, TRUE)
    BY <2>2, <2>3, <2>p7 DEF Pull
  <2>p8. CASE p = pull(7, "restart", v, TRUE, FALSE, TRUE)
    BY <2>2, <2>3, <2>p8 DEF Pull
  <2>p9. CASE p = pull(8, "reload", v, FALSE, FALSE, FALSE)
    BY <2>2, <2>3, <2>p9 DEF Pull
  <2> QED
    BY <2>2, <2>4, <2>p1, <2>p2, <2>p3, <2>p4, <2>p5, <2>p6, <2>p7, <2>p8, <2>p9
<1>3. ASSUME NEW k \in Wanted(<<u, t>>)
      PROVE  \E p \in Pulls(u, t) : Asks(p, k)
  <2>1. t \in {"start", "restart"} /\ k[1] \in Units
    BY <1>3 DEF Wanted, Job
  <2>2. CASE k[2] = "start" /\ k[1] \in PULL_IN_START(u)
    <3> DEFINE p == [phase |-> 2, type |-> "start", unit |-> k[1], matters |-> TRUE,
                     conflicts |-> FALSE, strict |-> TRUE]
    <3>1. p \in Pulls(u, t)
      BY <2>1, <2>2, Zenon DEF Pulls
    <3> QED
      BY <2>2, <3>1 DEF Asks
  <2>3. CASE k[2] = "stop" /\ k[1] \in PULL_IN_STOP(u)
    <3> DEFINE p == [phase |-> 5, type |-> "stop", unit |-> k[1], matters |-> TRUE,
                     conflicts |-> TRUE, strict |-> TRUE]
    <3>1. p \in Pulls(u, t)
      BY <2>1, <2>3, Zenon DEF Pulls
    <3> QED
      BY <2>3, <3>1 DEF Asks
  <2> QED
    BY <1>3, <2>2, <2>3 DEF Wanted
<1> QED
  BY <1>2, <1>3

LEMMA NewFrameType ==
  ASSUME Typed, NEW u \in Units, NEW t \in TransactionTypes, NEW strict \in BOOLEAN, NEW ignore
  PROVE  NewFrame(u, t, strict, ignore) \in Seq(Frame)
<1>1. PICK g : g = [job |-> <<u, t>>, strict |-> strict, todo |-> Pulls(u, t)]
  BY Zenon
<1>2. g \in Frame
  BY <1>1, PullsAll DEF Frame, Job
<1>3. <<>> \in Seq(Frame) /\ <<g>> \in Seq(Frame)
  BY <1>2
<1> QED
  BY <1>1, <1>3, Zenon DEF NewFrame

\* The calls cs with the call for a job, new or not, on top of them.
Makes(q, u, t, ignore, cs) ==
  /\ q \in Seq(Frame)
  /\ q = <<>> => cs = <<>>
  /\ t = "nop" => q = cs
  /\ \A j, k : Pending(cs, j, k) => Pending(q, j, k)
  /\ ~ignore /\ <<u, t>> \notin InTransaction =>
       \A k \in Wanted(<<u, t>>) : Pending(q, <<u, t>>, k)
  /\ (\A i \in DOMAIN cs : \A p \in cs[i].todo : p.type # "nop") =>
       \A i \in DOMAIN q : \A p \in q[i].todo : p.type # "nop"

LEMMA CallMade ==
  ASSUME Typed, NEW u \in Units, NEW t \in TransactionTypes, NEW strict \in BOOLEAN,
         NEW ignore \in BOOLEAN, NEW cs \in Seq(Frame), NEW q,
         q = NewFrame(u, t, strict, ignore) \o cs
  PROVE  Makes(q, u, t, ignore, cs)
<1>1. CASE NewFrame(u, t, strict, ignore) = <<>>
  <2>1. q = cs
    BY <1>1
  <2>2. <<u, t>> \in JobsOf(u) \/ ignore \/ Pulls(u, t) = {}
    BY <1>1, Zenon DEF NewFrame
  <2>3. <<u, t>> \in InTransaction \/ ignore \/ Wanted(<<u, t>>) = {}
    BY <2>2, Members, PullsAll
  <2> QED
    BY <2>1, <2>3 DEF Makes
<1>2. CASE NewFrame(u, t, strict, ignore) # <<>>
  <2>1. PICK g : g = [job |-> <<u, t>>, strict |-> strict, todo |-> Pulls(u, t)]
    BY Zenon
  <2>2. NewFrame(u, t, strict, ignore) = <<g>> /\ Pulls(u, t) # {}
    BY <1>2, <2>1 DEF NewFrame
  <2>3. g \in Frame /\ g.job = <<u, t>> /\ g.todo = Pulls(u, t)
    BY <2>1, PullsAll DEF Frame, Job
  <2>4. q = <<g>> \o cs /\ t # "nop"
    BY <2>2, PullsAll, Zenon
  <2>5. /\ q \in Seq(Frame) /\ q # <<>>
        /\ \A i \in DOMAIN q : q[i] = g \/ \E m \in DOMAIN cs : q[i] = cs[m]
        /\ \A j, k : AskedBy(g, j, k) \/ Pending(cs, j, k) => Pending(q, j, k)
    <3>1. Nests(q, g, cs)
      BY <2>3, <2>4, CallsNest, Zenon
    <3> QED
      BY <3>1 DEF Nests
  <2>6. \A k \in Wanted(<<u, t>>) : AskedBy(g, <<u, t>>, k)
    BY <2>3, PullsAll DEF AskedBy
  <2>7. \A p \in g.todo : p.type # "nop"
    BY <2>3, PullsAll, Zenon
  <2> QED
    BY <2>4, <2>5, <2>6, <2>7 DEF Makes
<1> QED
  BY <1>1, <1>2

\* The calls more with the call h on top of them, which has made its call p.
GoesOn(q, h, p, more) ==
  /\ q \in Seq(Frame) /\ q # <<>>
  /\ \A j, k : AskedBy(h, j, k) \/ Pending(more, j, k) =>
               Pending(q, j, k) \/ (j = h.job /\ Asks(p, k))
  /\ (\A r \in h.todo : r.type # "nop")
     /\ (\A i \in DOMAIN more : \A r \in more[i].todo : r.type # "nop") =>
       \A i \in DOMAIN q : \A r \in q[i].todo : r.type # "nop"

LEMMA CallGoesOn ==
  ASSUME NEW h \in Frame, NEW p \in h.todo, NEW f \in Frame, f.job = h.job, f.todo = h.todo \ {p},
         NEW more \in Seq(Frame), NEW q, q = <<f>> \o more
  PROVE  GoesOn(q, h, p, more)
<1>1. /\ q \in Seq(Frame) /\ q # <<>>
      /\ \A i \in DOMAIN q : q[i] = f \/ \E m \in DOMAIN more : q[i] = more[m]
      /\ \A j, k : AskedBy(f, j, k) \/ Pending(more, j, k) => Pending(q, j, k)
  <2>1. Nests(q, f, more)
    BY CallsNest, Zenon
  <2> QED
    BY <2>1 DEF Nests
<1>2. \A j, k : AskedBy(h, j, k) => AskedBy(f, j, k) \/ (j = h.job /\ Asks(p, k))
  BY DEF AskedBy
<1> QED
  BY <1>1, <1>2 DEF GoesOn

-----------------------------------------------------------------------------
(* What a step leaves alone *)

LEMMA SameWorld ==
  ASSUME UNCHANGED w
  PROVE  /\ Plain' <=> Plain
         /\ IsWorld(w)' <=> IsWorld(w)
         /\ \A j : Wanted(j)' = Wanted(j)
BY DEF Plain, IsWorld, Wanted, DependenciesFollowed, PULL_IN_START, PULL_IN_STOP, On

LEMMA SameJobs ==
  ASSUME UNCHANGED <<w, jobs>>
  PROVE  /\ InTransaction' = InTransaction
         /\ Present' = Present
         /\ \A u \in Units : JobsOf(u)' = JobsOf(u)
         /\ \A k : Settled(k)' <=> Settled(k)
         /\ \A k : Answered(k)' <=> Answered(k)
         /\ \A u, v : Precedes(u, v)' <=> Precedes(u, v)
<1>1. InTransaction' = InTransaction /\ Present' = Present /\ \A u \in Units : JobsOf(u)' = JobsOf(u)
  BY DEF InTransaction, Present, JobsOf
<1>2. \A k : Settled(k)' <=> Settled(k)
  BY DEF Settled, StaysUp, StaysDown
<1>3. \A k : Answered(k)' <=> Answered(k)
  BY <1>2 DEF Answered
<1>4. \A u, v : Precedes(u, v)' <=> Precedes(u, v)
  BY DEF Precedes, HasJob, JobOf
<1> QED
  BY <1>1, <1>2, <1>3, <1>4

\* Outside transaction_verify_order() there is nothing to say about its search.
LEMMA NothingSearched ==
  ASSUME clear = {}
  PROVE  Searched
BY DEF Searched

-----------------------------------------------------------------------------
(* Building the transaction *)

LEMMA CollapseType ==
  ASSUME NEW t \in RequestTypes, NEW s
  PROVE  /\ job_type_collapse(t, s) \in TransactionTypes
         /\ t \in {"start", "stop"} => job_type_collapse(t, s) = t
<1>1. CASE t \in TransactionTypes
  BY <1>1 DEF job_type_collapse, TransactionTypes, MergingTypes
<1>2. CASE t \in {"try-restart", "try-reload", "reload-or-start"}
  BY <1>2 DEF job_type_collapse, TransactionTypes, MergingTypes
<1> QED
  BY <1>1, <1>2 DEF RequestTypes

LEMMA RequestKeeps ==
  ASSUME IInv, Request
  PROVE  IInv'
<1> USE DEF IInv
<1>0. PICK t : t = job_type_collapse(w.type, w.ustate[w.unit])
  OBVIOUS
<1>1. /\ pc = "request" /\ calls = <<>> /\ doomed = {} /\ path = <<>> /\ clear = {} /\ ~failing
      /\ UNCHANGED <<w, links, matters, doomed, order>>
  BY DEF Request, InTurn, Begun
<1>2. /\ IsWorld(w) /\ w.unit \in Units /\ t \in TransactionTypes
      /\ w.type \in {"start", "stop"} => t = w.type
  BY <1>0, CollapseType DEF Typed, IsWorld
<1>3. /\ Plain' <=> Plain
      /\ IsWorld(w)' <=> IsWorld(w)
      /\ \A j : Wanted(j)' = Wanted(j)
  BY <1>1, SameWorld
<1>4. path' = <<>> /\ clear' = {} /\ doomed' = {} /\ Searched'
  <2>1. path' = <<>> /\ clear' = {} /\ doomed' = {}
    BY <1>1 DEF order
  <2> QED
    BY <2>1 DEF Searched
<1>5. CASE pc' = "failed" /\ UNCHANGED <<jobs, build>>
  <2>1. UNCHANGED <<jobs, calls, failing, rest, anchor>>
    BY <1>5 DEF build
  <2>2. Typed'
    BY <1>1, <1>3, <1>4, <1>5, <2>1 DEF Typed, Steps
  <2>3. NopAlone'
    BY <2>1 DEF NopAlone
  <2>4. InTurn' /\ AnchorSafe' /\ Followed' /\ Applies'
    BY <1>1, <1>4, <1>5, <2>1 DEF InTurn, AnchorSafe, Followed, Applies, Begun, Reducing, Ended
  <2> QED
    BY <1>4, <2>2, <2>3, <2>4
<1>6. CASE /\ pc' = "build"
           /\ transaction_add_one_job(w.unit, t)
           /\ anchor' = <<w.unit, t>>
           /\ calls' = NewFrame(w.unit, t, TRUE, w.mode \in {"ignore-dependencies", "ignore-requirements"})
           /\ rest' = CASE w.mode = "isolate"    -> Units
                        [] w.mode = "triggering" -> TRIGGERED_BY(w.unit)
                        [] OTHER                 -> {}
           /\ UNCHANGED failing
           /\ w.mode = "isolate" => w.type = "start"
           /\ w.mode = "triggering" => w.type = "stop"
  <2>1. /\ jobs' \in [Units -> Seq(TransactionTypes)]
        /\ \A v \in Units : Elements(jobs'[v]) = IF v = w.unit THEN Elements(jobs[v]) \cup {t}
                                                 ELSE Elements(jobs[v])
        /\ InTransaction' = InTransaction \cup {<<w.unit, t>>}
    BY <1>2, <1>6, AddOne, Zenon
  <2>2. \A v \in Units : jobs[v] = <<>> /\ Elements(jobs[v]) = {}
    BY <1>1, OneElement, Zenon DEF InTurn
  <2>3. InTransaction = {}
    BY <2>2, Members
  <2> DEFINE ignore == w.mode \in {"ignore-dependencies", "ignore-requirements"}
  <2>4. ignore \in BOOLEAN
    OBVIOUS
  <2>5. <<>> \in Seq(Frame) /\ calls' = NewFrame(w.unit, t, TRUE, ignore) \o <<>>
    <3>1. calls' = NewFrame(w.unit, t, TRUE, ignore)
      BY <1>6, Zenon
    <3>2. NewFrame(w.unit, t, TRUE, ignore) \in Seq(Frame)
      BY <1>2, NewFrameType, Zenon
    <3> QED
      BY <3>1, <3>2
  <2> HIDE DEF ignore
  <2>6. /\ calls' \in Seq(Frame)
        /\ t = "nop" => calls' = <<>>
        /\ ~ignore /\ <<w.unit, t>> \notin InTransaction =>
             \A k \in Wanted(<<w.unit, t>>) : Pending(calls', <<w.unit, t>>, k)
        /\ \A i \in DOMAIN calls' : \A p \in calls'[i].todo : p.type # "nop"
    <3>1. Makes(calls', w.unit, t, ignore, <<>>)
      BY <1>2, <2>4, <2>5, CallMade, Zenon
    <3> QED
      BY <3>1 DEF Makes
  <2>7. rest' \subseteq Units /\ (t = "nop" => rest' = {})
    <3>1. TRIGGERED_BY(w.unit) \subseteq Units
      BY DEF TRIGGERED_BY, By
    <3>2. CASE w.mode = "isolate"
      BY <1>2, <1>6, <3>2
    <3>3. CASE w.mode = "triggering"
      BY <1>2, <1>6, <3>1, <3>3
    <3>4. CASE w.mode \notin {"isolate", "triggering"}
      BY <1>6, <3>4
    <3> QED
      BY <3>2, <3>3, <3>4
  <2>8. Typed'
    BY <1>1, <1>2, <1>3, <1>4, <1>6, <2>1, <2>6, <2>7, Zenon DEF Typed, Steps, Job
  <2>9. NopAlone'
    <3>1. CASE t = "nop"
      <4>1. \A v \in Units : jobs'[v] \in {<<>>, <<"nop">>}
        <5>1. <<w.unit, t>> \notin JobsOf(w.unit)
          BY <1>2, <2>2, Members, Zenon
        <5>2. jobs' = [jobs EXCEPT ![w.unit] = <<"nop">> \o jobs[w.unit]]
          BY <1>6, <3>1, <5>1 DEF transaction_add_one_job
        <5>3. <<"nop">> \o jobs[w.unit] = <<"nop">>
          <6>1. <<"nop">> \o <<>> = <<"nop">>
            OBVIOUS
          <6>2. jobs[w.unit] = <<>>
            BY <1>2, <2>2
          <6> QED
            BY <6>1, <6>2, Zenon
        <5>4. PICK q : q = <<"nop">>
          BY Zenon
        <5>5. \A v \in Units : jobs'[v] = q \/ jobs'[v] = jobs[v]
          BY <1>2, <5>2, <5>3, <5>4 DEF Typed
        <5> QED
          BY <2>2, <5>4, <5>5, Zenon
      <4> QED
        BY <1>6, <2>6, <2>7, <3>1, <4>1, Zenon DEF NopAlone
    <3>2. CASE t # "nop"
      BY <1>6, <2>1, <2>2, <2>6, <3>2, Zenon DEF NopAlone
    <3> QED
      BY <3>1, <3>2
  <2>10. InTurn'
    BY <1>1, <1>4, <1>6, Zenon DEF InTurn, Ended
  <2>11. AnchorSafe'
    BY <1>6, <2>1, Zenon DEF AnchorSafe, Reducing
  <2>12. Followed'
    <3>1. Plain => ~ignore
      BY DEF Plain, DependenciesFollowed, ignore
    <3> QED
      BY <1>1, <1>3, <1>6, <2>1, <2>3, <2>6, <3>1, Zenon DEF Followed
  <2>13. Applies'
    BY <1>6, Zenon DEF Applies, Ended
  <2> QED
    BY <1>4, <2>8, <2>9, <2>10, <2>11, <2>12, <2>13
<1> QED
  BY <1>0, <1>5, <1>6, Zenon DEF Request

\* In a plain transaction, what a job wants can be loaded and applies to its unit.
LEMMA WantedApplies ==
  ASSUME Plain, NEW j, NEW k \in Wanted(j), NEW p, Asks(p, k)
  PROVE  Loaded(p.unit, p.type) /\ unit_job_is_applicable(p.unit, p.type)
BY DEF Plain, Wanted, Asks, Loaded, unit_job_is_applicable

LEMMA PullInKeeps ==
  ASSUME IInv, PullIn
  PROVE  IInv'
<1> USE DEF IInv
<1>1. /\ pc = "build" /\ calls # <<>> /\ ~failing /\ doomed = {} /\ path = <<>> /\ clear = {}
      /\ UNCHANGED <<w, pc, rest, anchor, matters, doomed, path, clear>>
  BY DEF PullIn, order, InTurn, Begun
<1>2. PICK p \in Head(calls).todo :
        LET f == [Head(calls) EXCEPT !.todo = @ \ {p}]
        IN  IF ~Loaded(p.unit, p.type) /\ p.strict
            THEN failing' = TRUE /\ UNCHANGED <<jobs, links, calls>>
            ELSE /\ UNCHANGED failing
                 /\ IF ~Loaded(p.unit, p.type) \/ ~unit_job_is_applicable(p.unit, p.type)
                    THEN calls' = <<f>> \o Tail(calls) /\ UNCHANGED <<jobs, links>>
                    ELSE /\ transaction_add_one_job(p.unit, p.type)
                         /\ links' = links \cup
                              {link(Head(calls).job, p.unit, p.type, p.matters, p.conflicts)}
                         /\ calls' = NewFrame(p.unit, p.type, p.strict, FALSE)
                                     \o <<f>> \o Tail(calls)
  BY Zenon DEF PullIn
<1>3. PICK h \in Frame : h = Head(calls)
  BY <1>1, CallsReturn DEF Typed
<1>4. PICK more \in Seq(Frame) :
        /\ more = Tail(calls)
        /\ \A j, k : Pending(calls, j, k) => AskedBy(h, j, k) \/ Pending(more, j, k)
  BY <1>1, <1>3, CallsReturn, Zenon DEF Typed
<1>5. /\ anchor[2] # "nop"
      /\ \A u \in Units : "nop" \notin Elements(jobs[u])
      /\ \A r \in h.todo : r.type # "nop"
      /\ \A i \in DOMAIN more : \A r \in more[i].todo : r.type # "nop"
  <2>1. /\ anchor[2] # "nop"
        /\ \A u \in Units : "nop" \notin Elements(jobs[u])
        /\ \A i \in DOMAIN calls : \A r \in calls[i].todo : r.type # "nop"
    BY <1>1 DEF NopAlone
  <2>2. /\ Head(calls) = calls[1] /\ 1 \in DOMAIN calls
        /\ \A i \in DOMAIN Tail(calls) : i + 1 \in DOMAIN calls /\ Tail(calls)[i] = calls[i + 1]
    BY <1>1, CallsReturn DEF Typed
  <2> QED
    BY <1>3, <1>4, <2>1, <2>2
<1>6. PICK f \in Frame : /\ f = [Head(calls) EXCEPT !.todo = @ \ {p}]
                         /\ f.job = h.job /\ f.todo = h.todo \ {p}
  <2>1. PICK f : f = [h EXCEPT !.todo = @ \ {p}]
    BY Zenon
  <2>2. f \in Frame /\ f.job = h.job /\ f.todo = h.todo \ {p}
    BY <1>3, <2>1 DEF Frame
  <2> QED
    BY <1>3, <2>1, <2>2, Zenon
<1>7. p \in h.todo /\ p \in Pull /\ h.job \in Job /\ p.unit \in Units /\ p.type \in TransactionTypes
  BY <1>2, <1>3 DEF Frame, Pull
<1>8. PICK r : r = <<f>> \o more
  BY Zenon
<1>9. /\ r \in Seq(Frame) /\ r # <<>>
      /\ \A j, k : Pending(calls, j, k) => Pending(r, j, k) \/ (j = h.job /\ Asks(p, k))
      /\ \A i \in DOMAIN r : \A q \in r[i].todo : q.type # "nop"
  <2>1. GoesOn(r, h, p, more)
    BY <1>6, <1>7, <1>8, CallGoesOn, Zenon
  <2> QED
    BY <1>4, <1>5, <2>1 DEF GoesOn
<1>10. /\ Plain' <=> Plain
       /\ IsWorld(w)' <=> IsWorld(w)
       /\ \A j : Wanted(j)' = Wanted(j)
  BY <1>1, SameWorld
<1>11. Searched' /\ Applies'
  BY <1>1 DEF Searched, Applies, Ended
<1>12. \A j \in InTransaction : \A k \in Wanted(j) :
         Plain => Pending(calls, j, k) \/ (k \in InTransaction /\ Linked(j, k))
  BY <1>1 DEF Followed, Reducing
<1>13. CASE ~Loaded(p.unit, p.type) /\ p.strict
  <2>1. failing' = TRUE /\ UNCHANGED <<jobs, links, calls>> /\ ~Plain
    BY <1>2, <1>13 DEF Loaded, Plain
  <2>2. Typed' /\ NopAlone' /\ InTurn'
    BY <1>1, <1>10, <2>1 DEF Typed, NopAlone, InTurn
  <2>3. AnchorSafe'
    BY <1>1, <2>1, SameJobs DEF AnchorSafe, Reducing
  <2>4. Followed'
    BY <1>10, <2>1 DEF Followed
  <2> QED
    BY <1>11, <2>2, <2>3, <2>4
<1>14. CASE /\ ~(~Loaded(p.unit, p.type) /\ p.strict)
            /\ ~Loaded(p.unit, p.type) \/ ~unit_job_is_applicable(p.unit, p.type)
  <2>1. UNCHANGED <<failing, jobs, links>> /\ calls' = r
    BY <1>2, <1>4, <1>6, <1>8, <1>14, Zenon
  <2>2. Typed' /\ NopAlone' /\ InTurn'
    BY <1>1, <1>5, <1>9, <1>10, <2>1 DEF Typed, NopAlone, InTurn
  <2>3. AnchorSafe'
    BY <1>1, <2>1, SameJobs DEF AnchorSafe, Reducing
  <2>4. Followed'
    <3>1. SUFFICES ASSUME Plain, NEW j \in InTransaction, NEW k \in Wanted(j), Pending(calls, j, k)
                   PROVE  Pending(r, j, k)
      BY <1>1, <1>10, <1>12, <2>1, SameJobs DEF Followed, Linked
    <3> QED
      BY <1>9, <1>14, <3>1, WantedApplies
  <2> QED
    BY <1>11, <2>2, <2>3, <2>4
<1>15. CASE Loaded(p.unit, p.type) /\ unit_job_is_applicable(p.unit, p.type)
  <2>1. PICK new : /\ new = link(h.job, p.unit, p.type, p.matters, p.conflicts)
                   /\ new.subject = h.job /\ new.object = <<p.unit, p.type>> /\ new.matters = p.matters
    <3>1. PICK new : new = [subject |-> h.job, object |-> <<p.unit, p.type>>, matters |-> p.matters,
                            conflicts |-> p.conflicts]
      BY Zenon
    <3>2. new.subject = h.job /\ new.object = <<p.unit, p.type>> /\ new.matters = p.matters
      BY <3>1
    <3> QED
      BY <3>1, <3>2, Zenon DEF link
  <2>2. /\ UNCHANGED failing
        /\ transaction_add_one_job(p.unit, p.type)
        /\ links' = links \cup {new}
        /\ calls' = NewFrame(p.unit, p.type, p.strict, FALSE) \o <<f>> \o more
    BY <1>2, <1>3, <1>4, <1>6, <1>15, <2>1, Zenon
  <2>3. calls' = NewFrame(p.unit, p.type, p.strict, FALSE) \o r
    <3>1. PICK nf \in Seq(Frame) : nf = NewFrame(p.unit, p.type, p.strict, FALSE)
      BY <1>7, NewFrameType, Zenon DEF Pull
    <3>2. <<f>> \in Seq(Frame)
      BY <1>6
    <3>3. nf \o <<f>> \o more = nf \o (<<f>> \o more)
      BY <3>2, ConcatAssociative
    <3> QED
      BY <1>8, <2>2, <3>1, <3>3, Zenon
  <2>4. /\ calls' \in Seq(Frame) /\ calls' # <<>>
        /\ \A j, k : Pending(r, j, k) => Pending(calls', j, k)
        /\ <<p.unit, p.type>> \notin InTransaction =>
             \A k \in Wanted(<<p.unit, p.type>>) : Pending(calls', <<p.unit, p.type>>, k)
        /\ \A i \in DOMAIN calls' : \A q \in calls'[i].todo : q.type # "nop"
    <3>1. p.strict \in BOOLEAN
      BY <1>7 DEF Pull
    <3>2. Makes(calls', p.unit, p.type, FALSE, r)
      BY <1>7, <1>9, <2>3, <3>1, CallMade, Zenon
    <3> QED
      BY <1>9, <3>2, Zenon DEF Makes
  <2>5. /\ jobs' \in [Units -> Seq(TransactionTypes)]
        /\ \A v \in Units : Elements(jobs'[v]) = IF v = p.unit THEN Elements(jobs[v]) \cup {p.type}
                                                 ELSE Elements(jobs[v])
        /\ InTransaction' = InTransaction \cup {<<p.unit, p.type>>}
    BY <1>7, <2>2, AddOne, Zenon
  <2>6. Typed' /\ InTurn'
    BY <1>1, <1>10, <2>2, <2>4, <2>5, Zenon DEF Typed, InTurn, Ended
  <2>7. NopAlone'
    BY <1>1, <1>5, <1>7, <2>4, <2>5 DEF NopAlone
  <2>8. AnchorSafe'
    BY <1>1, <2>5 DEF AnchorSafe, Reducing
  <2>9. Followed'
    <3>1. SUFFICES ASSUME Plain, NEW j \in InTransaction', NEW k \in Wanted(j)
                   PROVE  \/ Pending(calls', j, k)
                          \/ k \in InTransaction' /\ Linked(j, k)'
      BY <1>1, <1>10, <2>2, Zenon DEF Followed
    <3>2. CASE j \notin InTransaction
      BY <2>4, <2>5, <3>1, <3>2, Zenon
    <3>3. CASE k \in InTransaction /\ Linked(j, k)
      BY <2>2, <2>5, <3>3, Zenon DEF Linked
    <3>4. CASE Pending(r, j, k)
      BY <2>4, <3>4
    <3>5. CASE j = h.job /\ Asks(p, k)
      <4>1. k = <<p.unit, p.type>> /\ p.matters
        BY <3>1, <3>5 DEF Asks, Wanted, Job
      <4> QED
        BY <2>1, <2>2, <2>5, <3>5, <4>1, Zenon DEF Linked
    <3> QED
      BY <1>9, <1>12, <3>1, <3>2, <3>3, <3>4, <3>5
  <2> QED
    BY <1>11, <2>6, <2>7, <2>8, <2>9
<1> QED
  BY <1>13, <1>14, <1>15

LEMMA CallsEnd ==
  ASSUME IInv, calls # <<>>, calls' = Tail(calls), UNCHANGED <<w, jobs, rest, anchor, path, clear>>,
         pc' \in Steps
  PROVE  Typed' /\ NopAlone'
<1> USE DEF IInv
<1>1. IsWorld(w)' <=> IsWorld(w)
  BY SameWorld
<1>2. calls' \in Seq(Frame)
  BY CallsReturn DEF Typed
<1>3. \A i \in DOMAIN calls' : i + 1 \in DOMAIN calls /\ calls'[i] = calls[i + 1]
  BY CallsReturn DEF Typed
<1> QED
  BY <1>1, <1>2, <1>3 DEF Typed, NopAlone

LEMMA ReturnKeeps ==
  ASSUME IInv, Return
  PROVE  IInv'
<1> USE DEF IInv
<1>1. /\ pc = "build" /\ calls # <<>> /\ ~failing /\ Head(calls).todo = {} /\ calls' = Tail(calls)
      /\ doomed = {} /\ clear = {}
      /\ UNCHANGED <<w, pc, jobs, links, failing, rest, anchor, matters, doomed, path, clear>>
  BY DEF Return, order, InTurn, Begun
<1>2. Typed' /\ NopAlone'
  BY <1>1, CallsEnd DEF Steps
<1>3. InTurn' /\ Applies' /\ Searched'
  BY <1>1 DEF InTurn, Applies, Searched, Ended
<1>4. AnchorSafe'
  BY <1>1, SameJobs DEF AnchorSafe, Reducing
<1>5. Followed'
  <2>1. \A j, k : Pending(calls, j, k) => Pending(calls', j, k)
    <3>1. \A j, k : ~AskedBy(Head(calls), j, k)
      BY <1>1 DEF AskedBy
    <3> QED
      BY <1>1, <3>1, CallsReturn DEF Typed
  <2> QED
    BY <1>1, <2>1, SameJobs, SameWorld DEF Followed, Linked
<1> QED
  BY <1>2, <1>3, <1>4, <1>5

LEMMA ReturnErrorKeeps ==
  ASSUME IInv, ReturnError
  PROVE  IInv'
<1> USE DEF IInv
<1>1. /\ pc = "build" /\ failing /\ calls # <<>> /\ calls' = Tail(calls)
      /\ failing' = (Head(calls).strict /\ Tail(calls) # <<>>)
      /\ pc' = IF Head(calls).strict /\ Tail(calls) = <<>> THEN "failed" ELSE "build"
      /\ doomed = {} /\ path = <<>> /\ clear = {}
      /\ UNCHANGED <<w, jobs, links, rest, anchor, matters, doomed, path, clear>>
  BY DEF ReturnError, order, InTurn, Begun
<1>2. Typed' /\ NopAlone'
  BY <1>1, CallsEnd DEF Steps
<1>3. InTurn' /\ Applies' /\ Searched'
  BY <1>1, Zenon DEF InTurn, Applies, Searched, Ended
<1>4. AnchorSafe'
  BY <1>1, SameJobs DEF AnchorSafe, Reducing
<1>5. Followed'
  BY <1>1, SameWorld DEF Followed
<1> QED
  BY <1>2, <1>3, <1>4, <1>5

LEMMA StopMoreKeeps ==
  ASSUME IInv, StopMore
  PROVE  IInv'
<1> USE DEF IInv
<1>1. /\ pc = "build" /\ calls = <<>> /\ doomed = {} /\ clear = {} /\ ~failing
      /\ UNCHANGED <<w, pc, failing, anchor, matters, doomed, path, clear>>
  BY DEF StopMore, order, InTurn, Begun
<1>2. PICK u \in rest :
        /\ rest' = rest \ {u}
        /\ \/ /\ transaction_add_one_job(u, "stop")
              /\ links' = links \cup {link(anchor, u, "stop", TRUE, FALSE)}
              /\ calls' = NewFrame(u, "stop", FALSE, FALSE)
           \/ UNCHANGED <<jobs, links, calls>>
  BY Zenon DEF StopMore
<1>3. /\ anchor[2] # "nop" /\ u \in Units /\ "stop" \in TransactionTypes
      /\ \A v \in Units : "nop" \notin Elements(jobs[v])
  BY <1>2 DEF NopAlone, Typed, TransactionTypes, MergingTypes
<1>4. IsWorld(w)' <=> IsWorld(w)
  BY <1>1, SameWorld
<1>5. Applies' /\ Searched'
  BY <1>1 DEF Applies, Searched, Ended
<1>6. CASE UNCHANGED <<jobs, links, calls>>
  <2>1. Typed' /\ NopAlone' /\ InTurn'
    BY <1>1, <1>2, <1>3, <1>4, <1>6 DEF Typed, NopAlone, InTurn
  <2>2. AnchorSafe' /\ Followed'
    BY <1>1, <1>6, SameJobs, SameWorld DEF AnchorSafe, Reducing, Followed, Linked
  <2> QED
    BY <1>5, <2>1, <2>2
<1>7. CASE /\ transaction_add_one_job(u, "stop")
           /\ links' = links \cup {link(anchor, u, "stop", TRUE, FALSE)}
           /\ calls' = NewFrame(u, "stop", FALSE, FALSE)
  <2>1. /\ jobs' \in [Units -> Seq(TransactionTypes)]
        /\ \A v \in Units : Elements(jobs'[v]) = IF v = u THEN Elements(jobs[v]) \cup {"stop"}
                                                 ELSE Elements(jobs[v])
        /\ InTransaction' = InTransaction \cup {<<u, "stop">>}
    BY <1>3, <1>7, AddOne, Zenon
  <2>2. <<>> \in Seq(Frame) /\ calls' = NewFrame(u, "stop", FALSE, FALSE) \o <<>>
    <3>1. NewFrame(u, "stop", FALSE, FALSE) \in Seq(Frame)
      BY <1>3, NewFrameType, Zenon
    <3> QED
      BY <1>7, <3>1
  <2>3. /\ calls' \in Seq(Frame)
        /\ \A i \in DOMAIN calls' : \A p \in calls'[i].todo : p.type # "nop"
    <3>1. Makes(calls', u, "stop", FALSE, <<>>)
      BY <1>3, <2>2, CallMade, Zenon
    <3> QED
      BY <3>1 DEF Makes
  <2>4. Typed' /\ NopAlone' /\ InTurn'
    <3>1. Typed'
      BY <1>1, <1>2, <1>4, <2>1, <2>3 DEF Typed
    <3>2. NopAlone'
      BY <1>1, <1>3, <2>1, <2>3 DEF NopAlone
    <3>3. InTurn'
      BY <1>1 DEF InTurn, Ended
    <3> QED
      BY <3>1, <3>2, <3>3
  <2>5. AnchorSafe'
    BY <1>1, <2>1 DEF AnchorSafe, Reducing
  <2>6. Followed'
    <3>1. SUFFICES ASSUME Plain, NEW j \in InTransaction', NEW k \in Wanted(j)
                   PROVE  k \in InTransaction' /\ Linked(j, k)'
      BY <1>1, SameWorld DEF Followed
    <3>2. j # <<u, "stop">>
      BY <3>1 DEF Wanted
    <3>3. \A i, m : ~Pending(calls, i, m)
      BY <1>1, NoCalls
    <3>4. k \in InTransaction /\ Linked(j, k)
      BY <1>1, <2>1, <3>1, <3>2, <3>3 DEF Followed, Reducing
    <3> QED
      BY <1>7, <2>1, <3>4, Zenon DEF Linked
  <2> QED
    BY <1>5, <2>4, <2>5, <2>6
<1> QED
  BY <1>2, <1>6, <1>7, Zenon

-----------------------------------------------------------------------------
(* Steps that leave the jobs and their dependencies as they are *)

LEMMA SameTransaction ==
  ASSUME IInv, UNCHANGED <<w, jobs, links, build>>, pc' \in Steps,
         path' \in Seq(Units), clear' \subseteq Units
  PROVE  /\ Typed' /\ NopAlone' /\ UNCHANGED <<calls, failing, rest, anchor>>
         /\ Plain' <=> Plain
         /\ InTransaction' = InTransaction
         /\ \A j : Wanted(j)' = Wanted(j)
         /\ \A j, k : Linked(j, k)' <=> Linked(j, k)
         /\ \A k : Settled(k)' <=> Settled(k)
<1> USE DEF IInv
<1>1. UNCHANGED <<calls, failing, rest, anchor>>
  BY DEF build
<1>2. /\ Plain' <=> Plain
      /\ IsWorld(w)' <=> IsWorld(w)
      /\ \A j : Wanted(j)' = Wanted(j)
  BY SameWorld
<1>3. InTransaction' = InTransaction /\ \A k : Settled(k)' <=> Settled(k)
  BY SameJobs
<1>4. Typed' /\ NopAlone'
  BY <1>1, <1>2 DEF Typed, NopAlone
<1>5. \A j, k : Linked(j, k)' <=> Linked(j, k)
  BY DEF Linked
<1> QED
  BY <1>1, <1>2, <1>3, <1>4, <1>5

\* More jobs may be doomed, and redundant jobs may be gone from then on.
LEMMA StillFollowed ==
  ASSUME IInv, UNCHANGED <<w, jobs, links, build>>, pc' \in Steps,
         path' \in Seq(Units), clear' \subseteq Units, doomed \subseteq doomed',
         pc \in {"build", "matter"} \cup Reducing,
         pc \in Reducing \ {"minimize", "drop"} => pc' \in (Reducing \ {"minimize", "drop"}) \cup {"failed"}
  PROVE  Followed'
<1> USE DEF IInv
<1>1. /\ UNCHANGED <<calls, failing, rest, anchor>>
      /\ Plain' <=> Plain
      /\ InTransaction' = InTransaction
      /\ \A j : Wanted(j)' = Wanted(j)
      /\ \A j, k : Linked(j, k)' <=> Linked(j, k)
      /\ \A k : Settled(k)' <=> Settled(k)
  BY SameTransaction
<1>2. CASE pc' = "failed"
  BY <1>2, Zenon DEF Followed, Reducing
<1>3. CASE pc' # "failed"
  <2>1. SUFFICES ASSUME Plain, NEW j \in InTransaction, NEW k \in Wanted(j)
                 PROVE  \/ Pending(calls, j, k)
                        \/ k \in InTransaction /\ Linked(j, k)
                        \/ pc' \in Reducing \ {"minimize", "drop"} /\ Settled(k)
                        \/ j \in doomed'
    BY <1>1 DEF Followed
  <2>2. \/ Pending(calls, j, k)
        \/ k \in InTransaction /\ Linked(j, k)
        \/ pc \in Reducing \ {"minimize", "drop"} /\ Settled(k)
        \/ j \in doomed
    BY <2>1 DEF Followed
  <2> QED
    BY <1>3, <2>2
<1> QED
  BY <1>2, <1>3

LEMMA BuiltKeeps ==
  ASSUME IInv, Built
  PROVE  IInv'
<1> USE DEF IInv
<1>1. /\ pc = "build" /\ pc' = "matter" /\ matters' = {anchor} /\ calls = <<>>
      /\ doomed = {} /\ path = <<>> /\ clear = {}
      /\ UNCHANGED <<w, jobs, links, build, doomed, path, clear>>
  BY DEF Built, order, InTurn, Begun
<1>2. /\ Typed' /\ NopAlone' /\ UNCHANGED <<calls, failing, rest, anchor>>
      /\ InTransaction' = InTransaction
  BY <1>1, SameTransaction DEF Typed, Steps
<1>3. Followed'
  BY <1>1, StillFollowed DEF Typed, Steps, Reducing
<1>4. InTurn' /\ Applies' /\ Searched'
  BY <1>1, <1>2 DEF InTurn, Applies, Searched, Ended
<1>5. AnchorSafe'
  BY <1>1, <1>2 DEF AnchorSafe, Reducing
<1> QED
  BY <1>2, <1>3, <1>4, <1>5

LEMMA FindJobsKeeps ==
  ASSUME IInv, transaction_find_jobs_that_matter_to_anchor
  PROVE  IInv'
<1> USE DEF IInv
<1>1. /\ pc = "matter" /\ doomed = {} /\ path = <<>> /\ clear = {} /\ calls = <<>>
      /\ pc' \in {"matter", "minimize", "drop"} /\ anchor \in matters'
      /\ pc' # "matter" =>
           /\ UNCHANGED matters
           /\ {l.object : l \in {x \in links : x.matters /\ x.subject \in matters}} \subseteq matters
      /\ UNCHANGED <<w, jobs, links, build, doomed, path, clear>>
  BY DEF transaction_find_jobs_that_matter_to_anchor, order, InTurn, AnchorSafe
<1>2. /\ Typed' /\ NopAlone' /\ UNCHANGED <<calls, failing, rest, anchor>>
      /\ InTransaction' = InTransaction
  BY <1>1, SameTransaction, Zenon DEF Typed, Steps
<1>3. Followed'
  BY <1>1, StillFollowed, Zenon DEF Typed, Steps, Reducing
<1>4. InTurn' /\ Applies' /\ Searched'
  BY <1>1, <1>2, Zenon DEF InTurn, Applies, Searched, Ended
<1>5. AnchorSafe'
  BY <1>1, <1>2, Zenon DEF AnchorSafe, Reducing
<1> QED
  BY <1>2, <1>3, <1>4, <1>5

LEMMA MinimizeKeeps ==
  ASSUME IInv, transaction_minimize_impact
  PROVE  IInv'
<1> USE DEF IInv
<1>1. /\ pc = "minimize" /\ doomed = {} /\ path = <<>> /\ clear = {} /\ calls = <<>>
      /\ pc' = "drop" /\ doomed' \intersect matters = {}
      /\ UNCHANGED <<w, jobs, links, build, matters, path, clear>>
  BY DEF transaction_minimize_impact, order, InTurn
<1>2. /\ Typed' /\ NopAlone' /\ UNCHANGED <<calls, failing, rest, anchor>>
      /\ InTransaction' = InTransaction
  BY <1>1, SameTransaction DEF Typed, Steps
<1>3. Followed'
  BY <1>1, StillFollowed DEF Typed, Steps, Reducing
<1>4. InTurn' /\ Applies' /\ Searched'
  BY <1>1, <1>2 DEF InTurn, Applies, Searched, Ended, Begun
<1>5. AnchorSafe'
  BY <1>1, <1>2 DEF AnchorSafe, Reducing
<1> QED
  BY <1>2, <1>3, <1>4, <1>5

LEMMA CollectKeeps ==
  ASSUME IInv, NEW next,
         \/ pc = "collect" /\ next = "verify"
         \/ pc = "collect again" /\ next = "merge",
         transaction_collect_garbage(next)
  PROVE  IInv'
<1> USE DEF IInv
<1>1. /\ path = <<>> /\ clear = {} /\ calls = <<>> /\ doomed = {}
      /\ \/ pc' = next /\ doomed' = {}
         \/ UNCHANGED pc /\ \E j \in Garbage : doomed' = {j}
      /\ UNCHANGED <<w, jobs, links, build, matters, path, clear>>
  BY Zenon DEF transaction_collect_garbage, order, InTurn
<1>2. /\ Typed' /\ NopAlone' /\ UNCHANGED <<calls, failing, rest, anchor>>
      /\ InTransaction' = InTransaction
  BY <1>1, SameTransaction, Zenon DEF Typed, Steps
<1>3. Followed'
  BY <1>1, StillFollowed, Zenon DEF Typed, Steps, Reducing
<1>4. InTurn' /\ Applies' /\ Searched'
  BY <1>1, <1>2, Zenon DEF InTurn, Applies, Searched, Ended, Begun
<1>5. AnchorSafe'
  <2>1. doomed' \intersect matters = {} \/ (anchor \notin doomed' /\ \A l \in links : l.object \notin doomed')
    BY <1>1, Zenon DEF Garbage
  <2> QED
    BY <1>1, <1>2, <2>1, Zenon DEF AnchorSafe, Reducing
<1> QED
  BY <1>2, <1>3, <1>4, <1>5, Zenon

-----------------------------------------------------------------------------
(* transaction_verify_order() *)

LEMMA VisitKeeps ==
  ASSUME IInv, VisitNext
  PROVE  IInv'
<1> USE DEF IInv
<1>1. /\ pc = "verify" /\ path = <<>> /\ doomed = {} /\ calls = <<>>
      /\ \/ pc' = "merge" /\ clear' = {} /\ UNCHANGED path
         \/ UNCHANGED <<pc, clear>> /\ \E u \in Present : path' = <<u>>
      /\ UNCHANGED <<w, jobs, links, build, matters, doomed>>
  BY DEF VisitNext, InTurn
<1>2. pc' \in {"verify", "merge"} /\ path' \in Seq(Units) /\ clear' \subseteq Units
  <2>1. CASE pc' = "merge" /\ clear' = {} /\ UNCHANGED path
    BY <2>1 DEF Typed
  <2>2. ASSUME UNCHANGED <<pc, clear>>, NEW u \in Present, path' = <<u>>
        PROVE  pc' \in {"verify", "merge"} /\ path' \in Seq(Units) /\ clear' \subseteq Units
    <3>1. u \in Units /\ <<u>> \in Seq(Units)
      BY DEF Present
    <3> QED
      BY <1>1, <2>2, <3>1 DEF Typed
  <2> QED
    BY <1>1, <2>1, <2>2
<1>3. /\ Typed' /\ NopAlone' /\ UNCHANGED <<calls, failing, rest, anchor>>
      /\ InTransaction' = InTransaction
  BY <1>1, <1>2, SameTransaction, Zenon DEF Steps
<1>4. Followed'
  BY <1>1, <1>2, StillFollowed, Zenon DEF Steps, Reducing
<1>5. InTurn' /\ Applies'
  BY <1>1, <1>3, Zenon DEF InTurn, Applies, Ended
<1>6. AnchorSafe'
  BY <1>1, <1>2, <1>3, Zenon DEF AnchorSafe, Reducing
<1>7. Searched'
  <2>1. CASE clear' = {}
    BY <2>1 DEF Searched
  <2>2. CASE UNCHANGED clear
    BY <1>1, <2>2, SameJobs DEF Searched
  <2> QED
    BY <1>1, <2>1, <2>2
<1> QED
  BY <1>3, <1>4, <1>5, <1>6, <1>7

LEMMA VerifyKeeps ==
  ASSUME IInv, transaction_verify_order_one
  PROVE  IInv'
<1> USE DEF IInv
<1>1. /\ pc = "verify" /\ doomed = {} /\ calls = <<>>
      /\ UNCHANGED <<w, jobs, links, build, matters>>
  BY DEF transaction_verify_order_one, InTurn
<1>2. PICK v \in Units :
        \/ path' = <<v>> \o path /\ UNCHANGED <<pc, doomed, clear>>
        \/ /\ path' = <<>> /\ clear' = {}
           /\ \/ pc' = "failed" /\ UNCHANGED doomed
              \/ pc' = "collect" /\ \E i \in Droppable(v) : doomed' = JobsOf(path[i])
  BY DEF transaction_verify_order_one
<1>3. pc' \in {"verify", "failed", "collect"} /\ path' \in Seq(Units) /\ clear' \subseteq Units
  <2>1. CASE path' = <<v>> \o path /\ UNCHANGED <<pc, doomed, clear>>
    BY <1>1, <2>1 DEF Typed
  <2>2. CASE path' = <<>> /\ clear' = {} /\ pc' \in {"failed", "collect"}
    BY <2>2
  <2> QED
    BY <1>2, <2>1, <2>2
<1>4. /\ Typed' /\ NopAlone' /\ UNCHANGED <<calls, failing, rest, anchor>>
      /\ InTransaction' = InTransaction
  BY <1>1, <1>3, SameTransaction, Zenon DEF Steps
<1>5. Followed'
  <2>1. pc' \in Steps /\ pc \in {"build", "matter"} \cup Reducing
    BY <1>1, <1>3, Zenon DEF Steps, Reducing
  <2>2. pc' \in (Reducing \ {"minimize", "drop"}) \cup {"failed"}
    BY <1>3, Zenon DEF Reducing
  <2>3. doomed \subseteq doomed'
    BY <1>1
  <2> QED
    BY <1>1, <1>3, <2>1, <2>2, <2>3, StillFollowed
<1>6. doomed' \intersect matters = {} /\ (pc' = "verify" => doomed' = {})
  BY <1>1, <1>2 DEF Droppable
<1>7. InTurn' /\ Applies'
  BY <1>1, <1>2, <1>3, <1>4, <1>6, Zenon DEF InTurn, Applies, Ended, Begun
<1>8. AnchorSafe'
  BY <1>1, <1>3, <1>4, <1>6, Zenon DEF AnchorSafe, Reducing
<1>9. Searched'
  <2>1. CASE clear' = {}
    BY <2>1 DEF Searched
  <2>2. CASE UNCHANGED clear
    BY <1>1, <2>2, SameJobs DEF Searched
  <2> QED
    BY <1>2, <2>1, <2>2
<1> QED
  BY <1>4, <1>5, <1>7, <1>8, <1>9

\* A unit whose successors are all clear is clear.
LEMMA BacktrackKeeps ==
  ASSUME IInv, Backtrack
  PROVE  IInv'
<1> USE DEF IInv
<1>1. /\ pc = "verify" /\ path # <<>> /\ doomed = {} /\ calls = <<>>
      /\ \A v \in Units : Precedes(Head(path), v) => v \in clear
      /\ clear' = clear \cup {Head(path)} /\ path' = Tail(path)
      /\ UNCHANGED <<w, pc, jobs, links, build, matters, doomed>>
  BY DEF Backtrack, InTurn
<1>2. Head(path) \in Units /\ path' \in Seq(Units) /\ clear' \subseteq Units /\ clear \subseteq Units
  BY <1>1 DEF Typed
<1>3. /\ Typed' /\ NopAlone' /\ UNCHANGED <<calls, failing, rest, anchor>>
      /\ InTransaction' = InTransaction
  BY <1>1, <1>2, SameTransaction DEF Steps
<1>4. Followed'
  BY <1>1, <1>2, StillFollowed DEF Steps, Reducing
<1>5. InTurn' /\ Applies'
  BY <1>1, <1>3 DEF InTurn, Applies, Ended
<1>6. AnchorSafe'
  BY <1>1, <1>3 DEF AnchorSafe, Reducing
<1>7. Searched'
  <2>0. PICK h \in Units : h = Head(path)
    BY <1>2
  <2>1. \A u, v : Precedes(u, v)' <=> Precedes(u, v)
    BY <1>1, SameJobs
  <2>2. \A u \in clear' : \A v \in Units : Precedes(u, v) => v \in clear
    BY <1>1 DEF Searched
  <2>3. ASSUME NEW C \in SUBSET clear', C # {}
        PROVE  \E u \in C : \A v \in C : ~Precedes(u, v)
    <3>1. CASE C \subseteq clear
      BY <2>3, <3>1 DEF Searched
    <3>2. CASE ~(C \subseteq clear)
      <4>1. h \in C /\ h \notin clear
        BY <1>1, <2>0, <2>3, <3>2
      <4>2. CASE C \ {h} = {}
        BY <1>1, <2>0, <4>1, <4>2
      <4>3. CASE C \ {h} # {}
        <5>1. C \ {h} \in SUBSET clear
          BY <1>1, <2>0, <2>3
        <5>2. PICK u \in C \ {h} : \A v \in C \ {h} : ~Precedes(u, v)
          BY <4>3, <5>1, Zenon DEF Searched
        <5>3. ~Precedes(u, h)
          BY <2>0, <2>2, <2>3, <4>1, <5>2
        <5> QED
          BY <5>2, <5>3
      <4> QED
        BY <4>2, <4>3
    <3> QED
      BY <3>1, <3>2
  <2> QED
    BY <1>1, <2>1, <2>2, <2>3 DEF Searched
<1> QED
  BY <1>3, <1>4, <1>5, <1>6, <1>7

LEMMA ApplyKeeps ==
  ASSUME IInv, transaction_apply
  PROVE  IInv'
<1> USE DEF IInv
<1>1. /\ pc = "check" /\ pc' \in {"applied", "failed"} /\ doomed = {} /\ path = <<>> /\ clear = {}
      /\ UNCHANGED <<w, jobs, links, build, matters, doomed, path, clear>>
  BY DEF transaction_apply, InTurn, order, Ended
<1>2. /\ Typed' /\ NopAlone' /\ UNCHANGED <<calls, failing, rest, anchor>>
      /\ InTransaction' = InTransaction
  BY <1>1, SameTransaction, Zenon DEF Typed, Steps
<1>3. InTurn' /\ Followed' /\ Searched'
  BY <1>1, <1>2, Zenon DEF InTurn, Followed, Searched, Ended, Reducing
<1>4. AnchorSafe'
  BY <1>1, <1>2, Zenon DEF AnchorSafe, Reducing
<1>5. Applies'
  BY <1>1, SameWorld, SameJobs, Zenon DEF Applies, Ended
<1> QED
  BY <1>2, <1>3, <1>4, <1>5

\* The successors of a unit in a cycle: no smallest cycle has a dead end.
LEMMA CycleGoesOn ==
  ASSUME NEW C \in SUBSET Units, Cycle(C), NEW u \in C
  PROVE  \E v \in C : Precedes(u, v)
<1>1. SUFFICES ASSUME \A v \in C : ~Precedes(u, v) PROVE FALSE
  OBVIOUS
<1>2. C # {} /\ \A x \in C : \E y \in C : Precedes(y, x)
  BY DEF Cycle, Waits
<1>3. C \ {u} # {} /\ \A x \in C \ {u} : \E y \in C \ {u} : Precedes(y, x)
  BY <1>1, <1>2
<1>4. C \ {u} = C
  BY <1>3, Zenon DEF Cycle, Waits
<1> QED
  BY <1>4

LEMMA SearchFindsCycles ==
  ASSUME IInv, Present \subseteq clear, NEW C \in SUBSET Units, Cycle(C)
  PROVE  C \intersect Present = {}
<1>1. SUFFICES ASSUME C \intersect clear # {} PROVE FALSE
  OBVIOUS
<1>2. PICK u \in C \intersect clear : \A v \in C \intersect clear : ~Precedes(u, v)
  BY <1>1, Zenon DEF IInv, Searched
<1>3. PICK v \in C : Precedes(u, v)
  BY <1>2, CycleGoesOn
<1> QED
  BY <1>2, <1>3 DEF IInv, Searched

-----------------------------------------------------------------------------
(* Steps that take jobs out of the transaction *)

LEMMA NopList ==
  ASSUME NEW s \in {<<>>, <<"nop">>}
  PROVE  Elements(s) \subseteq {"nop"} /\ Len(s) <= 1 /\ Len(s) \in Nat
<1>1. CASE s = <<>>
  <2>1. Elements(<<>>) = {} /\ Len(<<>>) = 0
    BY OneElement, Zenon
  <2> QED
    BY <1>1, <2>1
<1>2. CASE s = <<"nop">>
  <2>1. Len(<<"nop">>) = 1
    OBVIOUS
  <2>2. Elements(<<"nop">>) = {"nop"}
    BY OneElement
  <2> QED
    BY <1>2, <2>1, <2>2
<1> QED
  BY <1>1, <1>2

LEMMA UnlinkTyped ==
  ASSUME IInv, NEW S, Unlink(S), UNCHANGED <<w, build, path, clear>>, calls = <<>>, pc' \in Steps
  PROVE  Typed' /\ NopAlone' /\ UNCHANGED <<calls, failing, rest, anchor>>
<1> USE DEF IInv
<1>1. /\ jobs' \in [Units -> Seq(TransactionTypes)]
      /\ \A v \in Units : /\ Elements(jobs'[v]) = {t \in Elements(jobs[v]) : <<v, t>> \notin S}
                          /\ Len(jobs'[v]) <= Len(jobs[v])
  BY UnlinkJobs
<1>2. UNCHANGED <<calls, failing, rest, anchor>>
  BY DEF build
<1>3. Typed'
  BY <1>1, <1>2, SameWorld DEF Typed
<1>4. CASE anchor[2] = "nop"
  <2>1. rest = {} /\ \A u \in Units : jobs[u] \in {<<>>, <<"nop">>}
    BY <1>4 DEF NopAlone
  <2>2. ASSUME NEW u \in Units PROVE jobs'[u] \in {<<>>, <<"nop">>}
    <3>1. jobs[u] \in {<<>>, <<"nop">>}
      BY <2>1
    <3>2. Elements(jobs[u]) \subseteq {"nop"} /\ Len(jobs[u]) <= 1 /\ Len(jobs[u]) \in Nat
      BY <3>1, NopList, Zenon
    <3>3. jobs'[u] \in Seq(TransactionTypes) /\ Elements(jobs'[u]) \subseteq {"nop"}
      BY <1>1, <3>2, Zenon
    <3>4. Len(jobs'[u]) <= 1
      BY <1>1, <3>2, <3>3
    <3> QED
      BY <3>3, <3>4, ListFacts
  <2> QED
    BY <1>2, <1>3, <1>4, <2>1, <2>2 DEF NopAlone
<1>5. CASE anchor[2] # "nop"
  <2>1. \A u \in Units : "nop" \notin Elements(jobs[u])
    BY <1>5 DEF NopAlone
  <2> QED
    BY <1>1, <1>2, <1>3, <1>5, <2>1, Zenon DEF NopAlone
<1> QED
  BY <1>2, <1>3, <1>4, <1>5

LEMMA DeleteKeeps ==
  ASSUME IInv, transaction_delete_job
  PROVE  IInv'
<1> USE DEF IInv
<1>1. /\ doomed # {} /\ Unlink(doomed)
      /\ doomed' = {l.subject : l \in {x \in links : /\ x.matters /\ x.object \in doomed
                                                     /\ x.subject \notin doomed}}
      /\ UNCHANGED <<w, pc, build, matters, path, clear>>
  BY DEF transaction_delete_job, order
<1>2. pc \in {"drop", "collect", "collect again", "failed"} /\ calls = <<>> /\ path = <<>> /\ clear = {}
  BY <1>1, Zenon DEF InTurn, Typed, Steps, Begun, Ended
<1>3. /\ Typed' /\ NopAlone' /\ UNCHANGED <<calls, failing, rest, anchor>>
  BY <1>1, <1>2, UnlinkTyped, Zenon DEF Typed
<1>4. /\ InTransaction' = InTransaction \ doomed
      /\ \A v \in Units : Elements(jobs'[v]) = {t \in Elements(jobs[v]) : <<v, t>> \notin doomed}
  <2>1. PICK S : S = doomed /\ Unlink(S)
    BY <1>1, Zenon
  <2>2. /\ InTransaction' = InTransaction \ S
        /\ \A v \in Units : Elements(jobs'[v]) = {t \in Elements(jobs[v]) : <<v, t>> \notin S}
    BY <2>1, UnlinkJobs
  <2> QED
    BY <2>1, <2>2
<1>5. links' = {l \in links : l.subject \notin doomed /\ l.object \notin doomed}
  BY <1>1 DEF Unlink
<1>6. InTurn' /\ Applies' /\ Searched'
  BY <1>1, <1>2, <1>3, Zenon DEF InTurn, Applies, Searched, Ended, Begun
<1>7. AnchorSafe'
  <2>1. CASE pc = "failed"
    BY <1>1, <2>1 DEF AnchorSafe, Reducing
  <2>2. CASE pc \in Reducing
    <3>1. /\ anchor \in InTransaction /\ anchor \in matters
          /\ \A l \in links : l.matters /\ l.subject \in matters => l.object \in matters
          /\ \/ doomed \intersect matters = {}
             \/ anchor \notin doomed /\ \A l \in links : l.object \notin doomed
      BY <1>2, <2>2, Zenon DEF AnchorSafe, Reducing
    <3>2. anchor \in InTransaction'
      BY <1>4, <3>1
    <3>3. \A l \in links' : l.matters /\ l.subject \in matters => l.object \in matters
      BY <1>5, <3>1
    <3>4. doomed' \intersect matters = {}
      BY <1>1, <3>1
    <3> QED
      BY <1>1, <1>3, <3>1, <3>2, <3>3, <3>4 DEF AnchorSafe
  <2> QED
    BY <1>2, <2>1, <2>2, Zenon DEF Reducing
<1>8. Followed'
  <2>1. SUFFICES ASSUME Plain, pc \in Reducing, NEW j \in InTransaction', NEW k \in Wanted(j)
                 PROVE  \/ k \in InTransaction' /\ Linked(j, k)'
                        \/ pc \in Reducing \ {"minimize", "drop"} /\ Settled(k)'
                        \/ j \in doomed'
    <3>1. ~failing
      BY <1>2, Zenon DEF InTurn
    <3> QED
      BY <1>1, <1>2, <1>3, <3>1, SameWorld, Zenon DEF Followed
  <2>2. j \in InTransaction /\ j \notin doomed
    BY <1>4, <2>1
  <2>3. ~Pending(calls, j, k)
    BY <1>2, NoCalls, Zenon
  <2>4. CASE k \in InTransaction /\ Linked(j, k)
    <3>1. PICK l \in links : l.subject = j /\ l.object = k /\ l.matters
      BY <2>4 DEF Linked
    <3>2. CASE k \in doomed
      BY <1>1, <2>2, <3>1, <3>2
    <3>3. CASE k \notin doomed
      <4>1. l \in links'
        BY <1>5, <2>2, <3>1, <3>3
      <4> QED
        BY <1>4, <2>4, <3>1, <3>3, <4>1 DEF Linked
    <3> QED
      BY <3>2, <3>3
  <2>5. CASE pc \in Reducing \ {"minimize", "drop"} /\ Settled(k)
    <3>1. k[1] \in Units /\ jobs[k[1]] = <<>>
      BY <2>1, <2>5 DEF Wanted, Job, Settled
    <3>2. jobs'[k[1]] \in Seq(TransactionTypes) /\ Elements(jobs'[k[1]]) = {}
      BY <1>3, <1>4, <3>1, OneElement, Zenon DEF Typed
    <3>3. jobs'[k[1]] = <<>>
      BY <3>2, ListFacts
    <3> QED
      BY <1>1, <2>5, <3>3, Zenon DEF Settled, StaysUp, StaysDown
  <2> QED
    BY <2>1, <2>2, <2>3, <2>4, <2>5 DEF Followed
<1> QED
  BY <1>3, <1>6, <1>7, <1>8

\* A unit whose job is redundant is as the job would make it, and its
\* installed job leaves it so.
LEMMA RedundantStays ==
  ASSUME Typed, NEW j \in Job, Redundant(j)
  PROVE  /\ j[2] = "start" => StaysUp(j[1])
         /\ j[2] = "stop" => StaysDown(j[1])
         /\ j[2] \notin {"reload", "restart"}
<1>1. job_type_is_redundant(j[2], w.ustate[j[1]]) /\ j[1] \in Units
  BY DEF Redundant, Job
<1>2. w.job[j[1]] # None => w.job[j[1]].type \in MergingTypes
  BY <1>1 DEF Typed, IsWorld, Installed
<1>3. w.job[j[1]] # None => ~job_type_is_conflicting(j[2], w.job[j[1]].type)
  BY DEF Redundant
<1>4. ASSUME w.job[j[1]] # None, j[2] = "start" PROVE w.job[j[1]].type # "stop"
  <2>1. job_type_is_conflicting("start", "stop")
    BY MergeTable DEF job_type_is_conflicting, job_type_is_mergeable, MergingTypes
  <2> QED
    BY <1>3, <1>4, <2>1
<1>5. ASSUME w.job[j[1]] # None, j[2] = "stop" PROVE w.job[j[1]].type = "stop"
  <2>1. \A t \in MergingTypes : t # "stop" => job_type_is_conflicting("stop", t)
    BY MergeTable DEF job_type_is_conflicting, job_type_is_mergeable, MergingTypes
  <2> QED
    BY <1>2, <1>3, <1>5, <2>1
<1> QED
  BY <1>1, <1>4, <1>5 DEF job_type_is_redundant, StaysUp, StaysDown

LEMMA OneList ==
  ASSUME NEW s \in Seq(TransactionTypes), Len(s) <= 1, NEW t, Elements(s) = {t}
  PROVE  s = <<t>>
<1>0. s # <<>>
  BY ListFacts, Zenon
<1>1. Len(s) = 1 /\ DOMAIN s = {1}
  <2>1. Len(s) \in Nat /\ DOMAIN s = 1..Len(s)
    OBVIOUS
  <2>2. Len(s) # 0
    BY <1>0, EmptySeq
  <2>3. Len(s) = 1
    BY <2>1, <2>2
  <2>4. 1..1 = {1}
    OBVIOUS
  <2> QED
    BY <2>1, <2>3, <2>4
<1>2. s[1] = t
  BY <1>1 DEF Elements
<1> QED
  BY <1>1, <1>2

\* transaction_drop_redundant() takes all the jobs of a unit or none.
LEMMA DropJobs ==
  ASSUME IInv, NEW next, transaction_drop_redundant(next), calls = <<>>, next \in Steps
  PROVE  /\ Typed' /\ NopAlone' /\ UNCHANGED <<w, matters, doomed, path, clear>>
         /\ pc' = next /\ doomed = {}
         /\ UNCHANGED <<calls, failing, rest, anchor>>
         /\ anchor \in InTransaction => anchor \in InTransaction'
         /\ \A v \in Units : Len(jobs'[v]) <= Len(jobs[v])
         /\ \A v \in Units : \/ Elements(jobs'[v]) = Elements(jobs[v])
                             \/ jobs'[v] = <<>> /\ \A j \in JobsOf(v) : Redundant(j)
         /\ InTransaction' \subseteq InTransaction
         /\ \A j, k : Linked(j, k) /\ j \in InTransaction' /\ k \in InTransaction' => Linked(j, k)'
         /\ links' \subseteq links
<1> USE DEF IInv
<1> DEFINE D == {v \in Units : \A j \in JobsOf(v) : Redundant(j)}
<1>1. PICK S : S = UNION {JobsOf(u) : u \in D}
  BY Zenon
<1>2. /\ Unlink(S) /\ doomed = {} /\ pc' = next
      /\ UNCHANGED <<w, build, matters, doomed, path, clear>>
  BY <1>1 DEF transaction_drop_redundant, order
<1>3. Typed' /\ NopAlone' /\ UNCHANGED <<calls, failing, rest, anchor>>
  BY <1>2, UnlinkTyped
<1>4. /\ InTransaction' = InTransaction \ S
      /\ \A v \in Units : /\ Elements(jobs'[v]) = {t \in Elements(jobs[v]) : <<v, t>> \notin S}
                          /\ Len(jobs'[v]) <= Len(jobs[v])
  BY <1>2, UnlinkJobs
<1>5. anchor \notin S
  BY <1>1 DEF Redundant
<1>6. ASSUME NEW v \in Units
      PROVE  \/ Elements(jobs'[v]) = Elements(jobs[v])
             \/ jobs'[v] = <<>> /\ \A j \in JobsOf(v) : Redundant(j)
  <2>1. CASE v \in D
    <3>1. \A t \in Elements(jobs[v]) : <<v, t>> \in S
      BY <1>1, <2>1, Members
    <3>2. Elements(jobs'[v]) = {}
      BY <1>4, <3>1, Zenon
    <3> QED
      BY <1>3, <2>1, <3>2, ListFacts DEF Typed
  <2>2. CASE v \notin D
    <3>1. \A t : <<v, t>> \notin S
      <4>1. \A u \in D : \A j \in JobsOf(u) : j[1] = u
        BY Members
      <4> QED
        BY <1>1, <2>2, <4>1
    <3> QED
      BY <1>4, <3>1, Zenon
  <2> QED
    BY <2>1, <2>2
<1>7. links' = {l \in links : l.subject \notin S /\ l.object \notin S}
  BY <1>2 DEF Unlink
<1>8. ASSUME NEW j, NEW k, Linked(j, k), j \in InTransaction', k \in InTransaction'
      PROVE  Linked(j, k)'
  <2>1. PICK l \in links : l.subject = j /\ l.object = k /\ l.matters
    BY <1>8 DEF Linked
  <2>2. l \in links'
    BY <1>4, <1>7, <1>8, <2>1
  <2> QED
    BY <2>1, <2>2 DEF Linked
<1> QED
  BY <1>2, <1>3, <1>4, <1>5, <1>6, <1>7, <1>8, Zenon

LEMMA DropKeeps ==
  ASSUME IInv, pc = "drop", transaction_drop_redundant("collect")
  PROVE  IInv'
<1> USE DEF IInv
<1>1. calls = <<>> /\ path = <<>> /\ clear = {} /\ ~failing
  BY DEF InTurn
<1>2. /\ Typed' /\ NopAlone' /\ UNCHANGED <<w, matters, doomed, path, clear>>
      /\ pc' = "collect" /\ doomed = {}
      /\ UNCHANGED <<calls, failing, rest, anchor>>
      /\ anchor \in InTransaction => anchor \in InTransaction'
      /\ \A v \in Units : \/ Elements(jobs'[v]) = Elements(jobs[v])
                          \/ jobs'[v] = <<>> /\ \A j \in JobsOf(v) : Redundant(j)
      /\ InTransaction' \subseteq InTransaction
      /\ \A j, k : Linked(j, k) /\ j \in InTransaction' /\ k \in InTransaction' => Linked(j, k)'
      /\ links' \subseteq links
  BY <1>1, DropJobs, Zenon DEF Steps
<1>3. InTurn' /\ Applies' /\ Searched'
  BY <1>1, <1>2 DEF InTurn, Applies, Searched, Ended
<1>4. AnchorSafe'
  BY <1>2, Zenon DEF AnchorSafe, Reducing
<1>5. Followed'
  <2>1. SUFFICES ASSUME Plain, NEW j \in InTransaction', NEW k \in Wanted(j)
                 PROVE  (k \in InTransaction' /\ Linked(j, k)') \/ Settled(k)'
    BY <1>1, <1>2, SameWorld, Zenon DEF Followed, Reducing
  <2>2. ~Pending(calls, j, k)
    BY <1>1, NoCalls
  <2>3. k \in InTransaction /\ Linked(j, k)
    BY <1>2, <2>1, <2>2 DEF Followed, Reducing
  <2>4. /\ k \in Job /\ k[1] \in Units /\ k = <<k[1], k[2]>> /\ k[2] \in Elements(jobs[k[1]])
        /\ k \in JobsOf(k[1])
    BY <2>1, <2>3, Members DEF Wanted, Job
  <2>5. CASE Elements(jobs'[k[1]]) = Elements(jobs[k[1]])
    <3>1. k \in InTransaction'
      <4>1. k \in JobsOf(k[1])'
        BY <2>4, <2>5 DEF JobsOf, Elements
      <4> QED
        BY <2>4, <4>1 DEF InTransaction
    <3> QED
      BY <1>2, <2>1, <2>3, <3>1
  <2>6. CASE jobs'[k[1]] = <<>> /\ \A i \in JobsOf(k[1]) : Redundant(i)
    <3>1. Redundant(k)
      BY <2>4, <2>6
    <3> QED
      BY <1>2, <2>4, <2>6, <3>1, RedundantStays DEF Settled, StaysUp, StaysDown
  <2> QED
    BY <1>2, <2>4, <2>5, <2>6
<1> QED
  BY <1>2, <1>3, <1>4, <1>5

LEMMA NoMore == \A m, n \in Nat : m <= n /\ n <= 1 => m <= 1
OBVIOUS

\* Once the jobs are merged, redundant ones go, and what was answered stays so.
LEMMA DropAgainKeeps ==
  ASSUME IInv, pc = "drop again", transaction_drop_redundant("check")
  PROVE  IInv'
<1> USE DEF IInv
<1>1. /\ calls = <<>> /\ path = <<>> /\ clear = {} /\ ~failing
      /\ \A u \in Units : Len(jobs[u]) <= 1
  BY Zenon DEF InTurn, Ended
<1>2. /\ Typed' /\ NopAlone' /\ UNCHANGED <<w, matters, doomed, path, clear>>
      /\ pc' = "check" /\ doomed = {}
      /\ UNCHANGED <<calls, failing, rest, anchor>>
      /\ anchor \in InTransaction => anchor \in InTransaction'
      /\ \A v \in Units : Len(jobs'[v]) <= Len(jobs[v])
      /\ \A v \in Units : \/ Elements(jobs'[v]) = Elements(jobs[v])
                          \/ jobs'[v] = <<>> /\ \A j \in JobsOf(v) : Redundant(j)
  BY <1>1, DropJobs, Zenon DEF Steps
<1>3. \A v \in Units : /\ jobs[v] \in Seq(TransactionTypes) /\ jobs'[v] \in Seq(TransactionTypes)
                       /\ Len(jobs[v]) \in Nat /\ Len(jobs'[v]) \in Nat
  <2>1. jobs \in [Units -> Seq(TransactionTypes)] /\ jobs' \in [Units -> Seq(TransactionTypes)]
    BY <1>2, Zenon DEF Typed
  <2>2. \A v \in Units : jobs[v] \in Seq(TransactionTypes) /\ jobs'[v] \in Seq(TransactionTypes)
    BY <2>1, Zenon
  <2> QED
    BY <2>2, LenProperties, Zenon
<1>4. ASSUME NEW v \in Units PROVE Len(jobs'[v]) <= 1
  <2>1. Len(jobs'[v]) <= Len(jobs[v]) /\ Len(jobs[v]) <= 1
    BY <1>1, <1>2, Zenon
  <2>2. Len(jobs'[v]) \in Nat /\ Len(jobs[v]) \in Nat
    BY <1>3, Zenon
  <2> QED
    BY <2>1, <2>2, NoMore, Zenon
<1>5. InTurn' /\ Followed' /\ Searched'
  BY <1>1, <1>2, <1>4, Zenon DEF InTurn, Followed, Searched, Reducing
<1>6. AnchorSafe'
  BY <1>2, Zenon DEF AnchorSafe, Reducing
<1>7. ASSUME NEW v \in Units, NEW t, jobs[v] = <<t>>
      PROVE  \/ jobs'[v] = <<t>>
             \/ jobs'[v] = <<>> /\ <<v, t>> \in Job /\ Redundant(<<v, t>>)
  <2>1. Elements(jobs[v]) = {t}
    BY <1>7, OneElement, Zenon
  <2>2. CASE Elements(jobs'[v]) = Elements(jobs[v])
    BY <1>3, <1>4, <2>1, <2>2, OneList, Zenon
  <2>3. CASE jobs'[v] = <<>> /\ \A j \in JobsOf(v) : Redundant(j)
    <3>1. t \in Elements(jobs[v]) /\ <<v, t>> \in JobsOf(v)
      <4>1. t \in Elements(jobs[v])
        BY <2>1, Zenon
      <4>2. JobsOf(v) = {<<v, x>> : x \in Elements(jobs[v])}
        BY Members, Zenon
      <4> QED
        BY <4>1, <4>2, Zenon
    <3>2. t \in TransactionTypes
      BY <1>3, <3>1, ElementTypes, Zenon
    <3> QED
      BY <2>3, <3>1, <3>2, Zenon DEF Job
  <2> QED
    BY <1>2, <2>2, <2>3, Zenon
<1>8. ASSUME NEW v \in Units, jobs[v] = <<>>
      PROVE  jobs'[v] = <<>>
  <2>1. Elements(jobs[v]) = {}
    BY <1>8, OneElement, Zenon
  <2> QED
    BY <1>2, <1>3, <2>1, ListFacts, Zenon
<1>9. ASSUME NEW k \in Job, Answered(k), k[2] \in {"start", "stop"}
      PROVE  Answered(k)'
  <2>1. k[1] \in Units /\ k = <<k[1], k[2]>>
    BY JobPair, Zenon
  <2>2. CASE Settled(k)
    BY <1>2, <1>8, <2>1, <2>2, Zenon DEF Answered, Settled, StaysUp, StaysDown
  <2>3. ASSUME NEW t \in {"start", "reload", "restart"}, k[2] = "start", jobs[k[1]] = <<t>>
        PROVE  Answered(k)'
    <3>1. CASE jobs'[k[1]] = <<t>>
      BY <2>3, <3>1, Zenon DEF Answered
    <3>2. CASE jobs'[k[1]] = <<>> /\ <<k[1], t>> \in Job /\ Redundant(<<k[1], t>>)
      <4>1. StaysUp(k[1])
        BY <2>3, <3>2, RedundantStays, Zenon
      <4> QED
        BY <1>2, <2>3, <3>2, <4>1, Zenon DEF Answered, Settled, StaysUp
    <3> QED
      BY <1>7, <2>1, <2>3, <3>1, <3>2, Zenon
  <2>4. ASSUME k[2] = "stop", jobs[k[1]] = <<"stop">>
        PROVE  Answered(k)'
    <3>1. CASE jobs'[k[1]] = <<"stop">>
      BY <2>4, <3>1, Zenon DEF Answered
    <3>2. CASE jobs'[k[1]] = <<>> /\ <<k[1], "stop">> \in Job /\ Redundant(<<k[1], "stop">>)
      <4>1. StaysDown(k[1])
        BY <3>2, RedundantStays, Zenon
      <4> QED
        BY <1>2, <2>4, <3>2, <4>1, Zenon DEF Answered, Settled, StaysDown
    <3> QED
      BY <1>7, <2>1, <2>4, <3>1, <3>2, Zenon
  <2> QED
    BY <1>9, <2>2, <2>3, <2>4, Zenon DEF Answered
<1>10. Applies'
  <2>1. SUFFICES ASSUME Plain, NEW u \in Units, NEW t \in {"start", "restart"}, jobs'[u] = <<t>>,
                        NEW k \in Wanted(<<u, t>>)
                 PROVE  Answered(k)'
    BY <1>2, SameWorld, Zenon DEF Applies
  <2>2. Elements(jobs'[u]) = {t}
    BY <2>1, OneElement, Zenon
  <2>3. jobs'[u] # <<>>
    BY <1>3, <2>2, ListFacts, Zenon
  <2>4. Elements(jobs[u]) = {t}
    BY <1>2, <2>2, <2>3, Zenon
  <2>5. jobs[u] = <<t>>
    BY <1>1, <1>3, <2>4, OneList, Zenon
  <2>6. Answered(k)
    BY <2>1, <2>5, Zenon DEF Applies, Ended
  <2>7. k \in Job /\ k[2] \in {"start", "stop"}
    BY <2>1, Zenon DEF Wanted
  <2> QED
    BY <1>9, <2>6, <2>7, Zenon
<1> QED
  BY <1>2, <1>5, <1>6, <1>10, Zenon

-----------------------------------------------------------------------------
(* Merging *)

LEMMA VictimDoesNotMatter ==
  ASSUME NEW j, NEW k, ~({j, k} \subseteq matters)
  PROVE  Victim(j, k) \notin matters
<1>1. CASE j \notin matters /\ k \notin matters
  <2>1. Victim(j, k) \in {j, k}
    <3>1. CASE j[2] = "stop"
      BY <1>1, <3>1, Zenon DEF Victim
    <3>2. CASE j[2] # "stop" /\ k[2] = "stop"
      BY <1>1, <3>2, Zenon DEF Victim
    <3>3. CASE j[2] # "stop" /\ k[2] # "stop"
      BY <1>1, <3>3, Zenon DEF Victim
    <3> QED
      BY <3>1, <3>2, <3>3
  <2> QED
    BY <1>1, <2>1
<1>2. CASE ~(j \notin matters /\ k \notin matters)
  BY <1>2 DEF Victim
<1> QED
  BY <1>1, <1>2

\* What the jobs of a unit are merged into, when they can be.
LEMMA MergedType ==
  ASSUME IInv, NEW u \in Present, MergeAll(u) # "none"
  PROVE  /\ u \in Units
         /\ anchor[2] = "nop" => MergeAll(u) = "nop"
         /\ anchor[2] # "nop" =>
              /\ MergeAll(u) \in MergingTypes
              /\ MergeAll(u) \in {"start", "restart"} =>
                   Elements(jobs[u]) \intersect {"start", "restart"} # {}
              /\ "start" \in Elements(jobs[u]) => MergeAll(u) \in {"start", "reload", "restart"}
              /\ "stop" \in Elements(jobs[u]) => MergeAll(u) = "stop"
         /\ MergeAll(u) \in TransactionTypes
<1> USE DEF IInv
<1>1. u \in Units /\ jobs[u] # <<>> /\ jobs[u] \in Seq(TransactionTypes)
  BY DEF Present, Typed
<1>2. CASE anchor[2] = "nop"
  <2>1. jobs[u] = <<"nop">>
    BY <1>1, <1>2 DEF NopAlone
  <2>2. MergeAll(u) = "nop"
    BY <2>1, MergeOne, Zenon DEF MergeAll
  <2> QED
    BY <1>1, <1>2, <2>2 DEF TransactionTypes
<1>3. CASE anchor[2] # "nop"
  <2>1. jobs[u] \in Seq(MergingTypes)
    BY <1>1, <1>3, ListFacts DEF NopAlone
  <2>2. PICK r : r = MergeList(jobs[u], w.ustate[u]) /\ r = MergeAll(u)
    BY Zenon DEF MergeAll
  <2>3. /\ r \in MergingTypes \cup {"none"}
        /\ r \in {"start", "restart"} => Elements(jobs[u]) \intersect {"start", "restart"} # {}
        /\ "start" \in Elements(jobs[u]) => r \in {"start", "reload", "restart", "none"}
        /\ "stop" \in Elements(jobs[u]) => r \in {"stop", "none"}
    BY <1>1, <2>1, <2>2, MergeListType, Zenon
  <2> QED
    BY <1>1, <1>3, <2>2, <2>3 DEF TransactionTypes
<1> QED
  BY <1>2, <1>3

LEMMA MergeFails ==
  ASSUME IInv, pc = "merge", UNCHANGED <<w, jobs, links, build, matters, path, clear>>, doomed = {},
         \/ pc' = "failed" /\ UNCHANGED doomed
         \/ pc' = "collect again" /\ doomed' \intersect matters = {}
  PROVE  IInv'
<1> USE DEF IInv
<1>1. calls = <<>> /\ path = <<>> /\ clear = {}
  BY Zenon DEF InTurn
<1>2. /\ Typed' /\ NopAlone' /\ UNCHANGED <<calls, failing, rest, anchor>>
      /\ InTransaction' = InTransaction
  BY SameTransaction, Zenon DEF Typed, Steps
<1>3. Followed'
  BY StillFollowed, Zenon DEF Typed, Steps, Reducing
<1>4. InTurn' /\ Applies' /\ Searched'
  BY <1>1, <1>2, Zenon DEF InTurn, Applies, Searched, Ended, Begun
<1>5. AnchorSafe'
  BY <1>2, Zenon DEF AnchorSafe, Reducing
<1> QED
  BY <1>2, <1>3, <1>4, <1>5, Zenon

LEMMA MergeKeeps ==
  ASSUME IInv, transaction_merge_jobs
  PROVE  IInv'
<1> USE DEF IInv
<1>1. /\ pc = "merge" /\ doomed = {} /\ calls = <<>> /\ path = <<>> /\ clear = {} /\ ~failing
      /\ UNCHANGED <<w, calls, failing, rest, matters, path, clear>>
  BY Zenon DEF transaction_merge_jobs, order, InTurn
<1>2. ASSUME NEW u \in Present, delete_one_unmergeable_job(u), UNCHANGED <<jobs, links, anchor>>
      PROVE  IInv'
  <2> DEFINE j == <<u, jobs[u][FirstPair(u)[1]]>>
             k == <<u, jobs[u][FirstPair(u)[2]]>>
  <2>1. \/ pc' = "failed" /\ UNCHANGED doomed
        \/ pc' = "collect again" /\ doomed' = {Victim(j, k)} /\ ~({j, k} \subseteq matters)
    BY <1>2, Zenon DEF delete_one_unmergeable_job
  <2>2. {j, k} \subseteq matters \/ Victim(j, k) \notin matters
    BY VictimDoesNotMatter, Zenon
  <2> HIDE DEF j, k
  <2>3. \/ pc' = "failed" /\ UNCHANGED doomed
        \/ pc' = "collect again" /\ doomed' \intersect matters = {}
    BY <2>1, <2>2, Zenon
  <2> QED
    BY <1>1, <1>2, <2>3, MergeFails, Zenon DEF build
<1>3. CASE /\ {u \in Present : MergeAll(u) = "none"} = {}
           /\ jobs' = [u \in Units |-> IF u \in Present THEN <<MergeAll(u)>> ELSE <<>>]
           /\ anchor' = <<anchor[1], MergeAll(anchor[1])>>
           /\ pc' = "drop again"
           /\ UNCHANGED doomed
  <2> HIDE DEF IInv
  <2>1. /\ Typed /\ NopAlone /\ InTurn /\ AnchorSafe /\ Followed
        /\ anchor \in Job /\ anchor[1] \in Units /\ anchor = <<anchor[1], anchor[2]>>
    BY JobPair DEF IInv, Typed
  <2>2. \A u \in Present : MergeAll(u) # "none" /\ u \in Units /\ MergeAll(u) \in TransactionTypes
    BY <1>3, MergedType, Zenon
  <2>3. \A u \in Units : jobs'[u] = IF u \in Present THEN <<MergeAll(u)>> ELSE <<>>
    BY <1>3, Zenon
  <2>4. anchor[1] \in Present
    <3>1. anchor[2] \in Elements(jobs[anchor[1]])
      BY <1>1, <2>1, Members DEF AnchorSafe
    <3> QED
      BY <2>1, <3>1, ListFacts DEF Present, Typed
  <2>5. jobs' \in [Units -> Seq(TransactionTypes)]
    <3>1. \A u \in Units : (IF u \in Present THEN <<MergeAll(u)>> ELSE <<>>) \in Seq(TransactionTypes)
      BY <2>2
    <3> QED
      BY <1>3, <3>1, Zenon
  <2>6. Typed'
    BY <1>1, <1>3, <2>1, <2>2, <2>4, <2>5, SameWorld, Zenon DEF Typed, Steps, Job
  <2>7. anchor'[1] = anchor[1] /\ anchor'[2] = MergeAll(anchor[1])
    BY <1>3, Zenon
  <2>8. NopAlone'
    <3>1. CASE anchor[2] = "nop"
      <4>1. \A u \in Present : MergeAll(u) = "nop"
        BY <2>2, <3>1, MergedType
      <4>2. calls = <<>> /\ rest = {} /\ anchor'[2] = "nop"
        BY <2>1, <2>4, <2>7, <3>1, <4>1 DEF NopAlone
      <4>3. \A u \in Units : jobs'[u] \in {<<>>, <<"nop">>}
        BY <2>3, <4>1, Zenon
      <4> QED
        BY <1>1, <4>2, <4>3 DEF NopAlone
    <3>2. CASE anchor[2] # "nop"
      <4>1. \A u \in Present : MergeAll(u) # "nop"
        BY <2>2, <3>2, MergedType DEF MergingTypes
      <4>2. \A u \in Units : Elements(jobs'[u]) \subseteq {MergeAll(u)} /\ (u \notin Present => Elements(jobs'[u]) = {})
        BY <2>3, OneElement, Zenon
      <4>3. \A u \in Units : "nop" \notin Elements(jobs'[u])
        BY <4>1, <4>2
      <4>4. \A i \in DOMAIN calls : \A p \in calls[i].todo : p.type # "nop"
        BY <2>1, <3>2 DEF NopAlone
      <4> QED
        BY <1>1, <2>4, <2>7, <4>1, <4>3, <4>4 DEF NopAlone
    <3> QED
      BY <3>1, <3>2
  <2>9. InTurn'
    <3>1. \A x : Len(<<x>>) <= 1
      OBVIOUS
    <3>2. Len(<<>>) <= 1
      OBVIOUS
    <3>3. \A u \in Units : Len(jobs'[u]) <= 1
      BY <2>3, <3>1, <3>2, Zenon
    <3> QED
      BY <1>1, <1>3, <3>3, Zenon DEF InTurn
  <2>10. AnchorSafe'
    <3>1. PICK v \in Units : v = anchor[1] /\ v \in Present
      BY <2>1, <2>4
    <3>2. PICK t : t = MergeAll(anchor[1])
      OBVIOUS
    <3>3. t \in Elements(jobs'[v])
      <4>1. Elements(<<t>>) = {t}
        BY OneElement
      <4> QED
        BY <2>3, <3>1, <3>2, <4>1
    <3>4. anchor' \in InTransaction'
      <4>1. <<v, t>> \in JobsOf(v)'
        BY <3>3 DEF JobsOf, Elements
      <4> QED
        BY <1>3, <3>1, <3>2, <4>1, Zenon DEF InTransaction
    <3> QED
      BY <1>3, <3>4, Zenon DEF AnchorSafe, Reducing
  <2>11. Followed' /\ Searched'
    BY <1>1, <1>3, Zenon DEF Followed, Searched, Reducing
  <2>12. Applies'
    <3>1. SUFFICES ASSUME Plain, NEW u \in Units, NEW t \in {"start", "restart"}, jobs'[u] = <<t>>,
                          NEW k \in Wanted(<<u, t>>)
                   PROVE  Answered(k)'
      BY <1>1, SameWorld, Zenon DEF Applies
    <3>2. u \in Present /\ MergeAll(u) = t
      <4>1. Elements(jobs'[u]) = {t}
        BY <3>1, OneElement
      <4>2. Elements(<<>>) = {} /\ Elements(<<MergeAll(u)>>) = {MergeAll(u)}
        BY OneElement
      <4> QED
        BY <2>3, <4>1, <4>2
    <3>3. anchor[2] # "nop"
      BY <2>2, <3>1, <3>2, MergedType
    <3>4. PICK x \in Elements(jobs[u]) : x \in {"start", "restart"}
      BY <2>2, <3>1, <3>2, <3>3, MergedType
    <3>5. <<u, x>> \in InTransaction /\ k \in Wanted(<<u, x>>)
      BY <3>1, <3>4, Members DEF Wanted
    <3>6. k \in Job /\ k[1] \in Units /\ k = <<k[1], k[2]>> /\ k[2] \in {"start", "stop"}
      BY <3>1, JobPair DEF Wanted
    <3>7. k \in InTransaction \/ Settled(k)
      <4>1. ~Pending(calls, <<u, x>>, k)
        BY <1>1, NoCalls
      <4> QED
        BY <1>1, <2>1, <3>1, <3>5, <4>1 DEF Followed, Reducing
    <3>8. CASE Settled(k)
      <4>1. k[1] \notin Present
        BY <3>8 DEF Settled, Present
      <4>2. jobs'[k[1]] = <<>>
        BY <2>3, <3>6, <4>1, Zenon
      <4> QED
        BY <1>1, <3>8, <4>2, Zenon DEF Answered, Settled, StaysUp, StaysDown
    <3>9. CASE k \in InTransaction
      <4>1. k[2] \in Elements(jobs[k[1]])
        BY <3>9, Members
      <4>2. k[1] \in Present
        BY <2>1, <3>6, <4>1, ListFacts DEF Present, Typed
      <4>3. jobs'[k[1]] = <<MergeAll(k[1])>>
        BY <2>3, <3>6, <4>2, Zenon
      <4>4. /\ k[2] = "start" => MergeAll(k[1]) \in {"start", "reload", "restart"}
            /\ k[2] = "stop" => MergeAll(k[1]) = "stop"
        BY <2>2, <3>3, <4>1, <4>2, MergedType
      <4> QED
        BY <3>6, <4>3, <4>4 DEF Answered
    <3> QED
      BY <3>7, <3>8, <3>9
  <2> QED
    BY <2>6, <2>8, <2>9, <2>10, <2>11, <2>12 DEF IInv
<1> QED
  BY <1>2, <1>3, Zenon DEF transaction_merge_jobs

-----------------------------------------------------------------------------
(* The theorems *)

LEMMA InitIsSafe == Init => IInv
<1>1. SUFFICES ASSUME Init PROVE IInv
  OBVIOUS
<1>2. /\ pc = "request" /\ jobs = [u \in Units |-> <<>>] /\ calls = <<>> /\ failing = FALSE
      /\ rest = {} /\ anchor = <<w.unit, "nop">> /\ doomed = {} /\ path = <<>> /\ clear = {}
  BY <1>1 DEF Init
<1>3. IsWorld(w) /\ w.unit \in Units
  BY <1>1, WorldsAssumption DEF Init, IsWorld
<1>4. Typed
  BY <1>2, <1>3 DEF Typed, Steps, Job, TransactionTypes
<1>5. NopAlone
  BY <1>2 DEF NopAlone
<1>6. InTurn
  BY <1>2 DEF InTurn, Ended
<1>7. AnchorSafe /\ Followed /\ Applies /\ Searched
  BY <1>2 DEF AnchorSafe, Followed, Applies, Searched, Reducing, Ended
<1> QED
  BY <1>4, <1>5, <1>6, <1>7 DEF IInv

LEMMA StutterKeeps ==
  ASSUME IInv, UNCHANGED vars
  PROVE  IInv'
<1> USE DEF IInv
<1>1. UNCHANGED <<w, pc, jobs, links, calls, failing, rest, anchor, matters, doomed, path, clear>>
  BY DEF vars, build, order
<1>2. Typed' /\ NopAlone' /\ InTurn'
  BY <1>1, SameWorld DEF Typed, NopAlone, InTurn
<1>3. AnchorSafe'
  BY <1>1, SameJobs, Zenon DEF AnchorSafe
<1>4. Followed' /\ Applies'
  BY <1>1, SameJobs, SameWorld, Zenon DEF Followed, Applies, Linked
<1>5. Searched'
  BY <1>1, SameJobs DEF Searched
<1> QED
  BY <1>2, <1>3, <1>4, <1>5

LEMMA NextKeeps ==
  ASSUME IInv, [Next]_vars
  PROVE  IInv'
<1>1. CASE UNCHANGED vars
  BY <1>1, StutterKeeps
<1>2. CASE Request \/ PullIn \/ Return \/ ReturnError \/ StopMore \/ Built
  BY <1>2, RequestKeeps, PullInKeeps, ReturnKeeps, ReturnErrorKeeps, StopMoreKeeps, BuiltKeeps
<1>3. CASE \/ transaction_find_jobs_that_matter_to_anchor
           \/ transaction_delete_job \/ transaction_minimize_impact
  BY <1>3, FindJobsKeeps, DeleteKeeps, MinimizeKeeps
<1>4. CASE pc = "drop" /\ transaction_drop_redundant("collect")
  BY <1>4, DropKeeps
<1>5. CASE pc = "collect" /\ transaction_collect_garbage("verify")
  BY <1>5, CollectKeeps
<1>6. CASE VisitNext \/ transaction_verify_order_one \/ Backtrack
  BY <1>6, VisitKeeps, VerifyKeeps, BacktrackKeeps
<1>7. CASE transaction_merge_jobs \/ transaction_apply
  BY <1>7, MergeKeeps, ApplyKeeps
<1>8. CASE pc = "collect again" /\ transaction_collect_garbage("merge")
  BY <1>8, CollectKeeps, Zenon
<1>9. CASE pc = "drop again" /\ transaction_drop_redundant("check")
  BY <1>9, DropAgainKeeps, Zenon
<1> QED
  BY <1>1, <1>2, <1>3, <1>4, <1>5, <1>6, <1>7, <1>8, <1>9, Zenon DEF Next

\* The invariant holds in every state of manager_add_job().
THEOREM TransactionIsSafe == Spec => []IInv
<1>1. IInv /\ [Next]_vars => IInv'
  BY NextKeeps
<1> QED
  BY <1>1, InitIsSafe, PTL DEF Spec

\* Whatever transaction_delete_job() takes along, tr->anchor_job is still in
\* the transaction when transaction_activate() uses it, and when it is
\* applied.
THEOREM AnchorIsKept == Spec => []AnchorKept
<1>1. IInv => AnchorKept
  BY DEF IInv, AnchorSafe, AnchorKept
<1> QED
  BY <1>1, TransactionIsSafe, PTL

\* A transaction that is applied and starts a unit starts what the unit
\* requires, whatever was minimised, dropped as redundant, deleted to break
\* a cycle or to resolve a conflict, or merged.
THEOREM RequirementsAreMet == Spec => []RequirementsMet
<1>1. ASSUME IInv PROVE RequirementsMet
  <2>1. SUFFICES ASSUME pc = "applied", Plain, NEW u \in Units, Starts(u), NEW v \in PULL_IN_START(u)
                 PROVE  IF jobs[v] = <<>> THEN StaysUp(v) ELSE jobs[v] # <<"stop">>
    BY DEF RequirementsMet, Requirements, Plain
  <2>2. PICK t \in {"start", "restart"} : jobs[u] = <<t>>
    BY <2>1 DEF Starts
  <2>3. PICK k : k = <<v, "start">> /\ k[1] = v /\ k[2] = "start"
    <3>1. PICK k : k = <<v, "start">>
      BY Zenon
    <3>2. k[1] = v /\ k[2] = "start"
      BY <3>1
    <3> QED
      BY <3>1, <3>2, Zenon
  <2>4. k \in Wanted(<<u, t>>)
    BY <2>1, <2>2, <2>3 DEF Wanted, PULL_IN_START, On, Job, TransactionTypes, MergingTypes
  <2>5. Answered(k)
    BY <1>1, <2>1, <2>2, <2>4, Zenon DEF IInv, Applies, Ended
  <2> QED
    BY <2>3, <2>5 DEF Answered, Settled
<1> QED
  BY <1>1, TransactionIsSafe, PTL

\* The same for the units that the unit has Conflicts= with: they are
\* stopped, or are down and stay down.
THEOREM ConflictsAreStopped == Spec => []ConflictsStopped
<1>1. ASSUME IInv PROVE ConflictsStopped
  <2>1. SUFFICES ASSUME pc = "applied", Plain, NEW u \in Units, Starts(u),
                        NEW v \in PULL_IN_STOP(u) \ w.trait["perpetual"]
                 PROVE  IF jobs[v] = <<>> THEN StaysDown(v) ELSE jobs[v] = <<"stop">>
    BY DEF ConflictsStopped, Plain
  <2>2. PICK t \in {"start", "restart"} : jobs[u] = <<t>>
    BY <2>1 DEF Starts
  <2>3. PICK k : k = <<v, "stop">> /\ k[1] = v /\ k[2] = "stop"
    <3>1. PICK k : k = <<v, "stop">>
      BY Zenon
    <3>2. k[1] = v /\ k[2] = "stop"
      BY <3>1
    <3> QED
      BY <3>1, <3>2, Zenon
  <2>4. k \in Wanted(<<u, t>>)
    BY <2>1, <2>2, <2>3 DEF Wanted, PULL_IN_STOP, On, Job, TransactionTypes, MergingTypes
  <2>5. Answered(k)
    BY <1>1, <2>1, <2>2, <2>4, Zenon DEF IInv, Applies, Ended
  <2> QED
    BY <2>3, <2>5 DEF Answered, Settled
<1> QED
  BY <1>1, TransactionIsSafe, PTL

\* transaction_verify_order() succeeds only if no job of the transaction is
\* part of an ordering cycle: the marks it leaves on the jobs it has visited
\* never hide one.
THEOREM OrderIsVerified == Spec => OrderVerified
<1>1. ASSUME IInv, [Next]_vars
      PROVE  [pc = "verify" /\ pc' = "merge" =>
                \A C \in SUBSET Units : Cycle(C) => C \cap Present = {}]_vars
  <2>1. SUFFICES ASSUME pc = "verify", pc' = "merge", NEW C \in SUBSET Units, Cycle(C)
                 PROVE  C \cap Present = {}
    OBVIOUS
  <2>2. pc' # pc
    BY <2>1
  <2>3. Present \subseteq clear
    BY <1>1, <2>1, <2>2
       DEF Next, vars, Request, PullIn, Return, ReturnError, StopMore, Built,
           transaction_find_jobs_that_matter_to_anchor, transaction_delete_job,
           transaction_minimize_impact, VisitNext, transaction_verify_order_one, Backtrack,
           transaction_merge_jobs, transaction_apply
  <2> QED
    BY <1>1, <2>1, <2>3, SearchFindsCycles
<1> QED
  BY <1>1, TransactionIsSafe, PTL DEF Spec, OrderVerified
=============================================================================
