---------------------------- MODULE UnitGCProofs ----------------------------
(***************************************************************************)
(* Proof that the collector unloads no unit that is needed, for every set  *)
(* of units, every graph of references and every order of the walk, as     *)
(* long as every UnitRef comes with a dependency.                          *)
(*                                                                         *)
(* The argument: a unit that is unsure has only referrers that are to be   *)
(* unloaded, unsure, or on the path.  A unit becomes needed only at the    *)
(* innermost end of the path; then the whole path becomes needed, call by  *)
(* call, and with it every unsure unit that hangs on it.  So the units     *)
(* that are unsure when a sweep has ended hang on nothing that stays: they *)
(* are settled, and may be unloaded one after the other.                   *)
(***************************************************************************)
EXTENDS UnitGC, TLAPS

Referrers(u) == {v \in Units : <<v, u>> \in references}

Busy == {u \in Units : ~unit_may_gc(u)}

(* The types, that UnitRefs come with dependencies, and that a unit which  *)
(* is merged away while events are handled refers to nothing: no job of a  *)
(* handler brings it back into use.                                        *)
Typed ==
  /\ TypeOK
  /\ unitRefs \subseteq references
  /\ cleanup_queue \intersect Busy = {}
  /\ phase = "events" => \A u \in cleanup_queue : \A v \in Units :
                           <<u, v>> \notin references

(* S: units that are unsure and hang on nothing that stays.                *)
SettledBy(S) ==
  /\ \A w \in S : mark[w] = "unsure"
  /\ \A w \in S \union cleanup_queue :
       \A v \in Referrers(w) : v \in S \union cleanup_queue

(* The marks of a round.                                                   *)
Marked ==
  \A u \in Units :
    /\ mark[u] = "bad" => u \in cleanup_queue
    /\ u \in cleanup_queue => mark[u] \in {"none", "bad"}
    /\ mark[u] \in {"unsure", "in_path"} => u \notin Busy
    /\ mark[u] = "unsure" =>
         /\ u \in gc_unit_queue
         /\ \A v \in Referrers(u) : v \in cleanup_queue
                                    \/ mark[v] \in {"unsure", "in_path"}
    /\ mark[u] = "in_path" => \E i \in DOMAIN path : path[i].unit = u

(* A needed referrer was found, and the calls return one by one.           *)
Unwinding ==
  path # <<>> /\ path[1].child # NoUnit /\ mark[path[1].child] = "good"

(* The referrers that a call has dealt with.                               *)
Seen(f) == Referrers(f.unit) \ (f.deps \union f.refs \union {f.child})

(* The calls of unit_gc_sweep().                                           *)
Called ==
  /\ \A i \in DOMAIN path :
       /\ mark[path[i].unit] = "in_path"
       /\ i > 1 => path[i].child = path[i - 1].unit
       /\ \A j \in DOMAIN path : path[i].unit = path[j].unit => i = j
       /\ Unwinding \/ \A v \in Seen(path[i]) :
            /\ v \in cleanup_queue \/ mark[v] \in {"unsure", "in_path"}
            /\ path[i].is_bad => v \in cleanup_queue
  /\ path # <<>> => path[1].child = NoUnit \/ mark[path[1].child] # "none"

IInv ==
  /\ Typed
  /\ IF phase = "gc"
       THEN /\ Marked /\ Called
            /\ \E S \in SUBSET Units : SettledBy(S)
            /\ path # <<>> => current # NoUnit
       ELSE /\ SettledBy({})
            /\ path = <<>> /\ current = NoUnit
-----------------------------------------------------------------------------
LEMMA SameBusy ==
  ASSUME UNCHANGED use
  PROVE  Busy' = Busy
  BY DEF Busy, unit_may_gc, use

LEMMA BusyIsInUse ==
  ASSUME TypeOK
  PROVE  InUse = Busy
  BY DEF TypeOK, InUse, Busy, unit_may_gc

LEMMA FrameFields ==
  ASSUME NEW f \in Frames
  PROVE  /\ f.unit \in Units /\ f.deps \subseteq Units /\ f.refs \subseteq Units
         /\ f.child \in Units \union {NoUnit} /\ f.is_bad \in BOOLEAN
  BY DEF Frames

(* Sequences of calls: the innermost one returns, changes, or calls.       *)
LEMMA Returning ==
  ASSUME NEW p \in Seq(Frames), p # <<>>
  PROVE  /\ Tail(p) \in Seq(Frames)
         /\ Len(p) \in Nat /\ Len(p) >= 1 /\ p[1] \in Frames
         /\ DOMAIN p = 1 .. Len(p)
         /\ DOMAIN Tail(p) = 1 .. Len(p) - 1
         /\ \A i \in 1 .. Len(p) - 1 : Tail(p)[i] = p[i + 1]
  OBVIOUS

LEMMA Calling ==
  ASSUME NEW p \in Seq(Frames), NEW f \in Frames
  PROVE  /\ <<f>> \o p \in Seq(Frames)
         /\ <<f>> \o p # <<>>
         /\ DOMAIN p = 1 .. Len(p) /\ Len(p) \in Nat
         /\ DOMAIN (<<f>> \o p) = 1 .. Len(p) + 1
         /\ (<<f>> \o p)[1] = f
         /\ \A i \in 2 .. Len(p) + 1 : (<<f>> \o p)[i] = p[i - 1]
  OBVIOUS

LEMMA Changing ==
  ASSUME NEW p \in Seq(Frames), p # <<>>, NEW f \in Frames
  PROVE  /\ <<f>> \o Tail(p) \in Seq(Frames)
         /\ <<f>> \o Tail(p) # <<>>
         /\ DOMAIN p = 1 .. Len(p) /\ Len(p) \in Nat /\ Len(p) >= 1
         /\ DOMAIN (<<f>> \o Tail(p)) = 1 .. Len(p)
         /\ (<<f>> \o Tail(p))[1] = f
         /\ \A i \in 2 .. Len(p) : (<<f>> \o Tail(p))[i] = p[i]
  OBVIOUS

(* unit_gc_mark_good(): what it marks was unsure, and it reaches every     *)
(* unsure unit that a unit it marks refers to.                             *)
LEMMA MarkGoodReaches ==
  ASSUME NEW x \in Units, NEW v \in unit_gc_mark_good(x)
  PROVE  /\ v = x \/ (v \in Units /\ mark[v] = "unsure")
         /\ \A w \in Units : mark[w] = "unsure" /\ <<v, w>> \in references
                            => w \in unit_gc_mark_good(x)
  <1> DEFINE Unsure == {u \in Units : mark[u] = "unsure"}
             Closed(S) == \A u \in S \union {x} : \A w \in Unsure :
                            <<u, w>> \in references => w \in S
  <1>1. unit_gc_mark_good(x) =
          {x} \union {u \in Unsure : \A S \in SUBSET Unsure : Closed(S) => u \in S}
    BY DEF unit_gc_mark_good
  <1>2. ASSUME NEW w \in Unsure, <<v, w>> \in references,
               NEW S \in SUBSET Unsure, Closed(S)
        PROVE  w \in S
    <2>1. v \in S \union {x}
      BY <1>1, <1>2
    <2> QED BY <1>2, <2>1
  <1> QED BY <1>1, <1>2

(* It leaves settled units alone.                                          *)
LEMMA MarkGoodSpares ==
  ASSUME Marked, NEW S \in SUBSET Units, SettledBy(S),
         NEW x \in Units, x \notin S \union cleanup_queue
  PROVE  unit_gc_mark_good(x) \intersect S = {}
  <1> DEFINE Unsure == {v \in Units : mark[v] = "unsure"}
             Rest == Unsure \ S
  <1>1. \A v \in Rest \union {x} : \A w \in Unsure :
          <<v, w>> \in references => w \in Rest
    BY DEF SettledBy, Referrers, Marked
  <1>2. unit_gc_mark_good(x) \subseteq {x} \union Rest
    <2>1. Rest \in SUBSET Unsure
      OBVIOUS
    <2> QED BY <1>1, <2>1, Zenon DEF unit_gc_mark_good
  <1> QED BY <1>2
-----------------------------------------------------------------------------
LEMMA InitInv == Init => IInv
  <1> SUFFICES ASSUME Init PROVE IInv
    OBVIOUS
  <1>1. Typed
    BY DEF Init, Typed, TypeOK, Marks, Busy, unit_may_gc
  <1>2. SettledBy({})
    BY DEF Init, SettledBy
  <1> QED BY <1>1, <1>2 DEF Init, IInv

(* Events leave the units that are to be unloaded without referrers that   *)
(* stay, and out of use.                                                   *)
LEMMA EventInv ==
  ASSUME IInv, Event
  PROVE  IInv'
  <1> USE DEF IInv, Typed, TypeOK, SettledBy, Referrers, sweep, use
  <1>0. phase = "events"
    BY Zenon DEF Event, Load, Pin, Unpin, unit_add_dependency, unit_ref_set,
           unit_ref_unset, unit_merge, Linked, job_install, job_uninstall
  <1>1. ASSUME NEW u \in Units, Load(u)
        PROVE  IInv'
    BY <1>0, <1>1, SameBusy DEF Load
  <1>2. ASSUME NEW u \in Units, Pin(u)
        PROVE  IInv'
    <2>1. Busy' \subseteq Busy \union {u}
      BY <1>2 DEF Pin, Busy, unit_may_gc
    <2> QED BY <1>0, <1>2, <2>1 DEF Pin
  <1>3. ASSUME NEW u \in Units, Unpin(u)
        PROVE  IInv'
    <2>1. Busy' \subseteq Busy
      BY <1>3 DEF Unpin, Busy, unit_may_gc
    <2> QED BY <1>0, <1>3, <2>1 DEF Unpin
  <1>4. ASSUME NEW u \in Units, NEW v \in Units, unit_add_dependency(u, v)
        PROVE  IInv'
    <2>1. Busy' \subseteq Busy \union {u}
      BY <1>4 DEF unit_add_dependency, Linked, Busy, unit_may_gc
    <2> QED BY <1>0, <1>4, <2>1 DEF unit_add_dependency, Linked
  <1>5. ASSUME NEW u \in Units, NEW v \in Units, unit_ref_set(u, v)
        PROVE  IInv'
    <2>1. Busy' = Busy
      BY <1>5, SameBusy DEF unit_ref_set, Linked
    <2> QED BY <1>0, <1>5, <2>1 DEF unit_ref_set, Linked
  <1>6. ASSUME NEW u \in Units, NEW v \in Units, unit_ref_unset(u, v)
        PROVE  IInv'
    BY <1>0, <1>6, SameBusy DEF unit_ref_unset, Queued
  <1>7. ASSUME NEW u \in Units, NEW other \in Units, unit_merge(u, other)
        PROVE  IInv'
    <2>1. \A x \in Busy' : x \in Busy \/ <<x, other>> \in references
      BY <1>7 DEF unit_merge, Redirected, Busy, unit_may_gc
    <2>2. other \notin Busy'
      BY <1>7 DEF unit_merge, Redirected, Busy, unit_may_gc
    <2>3. handlers' \subseteq references'
      BY <1>7 DEF unit_merge, Redirected
    <2>4. Typed'
      <3>1. TypeOK'
        BY <1>7, <2>3 DEF unit_merge, Redirected
      <3>2. (unitRefs \subseteq references)'
        BY <1>7 DEF unit_merge, Redirected
      <3>3. (cleanup_queue \intersect Busy = {})'
        BY <1>0, <1>7, <2>1, <2>2 DEF unit_merge
      <3>4. \A x \in cleanup_queue' : \A v \in Units : <<x, v>> \notin references'
        BY <1>0, <1>7 DEF unit_merge, Redirected
      <3> QED BY <3>1, <3>2, <3>3, <3>4
    <2>5. SettledBy({})'
      BY <1>0, <1>7 DEF unit_merge, Redirected
    <2> QED BY <1>0, <1>7, <2>4, <2>5 DEF unit_merge
  <1>8. ASSUME NEW h \in Units, job_install(h)
        PROVE  IInv'
    <2>1. \A x \in Busy' : x \in Busy \union {h} \/ <<x, h>> \in references
      BY <1>8 DEF job_install, Busy, unit_may_gc
    <2> QED BY <1>0, <1>8, <2>1 DEF job_install
  <1>9. ASSUME NEW h \in Units, job_uninstall(h)
        PROVE  IInv'
    <2>1. Busy' \subseteq Busy
      BY <1>9 DEF job_uninstall, Busy, unit_may_gc
    <2> QED BY <1>0, <1>9, <2>1 DEF job_uninstall
  <1> QED BY <1>1, <1>2, <1>3, <1>4, <1>5, <1>6, <1>7, <1>8, <1>9, Zenon DEF Event

LEMMA LoopInv ==
  ASSUME IInv, Loop
  PROVE  IInv'
  <1> USE DEF Loop, graph, use
  <1>0. /\ Typed /\ phase # "gc" /\ SettledBy({}) /\ path = <<>> /\ current = NoUnit
        /\ Busy' = Busy
    BY SameBusy DEF IInv
  <1>1. Typed'
    BY <1>0 DEF Typed, TypeOK, Marks
  <1>2. SettledBy({})'
    BY <1>0 DEF SettledBy, Referrers
  <1>3. Marked'
    BY <1>0 DEF Marked, Typed, TypeOK
  <1>4. Called'
    BY <1>0 DEF Called
  <1> QED BY <1>0, <1>1, <1>2, <1>3, <1>4, Zenon DEF IInv

LEMMA FreeInv ==
  ASSUME IInv, NEW u \in Units, unit_free(u)
  PROVE  IInv'
  <1>1. Busy' \subseteq Busy
    BY DEF unit_free, Without, Busy, unit_may_gc
  <1>2. handlers' \subseteq references'
    BY DEF IInv, Typed, TypeOK, unit_free, Without
  <1> QED BY <1>1, <1>2 DEF IInv, Typed, TypeOK, SettledBy, Referrers, unit_free, Without,
             Queued, Neighbours, sweep

(* A unit that is unsure when its sweep has ended may be unloaded: there   *)
(* is no path, so all unsure units are settled.                            *)
LEMMA PutInv ==
  ASSUME IInv, Put
  PROVE  IInv'
  <1> USE DEF Put, graph, use
  <1>0. /\ Typed /\ Marked /\ path = <<>> /\ current \in Units /\ phase = "gc"
        /\ Busy' = Busy
    BY SameBusy DEF IInv, Typed, TypeOK
  <1>r. PICK Rest \in SUBSET Units : Rest = {w \in Units : mark'[w] = "unsure"}
    OBVIOUS
  <1>1. PICK S \in SUBSET Units : SettledBy(S)
    BY DEF IInv
  <1>2. \A w \in Units : mark[w] # "in_path"
    BY <1>0 DEF Marked
  <1>3. Typed'
    BY <1>0 DEF Typed, TypeOK, Marks, Collected, Marked
  <1>4. \A w \in Rest : mark[w] = "unsure" /\ w # current
    BY <1>0, <1>r DEF Typed, TypeOK, Collected
  <1>5. SettledBy(Rest)'
    <2>1. \A w \in Units : mark[w] = "unsure" => w \in Rest \union cleanup_queue'
      BY <1>0, <1>r DEF Typed, TypeOK, Collected
    <2>2. cleanup_queue \subseteq cleanup_queue'
      BY <1>0 DEF Collected
    <2>3. \A w \in Rest \union cleanup_queue' : \A v \in Referrers(w) :
            v \in Rest \union cleanup_queue'
      <3>1. CASE Collected(current)
        BY <1>0, <1>1, <1>2, <1>4, <2>1, <2>2, <3>1
           DEF Marked, SettledBy, Referrers, Collected
      <3>2. CASE ~Collected(current)
        BY <1>0, <1>1, <1>2, <1>4, <2>1, <2>2, <3>2
           DEF Marked, SettledBy, Referrers
      <3> QED BY <3>1, <3>2
    <2> QED BY <1>r, <2>3 DEF SettledBy, Referrers
  <1>6. Marked'
    <2>1. CASE Collected(current)
      BY <1>0, <1>2, <2>1 DEF Marked, Typed, TypeOK, Collected, Referrers
    <2>2. CASE ~Collected(current)
      BY <1>0, <1>2, <2>2 DEF Marked, Typed, TypeOK, Collected, Referrers
    <2> QED BY <2>1, <2>2
  <1>7. Called'
    BY <1>0 DEF Called
  <1>8. phase' # "gc" => Rest = {}
    BY <1>0, <1>6, <1>r DEF Marked
  <1> QED
    <2>1. CASE phase' = "gc"
      BY <1>0, <1>3, <1>5, <1>6, <1>7, <2>1 DEF IInv
    <2>2. CASE phase' # "gc"
      <3>1. SettledBy({})'
        BY <1>5, <1>8, <2>2, Zenon
      <3> QED BY <1>0, <1>3, <2>2, <3>1 DEF IInv
    <2> QED BY <2>1, <2>2

(* In the middle of a sweep.                                               *)
LEMMA InCall ==
  ASSUME IInv, path # <<>>
  PROVE  /\ phase = "gc" /\ Typed /\ Marked /\ Called
         /\ path \in Seq(Frames) /\ Top \in Frames
         /\ 1 \in DOMAIN path /\ mark \in [Units -> Marks]
         /\ current # NoUnit
  BY Returning DEF IInv, Typed, TypeOK, Top

(* The calls below the innermost one.                                      *)
LEMMA Below ==
  ASSUME Marked, Called, path \in Seq(Frames), path # <<>>
  PROVE  /\ \A i \in DOMAIN Tail(path) :
              /\ i + 1 \in DOMAIN path /\ Tail(path)[i] = path[i + 1]
              /\ Tail(path)[i].unit \in Units \ {Top.unit}
              /\ mark[Tail(path)[i].unit] = "in_path"
              /\ i > 1 => Tail(path)[i].child = Tail(path)[i - 1].unit
              /\ \A j \in DOMAIN Tail(path) :
                   Tail(path)[i].unit = Tail(path)[j].unit => i = j
         /\ Tail(path) # <<>> => /\ 1 \in DOMAIN Tail(path)
                                /\ Tail(path)[1].child = Top.unit
         /\ \A u \in Units \ {Top.unit} : mark[u] = "in_path" =>
              \E i \in DOMAIN Tail(path) : Tail(path)[i].unit = u
  <1>1. ASSUME NEW i \in DOMAIN Tail(path)
        PROVE  /\ i + 1 \in DOMAIN path /\ Tail(path)[i] = path[i + 1]
               /\ Tail(path)[i].unit \in Units \ {Top.unit}
               /\ mark[Tail(path)[i].unit] = "in_path"
               /\ i > 1 => Tail(path)[i].child = Tail(path)[i - 1].unit
               /\ \A j \in DOMAIN Tail(path) :
                    Tail(path)[i].unit = Tail(path)[j].unit => i = j
    <2>1. i \in Nat /\ i + 1 \in DOMAIN path /\ Tail(path)[i] = path[i + 1]
          /\ path[i + 1] \in Frames /\ i + 1 # 1 /\ 1 \in DOMAIN path
      BY Returning
    <2>2. path[i + 1].unit \in Units \ {Top.unit}
      BY <2>1, FrameFields DEF Called, Top
    <2>3. mark[path[i + 1].unit] = "in_path"
      BY <2>1 DEF Called
    <2>4. i > 1 => Tail(path)[i].child = Tail(path)[i - 1].unit
      BY <2>1, Returning DEF Called
    <2>5. \A j \in DOMAIN Tail(path) :
            Tail(path)[i].unit = Tail(path)[j].unit => i = j
      BY <2>1, Returning DEF Called
    <2> QED BY <2>1, <2>2, <2>3, <2>4, <2>5
  <1>2. ASSUME Tail(path) # <<>>
        PROVE  1 \in DOMAIN Tail(path) /\ Tail(path)[1].child = Top.unit
    <2>1. 1 \in DOMAIN Tail(path) /\ 2 \in DOMAIN path /\ Tail(path)[1] = path[2]
      BY <1>2, Returning
    <2> QED BY <2>1 DEF Called, Top
  <1>3. ASSUME NEW u \in Units \ {Top.unit}, mark[u] = "in_path"
        PROVE  \E i \in DOMAIN Tail(path) : Tail(path)[i].unit = u
    <2>1. PICK i \in DOMAIN path : path[i].unit = u
      BY <1>3 DEF Marked
    <2>2. i # 1
      BY <2>1 DEF Top
    <2>3. i - 1 \in DOMAIN Tail(path) /\ Tail(path)[i - 1] = path[i]
      BY <2>2, Returning
    <2> QED BY <2>1, <2>3
  <1> QED BY <1>1, <1>2, <1>3

(* The innermost call goes on: its frame becomes f.                        *)
LEMMA TopChanges ==
  ASSUME Called, path \in Seq(Frames), path # <<>>,
         NEW f \in Frames, f.unit = Top.unit, path' = <<f>> \o Tail(path)
  PROVE  /\ path' \in Seq(Frames) /\ path' # <<>> /\ DOMAIN path' = DOMAIN path
         /\ path'[1] = f
         /\ \A i \in DOMAIN path' :
              /\ i # 1 => path'[i] = path[i]
              /\ path'[i].unit = path[i].unit
              /\ mark[path'[i].unit] = "in_path"
              /\ i > 1 => path'[i].child = path'[i - 1].unit
              /\ \A j \in DOMAIN path' : path'[i].unit = path'[j].unit => i = j
  <1>1. /\ path' \in Seq(Frames) /\ path' # <<>> /\ DOMAIN path' = DOMAIN path
        /\ path'[1] = f
    BY Changing
  <1>2. \A i \in DOMAIN path' :
          /\ i \in Nat /\ i >= 1
          /\ i # 1 => path'[i] = path[i]
          /\ i > 1 => i - 1 \in DOMAIN path'
    BY Changing
  <1>3. \A i \in DOMAIN path' : path'[i].unit = path[i].unit
    BY <1>1, <1>2 DEF Top
  <1>4. \A i \in DOMAIN path :
          /\ mark[path[i].unit] = "in_path"
          /\ i > 1 => path[i].child = path[i - 1].unit
          /\ \A j \in DOMAIN path : path[i].unit = path[j].unit => i = j
    BY DEF Called
  <1>5. ASSUME NEW i \in DOMAIN path', i > 1
        PROVE  path'[i].child = path'[i - 1].unit
    <2>1. i \in DOMAIN path /\ path'[i] = path[i] /\ path'[i - 1].unit = path[i - 1].unit
      BY <1>1, <1>2, <1>3, <1>5
    <2> QED BY <1>4, <1>5, <2>1
  <1>6. ASSUME NEW i \in DOMAIN path', NEW j \in DOMAIN path',
               path'[i].unit = path'[j].unit
        PROVE  i = j
    BY Zenon, <1>1, <1>3, <1>4, <1>6
  <1>7. \A i \in DOMAIN path' : mark[path'[i].unit] = "in_path"
    BY <1>1, <1>3, <1>4
  <1> QED BY <1>1, <1>2, <1>3, <1>5, <1>6, <1>7

(* A sweep that found no needed referrer returns.                          *)
LEMMA ConcludeInv ==
  ASSUME IInv, Conclude
  PROVE  IInv'
  <1> DEFINE t == Top.unit
  <1>0. /\ phase = "gc" /\ Typed /\ Marked /\ Called
        /\ path \in Seq(Frames) /\ path # <<>> /\ Top \in Frames
        /\ 1 \in DOMAIN path /\ mark \in [Units -> Marks] /\ current # NoUnit
    BY InCall DEF Conclude
  <1>a. /\ Top.child = NoUnit /\ Top.deps = {} /\ Top.refs = {}
        /\ path' = Tail(path)
        /\ UNCHANGED <<loaded, use, Busy, references, unitRefs, current, phase>>
        /\ overlooked' \subseteq overlooked
    BY SameBusy DEF Conclude, graph
  <1>1. PICK S \in SUBSET Units : SettledBy(S)
    BY <1>0 DEF IInv
  <1>2. t \in Units /\ mark[t] = "in_path" /\ t \notin Busy /\ t \notin cleanup_queue
    <2>1. t \in Units
      BY <1>0, FrameFields
    <2>2. mark[t] = "in_path"
      BY <1>0 DEF Called, Top
    <2> QED BY <1>0, <2>1, <2>2 DEF Marked
  <1>3. \A v \in Referrers(t) :
          /\ v \in cleanup_queue \/ mark[v] \in {"unsure", "in_path"}
          /\ Top.is_bad => v \in cleanup_queue
    <2>1. Seen(path[1]) = Referrers(t)
      BY <1>a, UnitsAssumption DEF Seen, Top, Referrers
    <2>2. ~Unwinding
      BY <1>a DEF Unwinding, Top
    <2> QED BY <1>0, <2>1, <2>2 DEF Called, Top
  <1>4. /\ mark' \in [Units -> Marks]
        /\ \A u \in Units \ {t} : mark'[u] = mark[u]
        /\ IF Top.is_bad THEN /\ mark'[t] = "bad" /\ cleanup_queue' = cleanup_queue \union {t}
                              /\ gc_unit_queue' = gc_unit_queue
                         ELSE /\ mark'[t] = "unsure" /\ cleanup_queue' = cleanup_queue
                              /\ gc_unit_queue' = gc_unit_queue \union {t}
    BY <1>0, <1>2 DEF Marks, Queued, Conclude, Busy
  <1>5. Typed'
    <2>1. path' \in Seq(Frames)
      BY <1>0, <1>a, Returning
    <2> QED BY <1>0, <1>2, <1>4, <1>a, <2>1 DEF Typed, TypeOK, use
  <1>6. SettledBy(S)'
    BY <1>1, <1>2, <1>3, <1>4, <1>a DEF SettledBy, Referrers
  <1>8. Marked'
    <2>1. ASSUME NEW u \in Units, mark'[u] = "in_path"
          PROVE  \E i \in DOMAIN Tail(path) : Tail(path)[i].unit = u
      BY <1>0, <1>4, <2>1, Below
    <2>2. \A u \in Units : Referrers(u)' = Referrers(u)
      BY <1>a DEF Referrers
    <2>3. \A u \in Units : \A v \in Referrers(u) :
            v \in cleanup_queue \/ mark[v] \in {"unsure", "in_path"}
            => v \in cleanup_queue' \/ mark'[v] \in {"unsure", "in_path"}
      BY <1>4 DEF Referrers
    <2>4. ASSUME NEW u \in Units, mark'[u] = "unsure"
          PROVE  /\ u \in gc_unit_queue'
                 /\ \A v \in Referrers(u) : v \in cleanup_queue'
                                            \/ mark'[v] \in {"unsure", "in_path"}
      BY <1>0, <1>3, <1>4, <2>3, <2>4 DEF Marked
    <2>5. \A u \in Units :
            /\ mark'[u] = "bad" => u \in cleanup_queue'
            /\ u \in cleanup_queue' => mark'[u] \in {"none", "bad"}
            /\ mark'[u] \in {"unsure", "in_path"} => u \notin Busy'
      BY <1>0, <1>2, <1>4, <1>a DEF Marked
    <2> QED BY <1>a, <2>1, <2>2, <2>4, <2>5 DEF Marked
  <1>9. Called'
    <2>1. \A i \in DOMAIN Tail(path) : mark'[Tail(path)[i].unit] = "in_path"
      BY <1>0, <1>4, Below
    <2>2. ASSUME NEW i \in DOMAIN Tail(path), NEW v \in Seen(Tail(path)[i])
          PROVE  /\ v \in cleanup_queue' \/ mark'[v] \in {"unsure", "in_path"}
                 /\ Tail(path)[i].is_bad => v \in cleanup_queue'
      <3>1. v \in Units /\ v \in Seen(path[i + 1]) /\ i + 1 \in DOMAIN path
        BY <1>0, <2>2, Below DEF Seen, Referrers
      <3>2. ~Unwinding
        BY <1>a DEF Unwinding, Top
      <3>3. /\ v \in cleanup_queue \/ mark[v] \in {"unsure", "in_path"}
            /\ path[i + 1].is_bad => v \in cleanup_queue
        BY <1>0, <3>1, <3>2 DEF Called
      <3> QED BY <1>0, <1>4, <3>1, <3>3, Below
    <2>3. Tail(path) # <<>> => mark'[Tail(path)[1].child] # "none"
      BY <1>0, <1>4, Below
    <2>4. \A i \in DOMAIN path' : Seen(path[i])' = Seen(path'[i])
      BY <1>a DEF Seen, Referrers
    <2>5. \A i \in DOMAIN path' :
            /\ mark'[path'[i].unit] = "in_path"
            /\ i > 1 => path'[i].child = path'[i - 1].unit
            /\ \A j \in DOMAIN path' : path'[i].unit = path'[j].unit => i = j
      BY <1>0, <1>a, <2>1, Below
    <2>6. ASSUME NEW i \in DOMAIN path', NEW v \in Seen(path[i])'
          PROVE  /\ v \in cleanup_queue' \/ mark'[v] \in {"unsure", "in_path"}
                 /\ path'[i].is_bad => v \in cleanup_queue'
      <3>1. i \in DOMAIN Tail(path) /\ v \in Seen(Tail(path)[i]) /\ path'[i] = Tail(path)[i]
        BY <1>a, <2>4, <2>6
      <3> QED BY <2>2, <3>1
    <2>7. path' # <<>> => mark'[path'[1].child] # "none"
      BY <1>a, <2>3
    <2> QED BY <2>5, <2>6, <2>7 DEF Called
  <1> QED BY <1>0, <1>5, <1>6, <1>8, <1>9, <1>a DEF IInv

(* The sweep of a referrer has returned.                                   *)
LEMMA JudgeInv ==
  ASSUME IInv, Judge
  PROVE  IInv'
  <1> DEFINE x == Top.unit
             c == Top.child
  <1>0. /\ phase = "gc" /\ Typed /\ Marked /\ Called
        /\ path \in Seq(Frames) /\ path # <<>> /\ Top \in Frames
        /\ 1 \in DOMAIN path /\ mark \in [Units -> Marks] /\ current # NoUnit
    BY InCall DEF Judge
  <1>a. /\ c # NoUnit /\ mark[c] # "none"
        /\ UNCHANGED <<loaded, use, Busy, references, unitRefs, gc_unit_queue,
                       cleanup_queue, current, phase, overlooked>>
    BY SameBusy DEF Judge, graph
  <1>1. PICK S \in SUBSET Units : SettledBy(S)
    BY <1>0 DEF IInv
  <1>2. /\ c \in Units /\ x \in Units /\ mark[x] = "in_path"
        /\ x \notin Busy /\ x \notin cleanup_queue /\ x \notin S
    <2>1. c \in Units /\ x \in Units
      BY <1>0, <1>a, FrameFields
    <2>2. mark[x] = "in_path"
      BY <1>0 DEF Called, Top
    <2> QED BY <1>0, <1>1, <2>1, <2>2 DEF Marked, SettledBy
  <1>3. CASE mark[c] = "good" /\ MarkGood(x) /\ path' = Tail(path)
    <2> DEFINE G == unit_gc_mark_good(x)
    <2>1. /\ mark' \in [Units -> Marks]
          /\ \A u \in Units : mark'[u] = IF u \in G THEN "good" ELSE mark[u]
      BY <1>0, <1>3 DEF MarkGood, Marks
    <2>2. /\ x \in G /\ G \intersect S = {}
          /\ \A v \in G : v = x \/ mark[v] = "unsure"
          /\ \A v \in G : \A w \in Units :
               mark[w] = "unsure" /\ <<v, w>> \in references => w \in G
      <3>1. x \in G
        BY DEF unit_gc_mark_good
      <3> QED BY <1>0, <1>1, <1>2, <3>1, MarkGoodReaches, MarkGoodSpares
    <2> HIDE DEF G
    <2>3. Typed'
      <3>1. path' \in Seq(Frames)
        BY <1>0, <1>3, Returning
      <3> QED BY <1>0, <1>a, <2>1, <3>1 DEF Typed, TypeOK, use
    <2>4. SettledBy(S)'
      BY <1>1, <1>a, <2>1, <2>2 DEF SettledBy, Referrers
    <2>5. Marked'
      <3>1. ASSUME NEW u \in Units, mark'[u] = "in_path"
            PROVE  \E i \in DOMAIN path' : path'[i].unit = u
        BY <1>0, <1>3, <2>1, <2>2, <3>1, Below
      <3>2. ASSUME NEW u \in Units, mark'[u] = "unsure", NEW v \in Referrers(u)
            PROVE  v \in cleanup_queue \/ mark'[v] \in {"unsure", "in_path"}
        <4>1. mark[u] = "unsure" /\ u \notin G
          BY <2>1, <3>2
        <4>2. v \in Units /\ v \notin G
          BY <2>2, <3>2, <4>1 DEF Referrers
        <4>3. v \in cleanup_queue \/ mark[v] \in {"unsure", "in_path"}
          BY <1>0, <3>2, <4>1 DEF Marked
        <4> QED BY <2>1, <4>2, <4>3
      <3>3. \A u \in Units : Referrers(u)' = Referrers(u)
        BY <1>a DEF Referrers
      <3>4. \A u \in Units :
              /\ mark'[u] = "bad" => u \in cleanup_queue'
              /\ u \in cleanup_queue' => mark'[u] \in {"none", "bad"}
              /\ mark'[u] \in {"unsure", "in_path"} => u \notin Busy'
              /\ mark'[u] = "unsure" => u \in gc_unit_queue'
        BY <1>0, <1>2, <1>a, <2>1, <2>2 DEF Marked
      <3> QED BY <1>a, <3>1, <3>2, <3>3, <3>4 DEF Marked
    <2>6. Called'
      <3>1. ASSUME NEW i \in DOMAIN path' PROVE mark'[path'[i].unit] = "in_path"
        <4>1. path'[i].unit \in Units \ {x} /\ mark[path'[i].unit] = "in_path"
          BY <1>0, <1>3, Below
        <4>2. path'[i].unit \notin G
          BY <2>2, <4>1
        <4> QED BY <2>1, <4>1, <4>2
      <3>2. path' # <<>> => Unwinding'
        BY <1>0, <1>2, <1>3, <2>1, <2>2, Below, UnitsAssumption DEF Unwinding
      <3>3. path' # <<>> => path'[1].child = NoUnit \/ mark'[path'[1].child] # "none"
        BY <3>2 DEF Unwinding
      <3>4. \A i \in DOMAIN path' : path' # <<>>
        BY <1>0, <1>3, Returning
      <3> QED BY Zenon, <1>0, <1>3, <3>1, <3>2, <3>3, <3>4, Below DEF Called
    <2> QED BY <1>0, <1>a, <2>3, <2>4, <2>5, <2>6 DEF IInv
  <1>4. CASE /\ mark[c] # "good" /\ UNCHANGED mark
             /\ path' = <<[Top EXCEPT !.child = NoUnit,
                                     !.is_bad = @ /\ mark[c] = "bad"]>>
                        \o Tail(path)
    <2>1. PICK f \in Frames :
            /\ f = [Top EXCEPT !.child = NoUnit, !.is_bad = @ /\ mark[c] = "bad"]
            /\ f.unit = x /\ f.deps = Top.deps /\ f.refs = Top.refs
            /\ f.child = NoUnit
            /\ f.is_bad => Top.is_bad /\ mark[c] = "bad"
      <3>1. PICK b \in BOOLEAN : b = (Top.is_bad /\ mark[c] = "bad")
        OBVIOUS
      <3>2. [Top EXCEPT !.child = NoUnit, !.is_bad = b] \in Frames
        BY <1>0, Zenon DEF Frames
      <3> QED BY <1>0, <3>1, <3>2, Zenon DEF Frames
    <2>2. path' = <<f>> \o Tail(path)
      BY <1>4, <2>1
    <2>3. ~Unwinding
      BY <1>4 DEF Unwinding, Top
    <2>8. /\ path' \in Seq(Frames) /\ DOMAIN path' = DOMAIN path /\ path'[1] = f
          /\ \A i \in DOMAIN path' :
               /\ i # 1 => path'[i] = path[i]
               /\ path'[i].unit = path[i].unit
               /\ mark[path'[i].unit] = "in_path"
               /\ i > 1 => path'[i].child = path'[i - 1].unit
               /\ \A j \in DOMAIN path' : path'[i].unit = path'[j].unit => i = j
      BY <1>0, <2>1, <2>2, TopChanges, Zenon
    <2>4. Typed'
      <3>1. path' \in Seq(Frames)
        BY <2>8
      <3> QED BY <1>0, <1>4, <1>a, <3>1 DEF Typed, TypeOK, use
    <2>5. SettledBy(S)'
      BY <1>1, <1>4, <1>a DEF SettledBy, Referrers
    <2>6. Marked'
      <3>1. \A u \in Units : Referrers(u)' = Referrers(u)
        BY <1>a DEF Referrers
      <3>2. \A u : (\E i \in DOMAIN path : path[i].unit = u)
                   => \E i \in DOMAIN path' : path'[i].unit = u
        <4>1. DOMAIN path' = DOMAIN path
              /\ \A i \in DOMAIN path' : path'[i].unit = path[i].unit
          BY <2>8
        <4> QED BY <4>1
      <3>3. Marked /\ UNCHANGED <<mark, cleanup_queue, Busy, gc_unit_queue>>
        BY Zenon, <1>0, <1>4, <1>a
      <3> QED BY <3>1, <3>2, <3>3 DEF Marked
    <2>7. Called'
      <3>1. \A v \in Seen(f) :
              /\ v \in cleanup_queue \/ mark[v] \in {"unsure", "in_path"}
              /\ f.is_bad => v \in cleanup_queue
        <4>1. \A v \in Seen(Top) :
                /\ v \in cleanup_queue \/ mark[v] \in {"unsure", "in_path"}
                /\ Top.is_bad => v \in cleanup_queue
          BY <1>0, <2>3 DEF Called, Top
        <4>2. Seen(f) \subseteq Seen(Top) \union {c}
          BY <2>1 DEF Seen
        <4>3. mark[c] \in {"bad", "unsure", "in_path"}
          BY <1>0, <1>2, <1>4, <1>a DEF Marks
        <4>4. mark[c] = "bad" => c \in cleanup_queue
          BY <1>0, <1>2 DEF Marked
        <4> QED BY <2>1, <4>1, <4>2, <4>3, <4>4
      <3>2. ASSUME NEW i \in DOMAIN path', NEW v \in Seen(path'[i])
            PROVE  /\ v \in cleanup_queue \/ mark[v] \in {"unsure", "in_path"}
                   /\ path'[i].is_bad => v \in cleanup_queue
        <4>1. CASE i = 1
          <5>1. path'[i] = f
            BY <2>8, <4>1
          <5> QED BY <3>1, <3>2, <5>1
        <4>2. CASE i # 1
          <5>1. i \in DOMAIN path /\ path'[i] = path[i]
            BY <2>8, <4>2
          <5> QED BY <1>0, <2>3, <3>2, <5>1 DEF Called
        <4> QED BY <4>1, <4>2
      <3>3. \A i \in DOMAIN path' : Seen(path[i])' = Seen(path'[i])
        BY <1>a DEF Seen, Referrers
      <3>4. path'[1].child = NoUnit
        BY <2>1, <2>8
      <3>5. \A i \in DOMAIN path' :
              /\ mark'[path'[i].unit] = "in_path"
              /\ i > 1 => path'[i].child = path'[i - 1].unit
              /\ \A j \in DOMAIN path' : path'[i].unit = path'[j].unit => i = j
        BY <1>4, <2>8, Zenon
      <3> QED BY <1>4, <1>a, <3>2, <3>3, <3>4, <3>5 DEF Called
    <2> QED BY <1>0, <1>a, <2>4, <2>5, <2>6, <2>7 DEF IInv
  <1> QED BY <1>3, <1>4 DEF Judge

(* The dispatcher sweeps the next unit of the queue.                       *)
LEMMA TakeInv ==
  ASSUME IInv, Take
  PROVE  IInv'
  <1>0. /\ phase = "gc" /\ Typed /\ Marked /\ path = <<>>
        /\ mark \in [Units -> Marks]
        /\ UNCHANGED <<loaded, use, Busy, references, unitRefs, gc_unit_queue, phase,
                       overlooked>>
    BY SameBusy DEF Take, IInv, graph, Typed, TypeOK
  <1>1. PICK S \in SUBSET Units : SettledBy(S)
    BY <1>0 DEF IInv
  <1>2. PICK u \in gc_unit_queue : current' = u /\ Enter(u, <<>>)
    BY DEF Take
  <1>3. u \in Units /\ u # NoUnit
    BY <1>0, UnitsAssumption DEF Typed, TypeOK
  <1>4. \A w \in Units : mark[w] # "in_path"
    BY <1>0 DEF Marked
  <1>5. \A w \in Units : Referrers(w)' = Referrers(w)
    BY <1>0 DEF Referrers
  <1>6. ASSUME path' = <<>>, cleanup_queue' = cleanup_queue,
               mark' \in [Units -> Marks], Marked', SettledBy(S)'
        PROVE  IInv'
    <2>1. Called'
      BY <1>6 DEF Called
    <2>2. Typed'
      BY <1>0, <1>2, <1>3, <1>6 DEF Typed, TypeOK, use
    <2> QED BY <1>0, <1>6, <2>1, <2>2 DEF IInv
  <1>7. CASE mark[u] # "none"
    <2>1. mark' = mark /\ path' = <<>> /\ cleanup_queue' = cleanup_queue
      BY <1>2, <1>7 DEF Enter
    <2>2. Marked'
      BY <1>0, <1>5, <2>1 DEF Marked
    <2>3. SettledBy(S)'
      BY <1>0, <1>1, <2>1 DEF SettledBy, Referrers
    <2> QED BY <1>0, <1>6, <2>1, <2>2, <2>3
  <1>8. CASE mark[u] = "none" /\ u \in cleanup_queue
    <2>1. /\ mark' = [mark EXCEPT ![u] = "bad"] /\ path' = <<>>
          /\ cleanup_queue' = cleanup_queue
      BY <1>2, <1>8 DEF Enter
    <2>2. Marked'
      BY <1>0, <1>3, <1>4, <1>5, <1>8, <2>1 DEF Marked, Referrers
    <2>3. SettledBy(S)'
      BY <1>0, <1>1, <1>8, <2>1 DEF SettledBy, Referrers
    <2> QED BY <1>0, <1>6, <2>1, <2>2, <2>3, Zenon DEF Marks
  <1>9. CASE mark[u] = "none" /\ u \notin cleanup_queue /\ u \in Busy
    <2> DEFINE G == unit_gc_mark_good(u)
    <2>1. MarkGood(u) /\ path' = <<>> /\ cleanup_queue' = cleanup_queue
      BY <1>2, <1>9 DEF Enter, Busy
    <2>2. /\ mark' \in [Units -> Marks]
          /\ \A w \in Units : mark'[w] = IF w \in G THEN "good" ELSE mark[w]
      BY <1>0, <2>1 DEF MarkGood, Marks
    <2>3. u \notin S
      BY <1>1, <1>9 DEF SettledBy
    <2>4. /\ G \intersect S = {}
          /\ \A v \in G : v = u \/ mark[v] = "unsure"
          /\ \A v \in G : \A w \in Units :
               mark[w] = "unsure" /\ <<v, w>> \in references => w \in G
      BY <1>0, <1>1, <1>3, <1>9, <2>3, MarkGoodReaches, MarkGoodSpares
    <2> HIDE DEF G
    <2>5. Marked'
      BY <1>0, <1>4, <1>5, <1>9, <2>1, <2>2, <2>4 DEF Marked, Referrers
    <2>6. SettledBy(S)'
      BY <1>0, <1>1, <2>1, <2>2, <2>4 DEF SettledBy, Referrers
    <2> QED BY <1>6, <2>1, <2>2, <2>5, <2>6
  <1>10. CASE mark[u] = "none" /\ u \notin cleanup_queue /\ u \notin Busy
    <2> DEFINE f == [unit |-> u, deps |-> Referencing(u), refs |-> RefSources(u),
                     child |-> NoUnit, is_bad |-> TRUE]
    <2>1. /\ mark' = [mark EXCEPT ![u] = "in_path"] /\ path' = <<f>> \o <<>>
          /\ cleanup_queue' = cleanup_queue
      BY <1>2, <1>3, <1>10 DEF Enter, Busy
    <2>2. /\ f \in Frames /\ f.unit = u /\ f.child = NoUnit
          /\ Seen(f) = {}
      BY <1>0, <1>3 DEF Frames, Referencing, RefSources, Typed, TypeOK, Seen, Referrers
    <2>3. path' \in Seq(Frames) /\ DOMAIN path' = {1} /\ path'[1] = f
      BY <2>1, <2>2
    <2>4. Typed'
      BY <1>0, <1>2, <1>3, <2>1, <2>3 DEF Typed, TypeOK, Marks, use
    <2>5. Marked'
      <3>1. mark'[u] = "in_path" /\ \A w \in Units \ {u} : mark'[w] = mark[w]
        BY Zenon, <1>0, <1>3, <2>1 DEF Typed, TypeOK
      <3>2. \A w \in Units : mark'[w] = "in_path" => \E i \in DOMAIN path' : path'[i].unit = w
        BY <1>4, <2>2, <2>3, <3>1
      <3>3. ASSUME NEW w \in Units, mark'[w] = "unsure"
            PROVE  /\ w \in gc_unit_queue'
                   /\ \A v \in Referrers(w) : v \in cleanup_queue'
                                              \/ mark'[v] \in {"unsure", "in_path"}
        <4>1. w # u /\ mark[w] = "unsure" /\ Referrers(w) \subseteq Units
          BY <3>1, <3>3 DEF Referrers
        <4> QED BY <1>0, <1>2, <2>1, <3>1, <4>1 DEF Marked
      <3>4. \A w \in Units :
              /\ mark'[w] = "bad" => w \in cleanup_queue'
              /\ w \in cleanup_queue' => mark'[w] \in {"none", "bad"}
              /\ mark'[w] \in {"unsure", "in_path"} => w \notin Busy'
        BY <1>0, <1>10, <2>1, <3>1 DEF Marked
      <3> QED BY <1>5, <3>2, <3>3, <3>4 DEF Marked
    <2>6. SettledBy(S)'
      BY Zenon, <1>0, <1>1, <1>10, <2>1 DEF SettledBy, Referrers
    <2>7. Seen(path[1])' = {}
      BY <1>0, <2>2, <2>3 DEF Seen, Referrers
    <2>8. Called'
      <3>1. path'[1].child = NoUnit /\ path'[1].unit = u /\ mark'[u] = "in_path"
        BY <1>0, <1>3, <2>1, <2>2, <2>3
      <3> HIDE DEF f
      <3> QED BY <2>3, <2>7, <3>1 DEF Called
    <2> QED BY <1>0, <1>2, <1>3, <2>4, <2>5, <2>6, <2>8 DEF IInv
  <1> QED BY <1>7, <1>8, <1>9, <1>10

(* A call looks at a referrer v, and f is the call afterwards.             *)
LEMMA Visiting ==
  ASSUME IInv, Visit
  PROVE  \E v \in Units, f \in Frames :
           /\ Enter(v, <<f>> \o Tail(path))
           /\ f.unit = Top.unit /\ f.child = v /\ f.is_bad = Top.is_bad
           /\ Seen(f) \subseteq Seen(Top)
  <1>0. path \in Seq(Frames) /\ path # <<>> /\ Top \in Frames
    BY Zenon, InCall DEF Visit
  <1>1. PICK v \in IF Top.deps # {} THEN Top.deps ELSE Top.refs :
          Enter(v, <<[Top EXCEPT !.child = v,
                                 !.deps = @ \ {v},
                                 !.refs = IF Top.deps # {} THEN @ ELSE @ \ {v}]>>
                   \o Tail(path))
    BY Zenon DEF Visit
  <1>2. PICK R \in SUBSET Units :
          R = IF Top.deps # {} THEN Top.refs ELSE Top.refs \ {v}
    BY <1>0, FrameFields, Zenon
  <1>3. PICK D \in SUBSET Units : D = Top.deps \ {v}
    BY <1>0, FrameFields, Zenon
  <1>4. v \in Units /\ Top.child = NoUnit
    BY <1>0, <1>1, FrameFields DEF Visit
  <1>5. PICK f : f = [Top EXCEPT !.child = v, !.deps = D, !.refs = R]
    OBVIOUS
  <1>6. /\ f \in Frames /\ f.unit = Top.unit /\ f.child = v /\ f.is_bad = Top.is_bad
        /\ f.deps = D /\ f.refs = R
    BY <1>0, <1>4, <1>5, Zenon DEF Frames
  <1>7. Seen(f) \subseteq Seen(Top)
    BY <1>2, <1>3, <1>4, <1>6, UnitsAssumption DEF Seen, Referrers
  <1>8. Enter(v, <<f>> \o Tail(path))
    BY <1>1, <1>2, <1>3, <1>5
  <1> QED BY Zenon, <1>4, <1>6, <1>7, <1>8

(* Referrers of a unit that a call goes down to.                           *)
LEMMA NewCall ==
  ASSUME Typed, NEW u \in Units, NEW f,
         f = [unit |-> u, deps |-> Referencing(u), refs |-> RefSources(u),
              child |-> NoUnit, is_bad |-> TRUE]
  PROVE  f \in Frames /\ f.unit = u /\ f.child = NoUnit /\ Seen(f) = {}
  BY DEF Frames, Referencing, RefSources, Typed, TypeOK, Seen, Referrers

LEMMA VisitInv ==
  ASSUME IInv, Visit
  PROVE  IInv'
  <1>0. /\ phase = "gc" /\ Typed /\ Marked /\ Called
        /\ path \in Seq(Frames) /\ path # <<>> /\ Top \in Frames
        /\ 1 \in DOMAIN path /\ mark \in [Units -> Marks] /\ current # NoUnit
    BY InCall DEF Visit
  <1>a. /\ Top.child = NoUnit
        /\ UNCHANGED <<loaded, use, Busy, references, unitRefs, gc_unit_queue,
                       current, phase, overlooked>>
    BY SameBusy DEF Visit, graph
  <1>1. PICK S \in SUBSET Units : SettledBy(S)
    BY <1>0 DEF IInv
  <1>2. PICK v \in Units, f \in Frames :
          /\ Enter(v, <<f>> \o Tail(path))
          /\ f.unit = Top.unit /\ f.child = v /\ f.is_bad = Top.is_bad
          /\ Seen(f) \subseteq Seen(Top)
    BY Visiting, Zenon
  <1>3. ~Unwinding /\ v # NoUnit
    BY <1>a, UnitsAssumption DEF Unwinding, Top
  <1>4. \A u \in Units : Referrers(u)' = Referrers(u)
    BY <1>a DEF Referrers
  <1>5. PICK below \in Seq(Frames) : below = <<f>> \o Tail(path)
    BY <1>0, Changing, Zenon
  <1>6. /\ DOMAIN below = DOMAIN path /\ below # <<>>
        /\ below[1] = f
        /\ DOMAIN path = 1 .. Len(path) /\ Len(path) \in Nat /\ Len(path) >= 1
        /\ \A i \in 2 .. Len(path) : below[i] = path[i]
    BY <1>0, <1>5, Changing
  <1>7. \A i \in DOMAIN below : below[i].unit = path[i].unit
    BY <1>2, <1>6 DEF Top
  <1>8. \A i \in DOMAIN below :
          /\ mark[below[i].unit] = "in_path"
          /\ i > 1 => below[i].child = below[i - 1].unit
          /\ \A j \in DOMAIN below : below[i].unit = below[j].unit => i = j
    BY <1>0, <1>6, <1>7 DEF Called
  <1>9. \A i \in DOMAIN below : \A w \in Seen(below[i]) :
          /\ w \in cleanup_queue \/ mark[w] \in {"unsure", "in_path"}
          /\ below[i].is_bad => w \in cleanup_queue
    <2> SUFFICES ASSUME NEW i \in DOMAIN below, NEW w \in Seen(below[i])
                 PROVE  /\ w \in cleanup_queue \/ mark[w] \in {"unsure", "in_path"}
                        /\ below[i].is_bad => w \in cleanup_queue
      OBVIOUS
    <2>1. i \in DOMAIN path /\ w \in Seen(path[i]) /\ below[i].is_bad = path[i].is_bad
      BY <1>2, <1>6 DEF Top
    <2> QED BY <1>0, <1>3, <2>1 DEF Called
  <1>10. ASSUME path' = below, cleanup_queue' = cleanup_queue,
                mark' \in [Units -> Marks], mark'[v] # "none",
                \A u \in Units : mark[u] = "in_path" => mark'[u] = "in_path",
                \A u \in Units : mark'[u] = "in_path" => mark[u] = "in_path",
                mark'[v] # "good" => \A u \in Units :
                  mark[u] = "unsure" => mark'[u] = "unsure",
                \A u \in Units : mark'[u] = "in_path"
                  \/ /\ mark'[u] = "bad" => u \in cleanup_queue
                     /\ u \in cleanup_queue => mark'[u] \in {"none", "bad"}
                     /\ mark'[u] = "unsure" =>
                          /\ u \notin Busy /\ u \in gc_unit_queue
                          /\ \A w \in Referrers(u) : w \in cleanup_queue
                               \/ mark'[w] \in {"unsure", "in_path"},
                SettledBy(S)'
         PROVE  IInv'
    <2>1. Typed'
      BY <1>0, <1>a, <1>10 DEF Typed, TypeOK, use
    <2>2. Marked'
      <3>1. ASSUME NEW u \in Units, mark'[u] = "in_path"
            PROVE  /\ \E i \in DOMAIN path' : path'[i].unit = u
                   /\ u \notin cleanup_queue /\ u \notin Busy
        <4>1. mark[u] = "in_path"
          BY <1>10, <3>1
        <4>2. PICK i \in DOMAIN path : path[i].unit = u
          BY <1>0, <4>1 DEF Marked
        <4>3. i \in DOMAIN path' /\ path'[i].unit = u
          BY <1>6, <1>7, <1>10, <4>2
        <4>4. u \notin cleanup_queue /\ u \notin Busy
          BY Zenon, <1>0, <4>1 DEF Marked
        <4> QED BY <4>3, <4>4
      <3> QED BY <1>4, <1>10, <1>a, <3>1 DEF Marked
    <2>3. Called'
      <3>1. \A i \in DOMAIN below : below[i].unit \in Units
        BY <1>5, FrameFields
      <3>2. path'[1].child = v
        BY <1>2, <1>6, <1>10
      <3>3. mark'[v] = "good" => Unwinding'
        BY <1>3, <1>6, <1>10, <3>2 DEF Unwinding
      <3>4. \A i \in DOMAIN path' : Seen(path[i])' = Seen(path'[i])
        BY <1>a DEF Seen, Referrers
      <3>5. \A i \in DOMAIN path' : Seen(path'[i]) \subseteq Units
        BY DEF Seen, Referrers
      <3>6. ASSUME mark'[v] # "good", NEW i \in DOMAIN path', NEW w \in Seen(path'[i])
            PROVE  /\ w \in cleanup_queue' \/ mark'[w] \in {"unsure", "in_path"}
                   /\ path'[i].is_bad => w \in cleanup_queue'
        <4>1. /\ w \in Units
              /\ w \in cleanup_queue \/ mark[w] \in {"unsure", "in_path"}
              /\ path'[i].is_bad => w \in cleanup_queue
          BY <1>9, <1>10, <3>5, <3>6
        <4> QED BY <1>10, <3>6, <4>1
      <3>7. \A i \in DOMAIN path' : mark'[path'[i].unit] = "in_path"
        BY <1>8, <1>10, <3>1
      <3> QED BY <1>8, <1>10, <3>2, <3>3, <3>4, <3>6, <3>7 DEF Called
    <2> QED BY <1>0, <1>a, <1>10, <2>1, <2>2, <2>3 DEF IInv
  <1>11. CASE mark[v] # "none"
    <2>1. mark' = mark /\ path' = below /\ cleanup_queue' = cleanup_queue
      BY <1>2, <1>5, <1>11 DEF Enter
    <2>2. SettledBy(S)'
      BY Zenon, <1>1, <1>a, <2>1 DEF SettledBy, Referrers
    <2> QED BY <1>0, <1>10, <1>11, <2>1, <2>2 DEF Marked
  <1>12. CASE mark[v] = "none" /\ v \in cleanup_queue
    <2>1. /\ mark' = [mark EXCEPT ![v] = "bad"] /\ path' = below
          /\ cleanup_queue' = cleanup_queue
      BY <1>2, <1>5, <1>12 DEF Enter
    <2>2. /\ mark' \in [Units -> Marks] /\ mark'[v] = "bad"
          /\ \A u \in Units \ {v} : mark'[u] = mark[u]
      BY <1>0, <1>2, <2>1 DEF Marks
    <2>3. SettledBy(S)'
      BY <1>1, <1>12, <1>a, <2>1, <2>2 DEF SettledBy, Referrers
    <2>4. \A u \in Units : mark'[u] = "unsure" =>
            /\ u \notin Busy /\ u \in gc_unit_queue
            /\ \A w \in Referrers(u) : w \in cleanup_queue
                                        \/ mark'[w] \in {"unsure", "in_path"}
      BY <1>0, <1>12, <2>2 DEF Marked, Referrers
    <2> QED BY <1>0, <1>10, <1>12, <2>1, <2>2, <2>3, <2>4 DEF Marked
  <1>13. CASE mark[v] = "none" /\ v \notin cleanup_queue /\ v \in Busy
    <2> DEFINE G == unit_gc_mark_good(v)
    <2>1. MarkGood(v) /\ path' = below /\ cleanup_queue' = cleanup_queue
      BY <1>2, <1>5, <1>13 DEF Enter, Busy
    <2>2. /\ mark' \in [Units -> Marks]
          /\ \A u \in Units : mark'[u] = IF u \in G THEN "good" ELSE mark[u]
      BY <1>0, <2>1 DEF MarkGood, Marks
    <2>3. v \notin S
      BY <1>1, <1>13 DEF SettledBy
    <2>4. /\ v \in G /\ G \intersect S = {}
          /\ \A u \in G : u = v \/ mark[u] = "unsure"
          /\ \A u \in G : \A w \in Units :
               mark[w] = "unsure" /\ <<u, w>> \in references => w \in G
      <3>1. v \in G
        BY DEF unit_gc_mark_good
      <3> QED BY <1>0, <1>1, <1>2, <1>13, <2>3, <3>1, MarkGoodReaches, MarkGoodSpares
    <2> HIDE DEF G
    <2>5. SettledBy(S)'
      BY <1>1, <1>a, <2>1, <2>2, <2>4 DEF SettledBy, Referrers
    <2>6. ASSUME NEW u \in Units, mark'[u] = "unsure"
          PROVE  /\ u \notin Busy /\ u \in gc_unit_queue
                 /\ \A w \in Referrers(u) : w \in cleanup_queue
                                             \/ mark'[w] \in {"unsure", "in_path"}
      <3>1. mark[u] = "unsure" /\ u \notin G
        BY <2>2, <2>6
      <3>2. \A w \in Referrers(u) : w \in Units /\ w \notin G
        BY <2>4, <3>1 DEF Referrers
      <3> QED BY <1>0, <2>2, <3>1, <3>2 DEF Marked
    <2>7. \A u \in Units :
            /\ mark[u] = "in_path" <=> mark'[u] = "in_path"
            /\ mark'[u] = "bad" => u \in cleanup_queue
            /\ u \in cleanup_queue => mark'[u] \in {"none", "bad"}
      BY <1>0, <1>13, <2>2, <2>4 DEF Marked
    <2> QED BY <1>10, <2>1, <2>2, <2>4, <2>5, <2>6, <2>7
  <1>14. CASE mark[v] = "none" /\ v \notin cleanup_queue /\ v \notin Busy
    <2>1. PICK g : g = [unit |-> v, deps |-> Referencing(v), refs |-> RefSources(v),
                        child |-> NoUnit, is_bad |-> TRUE]
      OBVIOUS
    <2>2. g \in Frames /\ g.unit = v /\ g.child = NoUnit /\ Seen(g) = {}
      BY <1>0, <2>1, NewCall
    <2>3. /\ mark' = [mark EXCEPT ![v] = "in_path"] /\ path' = <<g>> \o below
          /\ cleanup_queue' = cleanup_queue
      BY <1>2, <1>5, <1>14, <2>1, Zenon DEF Enter, Busy
    <2>4. /\ mark' \in [Units -> Marks] /\ mark'[v] = "in_path"
          /\ \A u \in Units \ {v} : mark'[u] = mark[u]
      BY <1>0, <1>2, <2>3 DEF Marks
    <2>5. /\ path' \in Seq(Frames) /\ path' # <<>>
          /\ DOMAIN below = 1 .. Len(below) /\ Len(below) \in Nat
          /\ DOMAIN path' = 1 .. Len(below) + 1
          /\ path'[1] = g
          /\ \A i \in 2 .. Len(below) + 1 : path'[i] = below[i - 1]
      BY <1>5, <2>2, <2>3, Calling
    <2>6. Typed'
      BY <1>0, <1>a, <2>3, <2>4, <2>5 DEF Typed, TypeOK, use
    <2>7. SettledBy(S)'
      BY <1>1, <1>14, <1>a, <2>3, <2>4 DEF SettledBy, Referrers
    <2>8. Marked'
      <3>1. ASSUME NEW u \in Units, mark'[u] = "in_path"
            PROVE  \E i \in DOMAIN path' : path'[i].unit = u
        <4>1. CASE u = v
          <5>1. 1 \in DOMAIN path' /\ path'[1].unit = u
            BY <2>2, <2>5, <4>1
          <5> QED BY <5>1
        <4>2. CASE u # v
          <5>1. PICK i \in DOMAIN path : path[i].unit = u
            BY <1>0, <2>4, <3>1, <4>2 DEF Marked
          <5>2. i + 1 \in DOMAIN path' /\ path'[i + 1] = below[i]
            BY <1>6, <2>5, <5>1
          <5>3. path'[i + 1].unit = u
            BY <1>6, <1>7, <5>1, <5>2
          <5> QED BY <5>2, <5>3
        <4> QED BY <4>1, <4>2
      <3>2. \A u \in Units : mark'[u] = "unsure" =>
              /\ u \in gc_unit_queue
              /\ \A w \in Referrers(u) : w \in cleanup_queue
                                          \/ mark'[w] \in {"unsure", "in_path"}
        BY <1>0, <1>14, <2>4 DEF Marked, Referrers
      <3>3. \A u \in Units :
              /\ mark'[u] = "bad" => u \in cleanup_queue
              /\ u \in cleanup_queue => mark'[u] \in {"none", "bad"}
              /\ mark'[u] \in {"unsure", "in_path"} => u \notin Busy
        BY <1>0, <1>14, <2>4 DEF Marked
      <3> QED BY <1>4, <1>a, <2>3, <3>1, <3>2, <3>3 DEF Marked
    <2>9. Called'
      <3>1. \A i \in DOMAIN path' :
              \/ i = 1
              \/ i - 1 \in DOMAIN below /\ path'[i] = below[i - 1] /\ i > 1
        BY <2>5
      <3>2. \A i \in DOMAIN below : below[i].unit \in Units \ {v}
        BY <1>5, <1>8, <1>14, FrameFields
      <3>3. \A i \in DOMAIN path' : mark'[path'[i].unit] = "in_path"
        <4> SUFFICES ASSUME NEW i \in DOMAIN path' PROVE mark'[path'[i].unit] = "in_path"
          OBVIOUS
        <4>1. CASE i = 1
          BY <2>2, <2>4, <2>5, <4>1
        <4>2. CASE i # 1
          <5>1. i - 1 \in DOMAIN below /\ path'[i] = below[i - 1]
            BY <3>1, <4>2
          <5> QED BY <1>8, <2>4, <3>2, <5>1
        <4> QED BY <4>1, <4>2
      <3>4. ASSUME NEW i \in DOMAIN path', i > 1
            PROVE  path'[i].child = path'[i - 1].unit
        <4>1. CASE i = 2
          <5>1. path'[i] = f /\ path'[i - 1] = g
            BY <1>6, <2>5, <3>4, <4>1
          <5> QED BY <1>2, <2>2, <5>1
        <4>2. CASE i # 2
          <5>1. /\ path'[i] = below[i - 1] /\ path'[i - 1] = below[(i - 1) - 1]
                /\ i - 1 \in DOMAIN below /\ i - 1 > 1
            BY <2>5, <3>4, <4>2
          <5> QED BY <1>8, <5>1
        <4> QED BY <4>1, <4>2
      <3>5. ASSUME NEW i \in DOMAIN path', NEW j \in DOMAIN path',
                   path'[i].unit = path'[j].unit
            PROVE  i = j
        <4>1. i \in Nat /\ j \in Nat
          BY <2>5
        <4>2. CASE i = 1
          BY <2>2, <2>5, <3>1, <3>2, <3>5, <4>2
        <4>3. CASE j = 1
          BY <2>2, <2>5, <3>1, <3>2, <3>5, <4>3
        <4>4. CASE i # 1 /\ j # 1
          <5>1. i - 1 = j - 1
            BY <1>8, <3>1, <3>5, <4>4
          <5> QED BY <4>1, <5>1
        <4> QED BY <4>2, <4>3, <4>4
      <3>6. ASSUME NEW i \in DOMAIN path', NEW w \in Seen(path'[i])
            PROVE  /\ w \in cleanup_queue' \/ mark'[w] \in {"unsure", "in_path"}
                   /\ path'[i].is_bad => w \in cleanup_queue'
        <4>1. i # 1
          BY <2>2, <2>5, <3>6
        <4>2. i - 1 \in DOMAIN below /\ path'[i] = below[i - 1] /\ w \in Units
          BY <3>1, <3>6, <4>1 DEF Seen, Referrers
        <4>3. /\ w \in cleanup_queue \/ mark[w] \in {"unsure", "in_path"}
              /\ path'[i].is_bad => w \in cleanup_queue
          BY <1>9, <3>6, <4>2
        <4> QED BY <1>14, <2>3, <2>4, <4>2, <4>3
      <3>7. \A i \in DOMAIN path' : Seen(path[i])' = Seen(path'[i])
        BY <1>a DEF Seen, Referrers
      <3>8. path'[1].child = NoUnit
        BY <2>2, <2>5
      <3> QED BY <3>3, <3>4, <3>5, <3>6, <3>7, <3>8 DEF Called
    <2> QED BY <1>0, <1>a, <2>6, <2>7, <2>8, <2>9 DEF IInv
  <1> QED BY <1>11, <1>12, <1>13, <1>14

LEMMA NextInv ==
  ASSUME IInv, [Next]_vars
  PROVE  IInv'
  <1>1. CASE UNCHANGED vars
    <2> USE <1>1 DEF vars, graph, use, sweep
    <2>0. Busy' = Busy
      BY SameBusy
    <2>1. Typed' = Typed
      BY <2>0 DEF Typed, TypeOK
    <2>2. Marked' = Marked
      BY <2>0 DEF Marked, Referrers
    <2>3. Called' = Called
      BY DEF Called, Unwinding, Seen, Referrers
    <2>4. \A S \in SUBSET Units : SettledBy(S)' = SettledBy(S)
      BY DEF SettledBy, Referrers
    <2> QED BY <2>1, <2>2, <2>3, <2>4 DEF IInv
  <1>2. CASE Event
    BY <1>2, EventInv
  <1>3. CASE Step
    BY <1>3, LoopInv, TakeInv, VisitInv, JudgeInv, ConcludeInv, PutInv, FreeInv
       DEF Step
  <1> QED BY <1>1, <1>2, <1>3 DEF Next

(* What stays, together with what it refers to, keeps clear of the units   *)
(* that are to be unloaded.                                                *)
LEMMA InvSafe ==
  ASSUME IInv
  PROVE  CollectsUnneeded
  <1>1. PICK S \in SUBSET Units : SettledBy(S) /\ S \intersect Busy = {}
    <2>1. CASE phase = "gc"
      <3>1. PICK S \in SUBSET Units : SettledBy(S)
        BY <2>1 DEF IInv
      <3>2. S \intersect Busy = {}
        BY <2>1, <3>1 DEF IInv, SettledBy, Marked
      <3> QED BY <3>1, <3>2
    <2>2. CASE phase # "gc"
      <3>1. SettledBy({}) /\ {} \in SUBSET Units
        BY <2>2 DEF IInv
      <3> QED BY <3>1
    <2> QED BY <2>1, <2>2
  <1> DEFINE K == loaded \ (S \union cleanup_queue)
  <1>2. InUse \subseteq K
    <2>1. InUse = Busy
      BY BusyIsInUse DEF IInv, Typed
    <2> QED BY <1>1, <2>1 DEF IInv, Typed, InUse
  <1>3. \A p \in references \union unitRefs : p[1] \in K => p[2] \in K
    BY <1>1 DEF IInv, Typed, TypeOK, SettledBy, Referrers
  <1>4. Needed \subseteq K
    <2>1. K \in SUBSET loaded
      OBVIOUS
    <2> HIDE DEF K
    <2> QED BY <1>2, <1>3, <2>1, Zenon DEF Needed, LedToBy
  <1> QED BY <1>4 DEF CollectsUnneeded

(* unit_gc_sweep(), manager_dispatch_gc_unit_queue(), unit_free(): for     *)
(* every set of units and every graph of references, cycles included, no   *)
(* unit that is needed is ever put on the cleanup queue.                   *)
THEOREM CollectsUnneededAlways == Spec => []CollectsUnneeded
  <1>1. Init => IInv
    BY InitInv
  <1>2. IInv /\ [Next]_vars => IInv'
    BY NextInv
  <1>3. IInv => CollectsUnneeded
    BY InvSafe
  <1> QED BY <1>1, <1>2, <1>3, PTL DEF Spec

-----------------------------------------------------------------------------
(* Nothing is forgotten.                                                   *)

(* S: units none of which is in use, or referred to from outside.          *)
Unused(S) ==
  /\ S \subseteq loaded /\ S \intersect Busy = {}
  /\ \A w \in S : Referrers(w) \subseteq S

(* No such set is without a unit that one of the queues holds, or that was *)
(* overlooked when the job of its handler ended.                           *)
Watched ==
  \A S \in SUBSET Units : Unused(S) /\ S # {} =>
    S \intersect (gc_unit_queue \union cleanup_queue \union overlooked) # {}

(* The unit is in use, or a unit that is in use leads to it.               *)
Used(u) == \A S \in SUBSET Units : Unused(S) => u \notin S

(* The call looks at referrers only.                                       *)
Looking(f) ==
  f.deps \union f.refs \union ({f.child} \ {NoUnit}) \subseteq Referrers(f.unit)

(* During a round: a unit marked good is rightly so, the unit that the     *)
(* dispatcher has taken gets a mark, and the calls look at referrers only. *)
Rightly ==
  /\ \A u \in Units : mark[u] = "good" => Used(u)
  /\ current # NoUnit => mark[current] # "none"
  /\ \A i \in DOMAIN path : Looking(path[i])

Kept == Watched /\ (phase = "gc" => Rightly)

LEMMA UseSpreads ==
  ASSUME NEW v \in Units, NEW u \in Units, Used(v), <<v, u>> \in references
  PROVE  Used(u)
  BY DEF Used, Unused, Referrers

(* unit_gc_mark_good() of a unit that is in use: so is all that it marks.  *)
LEMMA MarkGoodIsRight ==
  ASSUME NEW x \in Units, Used(x), NEW v \in unit_gc_mark_good(x)
  PROVE  Used(v)
  <1> DEFINE Unsure == {u \in Units : mark[u] = "unsure"}
             Closed(S) == \A u \in S \union {x} : \A w \in Unsure :
                            <<u, w>> \in references => w \in S
             Rightful == {u \in Unsure : Used(u)}
  <1>1. unit_gc_mark_good(x) =
          {x} \union {u \in Unsure : \A S \in SUBSET Unsure : Closed(S) => u \in S}
    BY DEF unit_gc_mark_good
  <1>2. Closed(Rightful)
    BY UseSpreads
  <1>3. Rightful \in SUBSET Unsure
    OBVIOUS
  <1>4. v = x \/ v \in Rightful
    <2> HIDE DEF Rightful, Closed
    <2> QED BY <1>1, <1>2, <1>3
  <1> QED BY <1>4

LEMMA SameUse ==
  ASSUME UNCHANGED <<loaded, Busy, references>>
  PROVE  /\ \A S : Unused(S)' = Unused(S)
         /\ \A u : Used(u)' = Used(u)
         /\ \A u : Referrers(u)' = Referrers(u)
  BY DEF Unused, Used, Referrers

(* Marking the unit good that the innermost call has reached.              *)
LEMMA GoodIsRight ==
  ASSUME UNCHANGED <<loaded, Busy, references>>, Rightly, NEW x \in Units, Used(x),
         mark \in [Units -> Marks], MarkGood(x)
  PROVE  /\ \A u \in Units : mark'[u] = "good" => Used(u)'
         /\ \A u \in Units : mark[u] # "none" => mark'[u] # "none"
         /\ mark'[x] # "none"
  <1>1. \A u \in Units :
          mark'[u] = IF u \in unit_gc_mark_good(x) THEN "good" ELSE mark[u]
    BY DEF MarkGood
  <1>2. \A u \in Units : u \in unit_gc_mark_good(x) => Used(u)
    BY MarkGoodIsRight
  <1>3. x \in unit_gc_mark_good(x)
    BY DEF unit_gc_mark_good
  <1>4. \A u \in Units : mark[u] = "good" => Used(u)
    BY DEF Rightly
  <1>5. \A u \in Units : mark'[u] = "good" => Used(u)
    BY <1>1, <1>2, <1>4
  <1>6. \A u \in Units : mark'[u] = "good" => Used(u)'
    BY <1>5, SameUse
  <1> QED BY <1>1, <1>3, <1>6

LEMMA StaysRight ==
  ASSUME UNCHANGED <<loaded, Busy, references>>,
         \A u \in Units : mark'[u] = "good" => Used(u)',
         current' # NoUnit => mark'[current'] # "none",
         \A i \in DOMAIN path' : Looking(path'[i])
  PROVE  Rightly'
  <1>0. references' = references
    OBVIOUS
  <1>1. ASSUME NEW i \in DOMAIN path'
        PROVE  Looking(path[i])'
    <2>1. Looking(path'[i])
      BY <1>1
    <2>2. Referrers(path[i].unit)' = Referrers(path'[i].unit)
      BY ONLY <1>0 DEF Referrers
    <2> QED BY <2>1, <2>2 DEF Looking
  <1> QED BY <1>1 DEF Rightly

(* The first part of a call of unit_gc_sweep().                            *)
LEMMA EnterIsRight ==
  ASSUME UNCHANGED <<loaded, Busy, references>>, Typed, Rightly,
         NEW u \in Units, NEW below \in Seq(Frames), Enter(u, below),
         \A i \in DOMAIN below : Looking(below[i])
  PROVE  /\ \A v \in Units : mark'[v] = "good" => Used(v)'
         /\ \A v \in Units : mark[v] # "none" => mark'[v] # "none"
         /\ mark'[u] # "none"
         /\ \A i \in DOMAIN path' : Looking(path'[i])
         /\ cleanup_queue' = cleanup_queue
  <1>0. mark \in [Units -> Marks] /\ \A v \in Units : mark[v] = "good" => Used(v)'
    BY SameUse DEF Typed, TypeOK, Rightly
  <1>1. CASE mark[u] # "none"
    <2>1. mark' = mark /\ path' = below /\ cleanup_queue' = cleanup_queue
      BY <1>1 DEF Enter
    <2> QED BY <1>0, <1>1, <2>1
  <1>2. CASE mark[u] = "none" /\ u \in cleanup_queue
    <2>1. mark' = [mark EXCEPT ![u] = "bad"] /\ path' = below /\ cleanup_queue' = cleanup_queue
      BY Zenon, <1>2 DEF Enter
    <2> QED BY <1>0, <1>2, <2>1
  <1>3. CASE mark[u] = "none" /\ u \notin cleanup_queue /\ u \in Busy
    <2>1. MarkGood(u) /\ path' = below /\ cleanup_queue' = cleanup_queue
      BY <1>3 DEF Enter, Busy
    <2>2. Used(u)
      BY <1>3 DEF Used, Unused
    <2>3. /\ \A v \in Units : mark'[v] = "good" => Used(v)'
          /\ \A v \in Units : mark[v] # "none" => mark'[v] # "none"
          /\ mark'[u] # "none"
      BY Zenon, <1>0, <2>1, <2>2, GoodIsRight
    <2> QED BY <2>1, <2>3
  <1>4. CASE mark[u] = "none" /\ u \notin cleanup_queue /\ u \notin Busy
    <2>1. PICK f : f = [unit |-> u, deps |-> Referencing(u), refs |-> RefSources(u),
                        child |-> NoUnit, is_bad |-> TRUE]
      OBVIOUS
    <2>2. /\ mark' = [mark EXCEPT ![u] = "in_path"] /\ path' = <<f>> \o below
          /\ cleanup_queue' = cleanup_queue
      BY <1>4, <2>1, Zenon DEF Enter, Busy
    <2>3. f \in Frames
      BY <2>1, NewCall
    <2>4. Looking(f)
      BY <2>1 DEF Looking, Referencing, RefSources, Typed, TypeOK, Referrers
    <2>5. \A i \in DOMAIN path' : Looking(path'[i])
      <3>1. /\ DOMAIN path' = 1 .. Len(below) + 1 /\ Len(below) \in Nat
            /\ DOMAIN below = 1 .. Len(below)
            /\ path'[1] = f
            /\ \A i \in 2 .. Len(below) + 1 : path'[i] = below[i - 1]
        BY <2>2, <2>3, Calling
      <3>2. ASSUME NEW i \in DOMAIN path', i # 1
            PROVE  path'[i] = below[i - 1] /\ i - 1 \in DOMAIN below
        BY <3>1, <3>2
      <3> QED BY <2>4, <3>1, <3>2
    <2>6. \A v \in Units : mark'[v] = IF v = u THEN "in_path" ELSE mark[v]
      BY <1>0, <2>2
    <2> QED BY <1>0, <2>2, <2>5, <2>6
  <1> QED BY Zenon, <1>1, <1>2, <1>3, <1>4

(* What an event sets free it queues, or it overlooks it.                  *)
LEMMA EventKeeps ==
  ASSUME IInv, Kept, Event
  PROVE  Kept'
  <1> DEFINE Q == gc_unit_queue \union cleanup_queue \union overlooked
  <1>0. phase = "events" /\ phase' = "events" /\ Typed
    BY Zenon DEF IInv, Event, Load, Pin, Unpin, unit_add_dependency, unit_ref_set,
           unit_ref_unset, unit_merge, Linked, job_install, job_uninstall
  <1>1. SUFFICES ASSUME NEW S \in SUBSET Units, Unused(S)', S # {},
                        S \intersect Q' = {}
                 PROVE  FALSE
    BY <1>0 DEF Kept, Watched
  <1>2. SUFFICES Unused(S) /\ S \intersect Q = {}
    BY <1>1 DEF Kept, Watched
  <1> USE <1>0, <1>1 DEF Typed, TypeOK, Unused, Referrers, use
  <1>3. ASSUME NEW u \in Units, Load(u)
        PROVE  Unused(S) /\ S \intersect Q = {}
    BY <1>3, SameBusy DEF Load
  <1>4. ASSUME NEW u \in Units, Pin(u)
        PROVE  Unused(S) /\ S \intersect Q = {}
    <2>1. Busy \subseteq Busy'
      BY <1>4 DEF Pin, Busy, unit_may_gc
    <2> QED BY <1>4, <2>1 DEF Pin
  <1>5. ASSUME NEW u \in Units, Unpin(u)
        PROVE  Unused(S) /\ S \intersect Q = {}
    <2>1. Busy \subseteq Busy' \union gc_unit_queue'
      BY <1>5 DEF Unpin, Busy, unit_may_gc
    <2> QED BY <1>5, <2>1 DEF Unpin
  <1>6. ASSUME NEW u \in Units, NEW v \in Units,
               unit_add_dependency(u, v) \/ unit_ref_set(u, v)
        PROVE  Unused(S) /\ S \intersect Q = {}
    <2>1. Busy \subseteq Busy'
      BY <1>6 DEF unit_add_dependency, unit_ref_set, Linked, Busy, unit_may_gc
    <2> QED BY <1>6, <2>1 DEF unit_add_dependency, unit_ref_set, Linked
  <1>7. ASSUME NEW u \in Units, NEW v \in Units, unit_ref_unset(u, v)
        PROVE  Unused(S) /\ S \intersect Q = {}
    BY <1>7, SameBusy DEF unit_ref_unset, Queued
  <1>8. ASSUME NEW u \in Units, NEW other \in Units, unit_merge(u, other)
        PROVE  Unused(S) /\ S \intersect Q = {}
    <2>1. other \notin S /\ S \intersect Q = {}
      BY <1>8 DEF unit_merge
    <2>2. ASSUME NEW w \in S, NEW v \in Referrers(w)
          PROVE  v \in S
      <3>1. v # other /\ w # other /\ <<v, w>> \in references /\ w \in Units /\ v \in Units
        BY Zenon, <1>8, <2>1, <2>2 DEF unit_merge
      <3>2. v # w => <<v, w>> \in references'
        BY <1>8, <3>1 DEF unit_merge, Redirected
      <3> QED BY <2>2, <3>1, <3>2
    <2>3. Busy \subseteq Busy'
      <3> SUFFICES ASSUME NEW x \in Busy, x \notin pinned \union jobs
                   PROVE  x \in Busy'
        BY <1>8 DEF unit_merge, Busy, unit_may_gc
      <3>1. PICK h \in jobs : <<x, h>> \in handlers
        BY DEF Busy, unit_may_gc
      <3>2. x # other /\ h # other /\ x # h
        BY <1>8, <3>1 DEF unit_merge
      <3>3. <<x, h>> \in handlers'
        BY <1>8, <3>1, <3>2 DEF unit_merge, Redirected
      <3> QED BY <1>8, <3>1, <3>3 DEF unit_merge, Busy, unit_may_gc
    <2> QED BY <1>8, <2>1, <2>2, <2>3 DEF unit_merge
  <1>9. ASSUME NEW h \in Units, job_install(h)
        PROVE  Unused(S) /\ S \intersect Q = {}
    <2>1. Busy \subseteq Busy'
      BY <1>9 DEF job_install, Busy, unit_may_gc
    <2> QED BY <1>9, <2>1 DEF job_install
  <1>10. ASSUME NEW h \in Units, job_uninstall(h)
         PROVE  Unused(S) /\ S \intersect Q = {}
    <2>1. Busy \subseteq Busy' \union gc_unit_queue' \union overlooked'
      <3> SUFFICES ASSUME NEW x \in Busy, x \notin Busy', x # h
                   PROVE  x \in overlooked'
        BY <1>10 DEF job_uninstall, Busy
      <3>1. unit_may_gc(x)' /\ <<x, h>> \in handlers
        BY <1>10 DEF job_uninstall, Busy, unit_may_gc
      <3> QED BY <1>10, <3>1 DEF job_uninstall
    <2> QED BY <1>10, <2>1 DEF job_uninstall
  <1> QED BY <1>3, <1>4, <1>5, <1>6, <1>7, <1>8, <1>9, <1>10 DEF Event

LEMMA LoopKeeps ==
  ASSUME IInv, Kept, Loop
  PROVE  Kept'
  <1>0. /\ UNCHANGED <<loaded, Busy, references, gc_unit_queue, cleanup_queue, overlooked>>
        /\ mark' = [u \in Units |-> "none"] /\ current' = NoUnit /\ path' = <<>>
    BY SameBusy DEF Loop, graph, IInv
  <1>1. Watched'
    BY <1>0, SameUse DEF Kept, Watched
  <1>2. Rightly'
    BY <1>0 DEF Rightly
  <1> QED BY <1>1, <1>2 DEF Kept

(* unit_free(): what the freed unit alone referred to is queued.           *)
LEMMA FreeKeeps ==
  ASSUME IInv, Kept, NEW u \in Units, unit_free(u)
  PROVE  Kept'
  <1>0. phase' # "gc" /\ Typed
    BY DEF unit_free, IInv
  <1>1. SUFFICES ASSUME NEW S \in SUBSET Units, Unused(S)', S # {},
                        S \intersect (gc_unit_queue \union cleanup_queue
                                        \union overlooked)' = {}
                 PROVE  FALSE
    BY <1>0 DEF Kept, Watched
  <1>2. u \notin S /\ S \subseteq loaded /\ S \intersect Busy = {}
    <2>1. u \notin S /\ S \subseteq loaded
      BY <1>1 DEF Unused, unit_free
    <2>2. u \notin jobs
      BY <1>0 DEF Typed, Busy, unit_may_gc, unit_free
    <2>3. Busy \subseteq Busy' \union {u}
      BY <2>2 DEF Busy, unit_may_gc, unit_free, Without
    <2> QED BY <1>1, <2>1, <2>3 DEF Unused
  <1>3. S \intersect (gc_unit_queue \union cleanup_queue \union overlooked) = {}
    BY <1>1, <1>2 DEF unit_free, Queued
  <1>4. \A w \in S : <<u, w>> \notin references
    BY <1>1, <1>2, <1>3 DEF unit_free, Queued, Neighbours, Busy
  <1>5. ASSUME NEW w \in S, NEW v \in Referrers(w)
        PROVE  v \in S
    <2>1. v # u /\ w # u /\ <<v, w>> \in references' /\ v \in Units
      BY <1>2, <1>4, <1>5 DEF Referrers, unit_free, Without
    <2> QED BY <1>1, <1>5, <2>1 DEF Unused, Referrers
  <1>6. Unused(S)
    BY <1>2, <1>5 DEF Unused
  <1> QED BY <1>1, <1>3, <1>6 DEF Kept, Watched

(* The steps of a round do not change the graph, and a unit that is judged *)
(* is in one of the queues then.                                           *)
LEMMA RoundKeeps ==
  ASSUME Kept, UNCHANGED <<loaded, Busy, references>>,
         gc_unit_queue \union cleanup_queue \union overlooked
         \subseteq (gc_unit_queue \union cleanup_queue \union overlooked)'
  PROVE  Watched'
  BY SameUse DEF Kept, Watched

LEMMA TakeKeeps ==
  ASSUME IInv, Kept, Take
  PROVE  Kept'
  <1>0. /\ UNCHANGED <<loaded, Busy, references, gc_unit_queue, overlooked>>
        /\ Typed /\ Rightly
    BY SameBusy DEF Take, graph, IInv, Kept
  <1>1. PICK u \in gc_unit_queue : current' = u /\ Enter(u, <<>>)
    BY DEF Take
  <1>2. PICK below \in Seq(Frames) : below = <<>> /\ DOMAIN below = {}
    <2>1. <<>> \in Seq(Frames) /\ DOMAIN <<>> = {}
      OBVIOUS
    <2> QED BY <2>1, Zenon
  <1>a. u \in Units /\ Enter(u, below)
    BY <1>0, <1>1, <1>2 DEF Typed, TypeOK
  <1>3. /\ \A v \in Units : mark'[v] = "good" => Used(v)'
        /\ mark'[u] # "none"
        /\ \A i \in DOMAIN path' : Looking(path'[i])
        /\ cleanup_queue' = cleanup_queue
    BY <1>0, <1>2, <1>a, EnterIsRight, Zenon
  <1>4. Rightly'
    BY <1>0, <1>1, <1>3, StaysRight
  <1>5. Watched'
    BY <1>0, <1>3, RoundKeeps
  <1> QED BY <1>4, <1>5 DEF Kept

LEMMA VisitKeeps ==
  ASSUME IInv, Kept, Visit
  PROVE  Kept'
  <1>0. /\ UNCHANGED <<loaded, Busy, references, gc_unit_queue, current, overlooked>>
        /\ phase = "gc" /\ Typed /\ Rightly /\ current \in Units
        /\ path \in Seq(Frames) /\ path # <<>> /\ Top \in Frames /\ 1 \in DOMAIN path
    BY InCall, SameBusy DEF Visit, graph, Kept, Typed, TypeOK
  <1>1. PICK v \in IF Top.deps # {} THEN Top.deps ELSE Top.refs :
          Enter(v, <<[Top EXCEPT !.child = v,
                                 !.deps = @ \ {v},
                                 !.refs = IF Top.deps # {} THEN @ ELSE @ \ {v}]>>
                   \o Tail(path))
    BY Zenon DEF Visit
  <1>2. PICK f : f = [Top EXCEPT !.child = v,
                                 !.deps = @ \ {v},
                                 !.refs = IF Top.deps # {} THEN @ ELSE @ \ {v}]
    OBVIOUS
  <1>3. v \in Units /\ f \in Frames /\ f.unit = Top.unit /\ f.child = v
        /\ f.deps \subseteq Top.deps /\ f.refs \subseteq Top.refs
    BY <1>0, <1>1, <1>2, Zenon DEF Frames
  <1>4. Looking(f)
    BY <1>0, <1>1, <1>3 DEF Rightly, Looking, Top
  <1>5. PICK below \in Seq(Frames) : below = <<f>> \o Tail(path)
    BY <1>0, <1>3, Changing, Zenon
  <1>6. \A i \in DOMAIN below : Looking(below[i])
    <2>1. /\ DOMAIN below = DOMAIN path /\ below[1] = f
          /\ \A i \in DOMAIN below : i # 1 => below[i] = path[i]
      BY <1>0, <1>3, <1>5, Changing
    <2> QED BY <1>0, <1>4, <2>1 DEF Rightly
  <1>7. Enter(v, below)
    BY <1>1, <1>2, <1>5, Zenon
  <1>8. /\ \A u \in Units : mark'[u] = "good" => Used(u)'
        /\ \A u \in Units : mark[u] # "none" => mark'[u] # "none"
        /\ \A i \in DOMAIN path' : Looking(path'[i])
        /\ cleanup_queue' = cleanup_queue
    BY <1>0, <1>3, <1>6, <1>7, EnterIsRight
  <1>9. Rightly'
    BY Zenon, <1>0, <1>8, StaysRight DEF Rightly
  <1>10. Watched'
    BY <1>0, <1>8, RoundKeeps
  <1> QED BY <1>9, <1>10 DEF Kept

(* The calls that remain when the innermost one returns.                   *)
LEMMA ReturnLooks ==
  ASSUME Rightly, path \in Seq(Frames), path # <<>>, NEW i \in DOMAIN Tail(path)
  PROVE  Looking(Tail(path)[i])
  <1>1. i + 1 \in DOMAIN path /\ Tail(path)[i] = path[i + 1]
    BY Returning
  <1> QED BY <1>1 DEF Rightly

LEMMA JudgeKeeps ==
  ASSUME IInv, Kept, Judge
  PROVE  Kept'
  <1>0. /\ UNCHANGED <<loaded, Busy, references, gc_unit_queue, cleanup_queue, current,
                       overlooked>>
        /\ phase = "gc" /\ Typed /\ Rightly /\ current \in Units
        /\ path \in Seq(Frames) /\ path # <<>> /\ Top \in Frames /\ 1 \in DOMAIN path
        /\ mark \in [Units -> Marks]
    BY InCall, SameBusy DEF Judge, graph, Kept, Typed, TypeOK
  <1>1. Watched'
    BY <1>0, RoundKeeps
  <1>2. /\ Top.unit \in Units /\ Top.child \in Units
        /\ <<Top.child, Top.unit>> \in references
    <2>1. Looking(Top) /\ Top.child # NoUnit
      BY <1>0 DEF Rightly, Top, Judge
    <2> QED BY <1>0, <2>1, FrameFields DEF Looking, Referrers
  <1>3. CASE mark[Top.child] = "good"
    <2>1. MarkGood(Top.unit) /\ path' = Tail(path)
      BY <1>3 DEF Judge
    <2>2. Used(Top.unit)
      BY Zenon, <1>0, <1>2, <1>3, UseSpreads DEF Rightly
    <2>3. /\ \A u \in Units : mark'[u] = "good" => Used(u)'
          /\ \A u \in Units : mark[u] # "none" => mark'[u] # "none"
      BY <1>0, <1>2, <2>1, <2>2, GoodIsRight
    <2>4. \A i \in DOMAIN path' : Looking(path'[i])
      BY <1>0, <2>1, ReturnLooks
    <2>5. Rightly'
      BY <1>0, <2>3, <2>4, StaysRight DEF Rightly
    <2> QED BY <1>1, <2>5 DEF Kept
  <1>4. CASE mark[Top.child] # "good"
    <2>1. PICK f : f = [Top EXCEPT !.child = NoUnit,
                                   !.is_bad = @ /\ mark[Top.child] = "bad"]
      OBVIOUS
    <2>2. mark' = mark /\ path' = <<f>> \o Tail(path)
      BY <1>4, <2>1 DEF Judge
    <2>3. /\ f \in Frames /\ f.unit = Top.unit /\ f.child = NoUnit
          /\ f.deps = Top.deps /\ f.refs = Top.refs
      BY <1>0, <2>1, Zenon DEF Frames
    <2>4. Looking(f)
      BY <1>0, <2>3 DEF Rightly, Looking, Top
    <2>5. /\ DOMAIN path' = DOMAIN path /\ path'[1] = f
          /\ \A i \in DOMAIN path' : i # 1 => path'[i] = path[i]
      BY <1>0, <2>2, <2>3, Changing
    <2>6. \A i \in DOMAIN path' : Looking(path'[i])
      BY <1>0, <2>4, <2>5 DEF Rightly
    <2>7. \A u \in Units : mark'[u] = "good" => Used(u)'
      BY <1>0, <2>2, SameUse DEF Rightly
    <2>8. Rightly'
      BY <1>0, <2>2, <2>6, <2>7, StaysRight DEF Rightly
    <2> QED BY <1>1, <2>8 DEF Kept
  <1> QED BY <1>3, <1>4

LEMMA ConcludeKeeps ==
  ASSUME IInv, Kept, Conclude
  PROVE  Kept'
  <1>0. /\ UNCHANGED <<loaded, Busy, references, current>>
        /\ phase = "gc" /\ Typed /\ Rightly /\ current \in Units
        /\ path \in Seq(Frames) /\ path # <<>> /\ Top \in Frames
        /\ mark \in [Units -> Marks] /\ path' = Tail(path)
    BY InCall, SameBusy DEF Conclude, graph, Kept, Typed, TypeOK
  <1>1. gc_unit_queue \union cleanup_queue \union overlooked
        \subseteq (gc_unit_queue \union cleanup_queue \union overlooked)'
    <2>1. Top.unit \in Units /\ mark[Top.unit] = "in_path" /\ 1 \in DOMAIN path
      BY <1>0, InCall, FrameFields DEF Called, Top
    <2>2. Top.unit \notin cleanup_queue /\ unit_may_gc(Top.unit)
      BY <1>0, <2>1, InCall DEF Marked, Busy
    <2> QED BY <2>2 DEF Conclude, Queued
  <1>2. Watched'
    BY Zenon, <1>0, <1>1, RoundKeeps
  <1>3. /\ \A u \in Units : mark'[u] = "good" => mark[u] = "good"
        /\ \A u \in Units : mark[u] # "none" => mark'[u] # "none"
    BY Zenon, <1>0 DEF Conclude
  <1>4. \A i \in DOMAIN path' : Looking(path'[i])
    BY <1>0, ReturnLooks
  <1>5. \A u \in Units : mark'[u] = "good" => Used(u)'
    BY <1>0, <1>3, SameUse DEF Rightly
  <1>6. Rightly'
    BY <1>0, <1>3, <1>4, <1>5, StaysRight DEF Rightly
  <1> QED BY <1>2, <1>6 DEF Kept

(* A unit that leaves the queue is to be unloaded, or it is in use.        *)
LEMMA PutKeeps ==
  ASSUME IInv, Kept, Put
  PROVE  Kept'
  <1>0. /\ UNCHANGED <<loaded, Busy, references, path>> /\ current' = NoUnit
        /\ phase = "gc" /\ Typed /\ Marked /\ Rightly /\ current \in Units
        /\ path = <<>> /\ mark \in [Units -> Marks]
        /\ overlooked' = overlooked \ {current}
    BY SameBusy DEF Put, graph, IInv, Kept, Typed, TypeOK
  <1>1. CASE Collected(current)
    <2>1. /\ gc_unit_queue' = gc_unit_queue \ {current}
          /\ cleanup_queue' = cleanup_queue \union {current}
          /\ mark' = [mark EXCEPT ![current] = "bad"]
      BY <1>1 DEF Put
    <2>2. Watched'
      BY <2>1, <1>0, SameUse DEF Kept, Watched
    <2>3. \A u \in Units : mark'[u] = "good" => mark[u] = "good"
      BY <1>0, <2>1
    <2>4. Rightly'
      BY <1>0, <2>3, SameUse DEF Rightly
    <2> QED BY <2>2, <2>4 DEF Kept
  <1>2. CASE ~Collected(current)
    <2>1. /\ gc_unit_queue' = gc_unit_queue \ {current}
          /\ cleanup_queue' = cleanup_queue /\ mark' = mark
      BY <1>2 DEF Put
    <2>2. mark[current] \notin {"none", "in_path", "unsure", "bad"}
      BY <1>0, <1>2, UnitsAssumption DEF Rightly, Marked, Collected
    <2>3. Used(current)
      BY <1>0, <2>2 DEF Rightly, Marks
    <2>4. Watched'
      BY <1>0, <2>1, <2>3, SameUse DEF Kept, Watched, Used
    <2>5. Rightly'
      BY <1>0, <2>1, SameUse DEF Rightly
    <2> QED BY <2>4, <2>5 DEF Kept
  <1> QED BY <1>1, <1>2

LEMMA NextKeeps ==
  ASSUME IInv, Kept, [Next]_vars
  PROVE  Kept'
  <1>1. CASE UNCHANGED vars
    <2>1. UNCHANGED <<loaded, Busy, references, gc_unit_queue, cleanup_queue, overlooked,
                      mark, current, path, phase>>
      BY <1>1, SameBusy DEF vars, graph, sweep
    <2>2. Watched' = Watched
      BY <2>1, SameUse DEF Watched
    <2>3. Rightly => Rightly'
      BY <2>1, SameUse, StaysRight DEF Rightly
    <2> QED BY <2>1, <2>2, <2>3 DEF Kept
  <1>2. CASE Event
    BY <1>2, EventKeeps
  <1>3. CASE Step
    BY <1>3, LoopKeeps, TakeKeeps, VisitKeeps, JudgeKeeps, ConcludeKeeps, PutKeeps,
       FreeKeeps DEF Step
  <1> QED BY <1>1, <1>2, <1>3 DEF Next

(* The units that nothing that stays leads to are a set that nothing       *)
(* outside refers to.                                                      *)
LEMMA KeptIsNoLeak ==
  ASSUME IInv, Kept
  PROVE  NoLeak
  <1> DEFINE us == InUse \union overlooked
             S == loaded \ LedToBy(us)
  <1>1. SUFFICES ASSUME gc_unit_queue = {}, cleanup_queue = {}
                 PROVE  loaded = LedToBy(us)
    BY DEF NoLeak
  <1>2. /\ loaded \subseteq Units /\ us \subseteq loaded /\ Busy \subseteq us
        /\ references \subseteq loaded \X loaded
    BY BusyIsInUse DEF IInv, Typed, TypeOK, InUse
  <1> HIDE DEF us
  <1>3. S \subseteq loaded /\ S \intersect us = {} /\ S \in SUBSET Units
    BY <1>2 DEF LedToBy
  <1>4. ASSUME NEW w \in S, NEW v \in Referrers(w)
        PROVE  v \in S
    <2>1. w \in loaded /\ v \in loaded /\ <<v, w>> \in references
      BY <1>2, <1>4 DEF Referrers
    <2>2. v \in LedToBy(us) => w \in LedToBy(us)
      <3> SUFFICES ASSUME v \in LedToBy(us), NEW K \in SUBSET loaded, us \subseteq K,
                          \A p \in references \union unitRefs : p[1] \in K => p[2] \in K
                   PROVE  w \in K
        BY <2>1 DEF LedToBy
      <3>1. v \in K
        BY Zenon DEF LedToBy
      <3> QED BY <2>1, <3>1
    <2> QED BY <1>4, <2>1, <2>2
  <1>5. Unused(S)
    <2> HIDE DEF S
    <2> QED BY <1>2, <1>3, <1>4 DEF Unused
  <1>6. S = {}
    <2> HIDE DEF S
    <2> QED BY <1>1, <1>3, <1>5 DEF Kept, Watched, us
  <1> QED BY <1>6 DEF LedToBy

(* unit_add_to_gc_queue() wherever a unit may have become superfluous,     *)
(* unit_gc_sweep(), unit_free(): whenever the manager waits for events and *)
(* the queues are empty, every unit that is loaded is needed, for every    *)
(* set of units and every graph of references, cycles included, except for *)
(* the units that job_uninstall() of a handler has set free and no sweep   *)
(* has judged since, and what hangs on them.                               *)
THEOREM NothingLeaks == Spec => []NoLeak
  <1>1. Init => IInv /\ Kept
    <2>1. Init => Watched
      BY DEF Init, Watched, Unused
    <2> QED BY <2>1, InitInv DEF Init, Kept
  <1>2. IInv /\ Kept /\ [Next]_vars => (IInv /\ Kept)'
    BY NextInv, NextKeeps
  <1>3. IInv /\ Kept => NoLeak
    BY KeptIsNoLeak
  <1> QED BY <1>1, <1>2, <1>3, PTL DEF Spec
=============================================================================
