--------------------------- MODULE MCTransaction ----------------------------
(***************************************************************************)
(* Three units and, between them, the dependencies, states, installed jobs *)
(* and requests of a few families of situations.                           *)
(***************************************************************************)
EXTENDS Transaction, TLC

CONSTANTS a, b, c

ABC == {a, b, c}

Dep(f) == [d \in Dependencies |-> IF d \in DOMAIN f THEN f[d] ELSE {}]
Trait(f) == [t \in Traits |-> IF t \in DOMAIN f THEN f[t] ELSE {}]
World(f, g, states, installed, t, u, m) ==
  [dep |-> Dep(f), trait |-> Trait(g), ustate |-> states, job |-> installed,
   type |-> t, unit |-> u, mode |-> m]

NoJobs == [u \in ABC |-> None]
Queued(t, irreversible) == [type |-> t, irreversible |-> irreversible, ignore_order |-> FALSE]
Down == [u \in ABC |-> "inactive"]
Up == [u \in ABC |-> "active"]

\* Requirements against conflicts: what is pulled in contradicts itself, or what is
\* running or queued.
Contradictions ==
  {World(("requires" :> r) @@ ("wants" :> n) @@ ("conflicts" :> x), <<>>,
         (a :> "inactive") @@ (b :> sb) @@ (c :> sc), (a :> None) @@ (b :> None) @@ (c :> j), t, a, m) :
     r \in SUBSET {<<a, b>>, <<b, c>>}, n \in SUBSET {<<a, c>>, <<c, b>>},
     x \in SUBSET {<<b, c>>, <<c, b>>, <<c, a>>}, sb \in {"inactive", "active"},
     sc \in {"active", "deactivating"},
     j \in {None, Queued("start", FALSE), Queued("stop", TRUE)},
     t \in {"start", "restart"}, m \in {"fail", "replace"}}

\* Ordering cycles, some of them through installed jobs.
Cycles ==
  {World(("requires" :> r) @@ ("wants" :> n) @@ ("before" :> o) @@ ("conflicts" :> x), <<>>,
         (a :> "inactive") @@ (b :> "inactive") @@ (c :> s), (a :> None) @@ (b :> None) @@ (c :> j), t, a, m) :
     r \in SUBSET {<<a, b>>, <<b, c>>}, n \in SUBSET {<<a, b>>, <<b, c>>},
     x \in SUBSET {<<a, c>>},
     o \in {{<<a, b>>, <<b, a>>}, {<<a, b>>, <<b, c>>, <<c, a>>}, {<<b, c>>, <<c, b>>, <<a, c>>}},
     s \in {"inactive", "active"},
     j \in {None, Queued("start", FALSE)},
     t \in {"start", "restart"}, m \in {"replace", "ignore-dependencies"}}

\* Stopping, restarting and reloading, and what they propagate to.
Propagation ==
  {World(("requires" :> r) @@ ("part_of" :> p) @@ ("stops" :> {<<a, c>>}) @@ ("following" :> f)
           @@ ("reloads" :> {<<a, b>>, <<a, c>>}),
         ("perpetual" :> k) @@ ("no_reload" :> {c}) @@ ("no_restart" :> k), st, NoJobs, t, a, m) :
     r \in SUBSET {<<b, a>>}, p \in SUBSET {<<c, a>>, <<c, b>>},
     f \in {{}, {<<a, b>>, <<b, a>>}}, k \in {{}, {b}, {c}},
     st \in {Up, Down, (a :> "active") @@ (b :> "reloading") @@ (c :> "inactive")},
     t \in RequestTypes, m \in {"replace-irreversibly", "fail"}}

\* Isolating a unit, stopping the units that trigger one, and flushing.
Sweeps ==
  {World(("requires" :> r) @@ ("triggers" :> g), ("perpetual" :> k) @@ ("ignore_on_isolate" :> i)
            @@ ("no_isolate" :> n), st, (a :> None) @@ (b :> None) @@ (c :> j), q[1], a, q[2]) :
     r \in SUBSET {<<a, b>>, <<c, b>>}, g \in {{}, {<<b, a>>}, {<<b, c>>, <<c, a>>}},
     k \in SUBSET {b}, i \in SUBSET {c}, n \in SUBSET {a},
     st \in {Up, (a :> "active") @@ (b :> "active") @@ (c :> "inactive")},
     j \in {None, Queued("start", FALSE)},
     q \in {<<"start", "isolate">>, <<"stop", "isolate">>, <<"stop", "triggering">>,
            <<"start", "triggering">>, <<"stop", "flush">>}}

\* A unit that is restarted is also pulled in to be started.
Restarts ==
  {World(("requires" :> r) @@ ("before" :> o) @@ ("wants" :> n), <<>>, Up, NoJobs, t, a, "replace") :
     r \in SUBSET {<<b, a>>, <<c, a>>, <<b, c>>}, n \in SUBSET {<<b, c>>, <<c, a>>},
     o \in {{<<a, b>>, <<b, a>>}, {<<a, b>>}, {<<b, c>>, <<c, b>>}},
     t \in {"restart", "stop"}}

\* Units that cannot be loaded, behind requirements and wishes.
Missing ==
  {World(("requires" :> r) @@ ("wants" :> n) @@ ("requisite" :> v), ("missing" :> x) @@ ("no_isolate" :> {b}),
         Down, NoJobs, "start", u, m) :
     r \in SUBSET {<<a, b>>, <<b, c>>}, n \in SUBSET {<<a, b>>, <<b, c>>},
     v \in SUBSET {<<a, c>>}, x \in {{b}, {c}}, u \in {a, b},
     m \in {"replace", "ignore-requirements", "isolate"}}

AllFamilies == {Contradictions, Cycles, Propagation, Sweeps, Restarts, Missing}
OnlyMissing == {Missing}
OnlyRestarts == {Restarts}
OnlyIsolate == {{x \in Sweeps : x.mode = "isolate"}}
=============================================================================
