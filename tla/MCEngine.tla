------------------------------ MODULE MCEngine ------------------------------
(***************************************************************************)
(* Generators of coherent plans for TLC: programs are put together from    *)
(* the lives their objects lead, one deed per task.                        *)
(***************************************************************************)
EXTENDS Engine, TLC

CONSTANTS a, b, c

\* What a task may do with one object.
Deed == [in : BOOLEAN, mut : BOOLEAN, out : {"no", "fast", "backing"},
         rel : BOOLEAN, off : BOOLEAN, pre : BOOLEAN]

\* The deed named by a set of words.
Do(w) == [in  |-> "in" \in w \/ "mut" \in w, mut |-> "mut" \in w,
          out |-> IF "out" \in w THEN "fast" ELSE IF "outback" \in w THEN "backing" ELSE "no",
          rel |-> "rel" \in w, off |-> "off" \in w, pre |-> "pre" \in w]

\* A list of a set's members.
Listing(S) == CHOOSE s \in [1 .. Cardinality(S) -> S] : Range(s) = S

\* The residency predicted after deeds d_1 .. d_t, ignoring dead-everywhere.
After(r, d) ==
    LET ran == IF d.out # "no"
               THEN [fast |-> d.out = "fast", settled |-> d.out = "fast",
                     back |-> IF d.out = "fast" THEN "none" ELSE "current"]
               ELSE [fast |-> r.fast, settled |-> r.settled \/ d.in,
                     back |-> IF d.mut /\ r.back = "current" THEN "stale" ELSE r.back]
        ret == CASE d.rel -> [fast |-> FALSE, settled |-> FALSE, back |-> ran.back]
                 [] d.off -> [fast |-> FALSE, settled |-> FALSE, back |-> "current"]
                 [] OTHER -> ran
    IN  IF d.pre THEN [fast |-> TRUE, settled |-> FALSE, back |-> ret.back] ELSE ret

\* Deeds that are coherent for an object of residency r (born: it exists).
Legal(r, born) ==
    {d \in Deed :
        /\ d.in => r.fast
        /\ d.mut => d.in
        /\ d.out # "no" => ~ born
        /\ ~ (d.rel /\ (d.off \/ d.pre))
        /\ d.rel \/ d.off => \/ d.out = "fast"
                             \/ d.out = "no" /\ r.fast /\ (r.settled \/ d.in)
        /\ d.pre => \/ d.off
                    \/ d.out = "backing"
                    \/ d.out = "no" /\ ~ r.fast /\ r.back = "current"}

\* The sequences of n deeds a single object may go through from residency r.
RECURSIVE Lives(_, _, _)
Lives(r, born, n) ==
    IF n = 0 THEN {<<>>}
    ELSE UNION {{<<d>> \o l : l \in Lives(After(r, d), born \/ d.out # "no", n - 1)}
                  : d \in Legal(r, born)}

\* The program in which object o lives the life life[o].
ProgramOf(n, life, init, size, cap, final, clash) ==
    LET Who(t, P(_)) == {o \in Objects : P(life[o][t])} IN
    [n |-> n, size |-> size, cap |-> cap, init |-> init, final |-> final, clash |-> clash,
     inputs     |-> [t \in 1 .. n |-> Who(t, LAMBDA d : d.in)],
     mutates    |-> [t \in 1 .. n |-> Who(t, LAMBDA d : d.mut)],
     out        |-> [t \in 1 .. n |-> [l \in Locations |-> Who(t, LAMBDA d : d.out = l)]],
     releases   |-> [t \in 1 .. n |-> Who(t, LAMBDA d : d.rel)],
     offloads   |-> [t \in 1 .. n |-> Listing(Who(t, LAMBDA d : d.off))],
     prefetches |-> [t \in 1 .. n |-> Listing(Who(t, LAMBDA d : d.pre))]]

\* p with the residency its directives predict; plan covers 0 .. t - 1 so far.
RECURSIVE Predict(_, _, _)
Predict(p, plan, t) ==
    LET q == p @@ [plan |-> plan] IN
    IF t > p.n THEN q
    ELSE Predict(p, plan @@ (t :> [o \in Objects |-> Prefetched(q, t, o)]), t + 1)

WithPlan(p) ==
    Predict(p, 0 :> [o \in Objects |->
                       [fast |-> o \in p.init["fast"], settled |-> o \in p.init["fast"],
                        back |-> IF o \in p.init["backing"] THEN "current" ELSE "none"]], 1)

\* p with the objects its plan leaves in fast memory required there at the end.
KeepFast(p) ==
    LET q == WithPlan(p) IN
    WithPlan([p EXCEPT !.final["fast"] = {o \in Objects : q.plan[p.n][o].fast}])

At(fast, backing) == [l \in Locations |-> IF l = "fast" THEN fast ELSE backing]

InBacking == [fast |-> FALSE, settled |-> FALSE, back |-> "current"]

InBoth == [fast |-> TRUE, settled |-> TRUE, back |-> "current"]

Unborn == [fast |-> FALSE, settled |-> FALSE, back |-> "none"]

-----------------------------------------------------------------------------
\* a lives x, b lives y, c lives z.
Lived(x, y, z) == [o \in {a, b, c} |-> IF o = a THEN x ELSE IF o = b THEN y ELSE z]

Idle == <<Do({}), Do({}), Do({})>>

\* Every coherent plan of three tasks over an initial object a and an object b
\* of twice its size that the first task produces, with memory for both.
AmpleLives ==
    {<<"ample", x, y, Idle>> : x \in Lives(InBacking, TRUE, 3),
                               y \in {l \in Lives(Unborn, FALSE, 3) : l[1].out = "fast"}}

AmplePlan(x, y, z) ==
    KeepFast(ProgramOf(3, Lived(x, y, z), At({}, {a}), Lived(1, 2, 1), At(4, 4), At({}, {}), {}))

\* Lives of an object that stays clean and, if it is produced, is kept.
Clean(lives) ==
    {l \in lives : \A i \in DOMAIN l : /\ ~ l[i].mut /\ ~ l[i].off /\ l[i].out # "backing"
                                       /\ l[i].out = "fast" => ~ l[i].rel}

\* Three objects of which a and b are resident and backed at the start and c is
\* produced and kept, all clean throughout, in a fast memory that holds two of them:
\* the eviction valve's territory.
PressureLives ==
    LET Resident == Clean(Lives(InBoth, TRUE, 3))
        Made     == {l \in Clean(Lives(Unborn, FALSE, 3)) : \A i \in DOMAIN l : ~ l[i].rel}
    IN  {<<"pressure", x, y, z>> : x \in Resident, y \in Resident, z \in Made}

PressurePlan(x, y, z) ==
    WithPlan(ProgramOf(3, Lived(x, y, z), At({a, b}, {a, b}), Lived(1, 1, 1), At(2, 2),
                       At({}, {}), {}))

AllPlans ==
    {IF l[1] = "ample" THEN AmplePlan(l[2], l[3], l[4]) ELSE PressurePlan(l[2], l[3], l[4])
       : l \in AmpleLives \cup PressureLives}

-----------------------------------------------------------------------------
\* The two orders of a pair of clashing instances.
Clash(k, l) == {<<k, l>>, <<l, k>>}

Story(x, y, z, init, cap, final, clash) ==
    WithPlan(ProgramOf(Len(x), [o \in {a, b, c} |-> [t \in 1 .. Len(x) |-> Do(Lived(x, y, z)[o][t])]],
                       init, Lived(1, 1, 2), cap, final, clash))

\* Named situations, each the smallest plan in which it happens.
Scenarios ==
    { \* two prefetches strand the reservation of c: b is evicted and reloaded
      Story(<<{"pre"}, {"in", "rel"}, {}, {}>>, <<{"pre"}, {}, {"in"}, {}>>,
            <<{}, {"out"}, {"in", "off"}, {}>>, At({}, {a, b}), At(3, 4), At({}, {c}), {}),
      \* b's offload and its deferred prefetch wait for ever on a full backing
      \* memory; a is evicted and reloaded until the thrash guard trips
      Story(<<{}, {}, {"in"}>>, <<{"out", "off", "pre"}, {"in"}, {}>>, <<{}, {}, {}>>,
            At({a}, {a}), At(2, 1), At({}, {}), {}),
      \* the same plan with room: offload, deferred prefetch, use
      Story(<<{}, {}, {"in"}>>, <<{"out", "off", "pre"}, {"mut", "off"}, {}>>, <<{}, {}, {}>>,
            At({a}, {a}), At(2, 2), At({}, {b}), {}),
      \* c's offset is held by a, whose release comes later: c escapes
      Story(<<{"pre"}, {}, {"in", "rel"}>>, <<{}, {}, {}>>, <<{}, {"out"}, {"in"}>>,
            At({}, {a}), At(3, 3), At({c}, {}), Clash(<<a, 1>>, <<c, 1>>)),
      \* the head of the from_slow lane is refused a's offset: it escapes
      Story(<<{}, {}, {"in"}>>, <<{"pre"}, {"in"}, {}>>, <<{}, {}, {}>>,
            At({a}, {a, b}), At(2, 2), At({}, {}), Clash(<<a, 1>>, <<b, 1>>)),
      \* evicting a shifts its incarnations under a placement
      Story(<<{"pre"}, {}, {"in", "rel"}, {"pre"}, {"in"}>>, <<{}, {"out"}, {"in", "rel"}, {}, {}>>,
            <<{}, {"out"}, {"in", "rel"}, {}, {}>>, At({}, {a}), At(3, 3), At({a}, {}),
            Clash(<<a, 2>>, <<b, 1>>) \cup Clash(<<a, 3>>, <<c, 1>>)),
      \* a is mutated, written back and fetched again; b is born in backing
      Story(<<{"pre"}, {"mut", "off", "pre"}, {"mut"}, {"rel"}>>,
            <<{"outback", "pre"}, {}, {"in", "off"}, {}>>, <<{}, {}, {}, {}>>,
            At({}, {a}), At(2, 2), At({}, {}), {}),
      \* b does not fit beside a, initially
      Story(<<{}>>, <<{}>>, <<{}>>, At({a, b}, {}), At(1, 2), At({}, {}), {}),
      \* the offloads of b and c queue behind a backing memory with room for one
      Story(<<{}, {}, {}>>, <<{"out", "off"}, {}, {}>>, <<{"out", "off"}, {}, {}>>,
            At({}, {}), At(3, 2), At({}, {}), {}) }

=============================================================================
