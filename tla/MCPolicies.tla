----------------------------- MODULE MCPolicies -----------------------------
(* Four-task chains in three families: reuse of two backing objects around  *)
(* two outputs, a family whose first plans do not survive replay, and        *)
(* longer chains with more reuse for the policies other than pressurefit.    *)
EXTENDS Policies

Chain4(ins, muts, outs, sizes, runs, scratch, held, cap, ends, out) ==
  [tasks |-> [i \in 1 .. Len(ins) |-> Task(ins[i], muts \cap ins[i], outs[i], runs[i], scratch[i])],
   size |-> sizes, location |-> [o \in DOMAIN sizes |-> "fast"],
   fast |-> {}, backing |-> held, final |-> ends,
   capacity |-> cap, backingCapacity |-> 20, inbound |-> 1, outbound |-> out]

Nowhere == [o \in {} |-> "fast"]

Reuse(scratch, caps) ==
  {Chain4(<<a, b, c, d>>, m, <<{3}, {4}, {}, {}>>, <<1, 2, 1, 1>>, <<1, 2, 1, 3>>, scratch,
          {1, 2}, k, f, 1) :
     a \in {{1}, {1, 2}}, b \in {{2}, {1, 3}}, c \in {{1, 4}, {2, 4}},
     d \in {{1, 3}, {2, 3}}, m \in {{}, {1}}, k \in caps,
     f \in {Nowhere, [o \in {1} |-> "backing"], [o \in {2} |-> "fast"]}}

Contended(scratch) ==
  {Chain4(<<a, b, c, d>>, m, <<{4}, {}, {5}, {}>>, <<1, 2, 1, 2, 2>>, <<2, 1, 1, 3>>, scratch,
          {1, 2, 3}, 5, Nowhere, out) :
     a \in {{3}, {1, 3}}, b \in {{1}, {2}}, c \in {{}, {1}}, d \in {{2, 3}, {2, 4}},
     m \in {{}, {2}}, out \in {1, 2}}

Longer ==
  {Chain4(<<{1}, {2}, a, b, d, {1}>>, m, <<{4}, {5}, {}, {}, {}, {}>>, <<1, 2, 2, 1, 1>>,
          <<1, 2, 1, 2, 1, 1>>, <<0, 0, 0, 0, 0, 0>>, {1, 2, 3}, k, Nowhere, 1) :
     a \in {{3}, {1, 3}}, b \in {{4}, {2, 4}}, d \in {{3, 5}, {2, 5}},
     m \in {{}, {1, 2}}, k \in {5, 6}}

Shrinkable ==
  {Chain4(<<a, {1}, b, d>>, m, <<{4}, {5}, {}, {6}>>, <<2, 2, 1, 1, 1, 2>>, <<1, 2, 2, 1>>,
          <<0, 0, 0, 0>>, {1, 2, 3}, k, Nowhere, 1) :
     a \in {{}, {3}}, b \in {{3}, {2}}, d \in {{4}, {2, 4}, {3, 4}}, m \in {{}, {4}}, k \in {4, 5}}

Squeezed == Reuse(<<0, 1, 0, 1>>, {4})

Scratchless == Contended(<<0, 0, 0, 0>>)

AllWorkloads ==
  Reuse(<<0, 0, 0, 0>>, {4}) \cup Squeezed \cup Contended(<<1, 0, 1, 0>>) \cup Scratchless
    \cup Shrinkable \cup Longer

WithScratch == Squeezed \cup Contended(<<1, 0, 1, 0>>)

Unwritten(c) == \A i \in DOMAIN c.tasks : c.tasks[i].mutates = {}

Rebuilding == {"belady_reactive", "roundtrip_planner"}

SuitsAll(p, c) ==
  /\ p # "pressurefit" => c.final = Nowhere
  /\ p = "pressurefit" => c \notin Shrinkable
  /\ p \in {"pressurefit", "min_grow"} => c \notin Longer
  /\ p \in {"max_reduce", "min_grow"} => c \notin Squeezed
  /\ p \in Rebuilding => Unwritten(c) /\ MaxWorkspace(c) = 0
  /\ p \notin Rebuilding => c \notin Scratchless

SuitsAny(p, c) == c.final = Nowhere /\ Unwritten(c)

BothWays(c) == {Ascending(Objects(c)), Reverse(Ascending(Objects(c)))}
=============================================================================
