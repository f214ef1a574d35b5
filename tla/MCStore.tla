------------------------------ MODULE MCStore ------------------------------
(* Scripts for Store: the calls of one are submitted, in every order.      *)
EXTENDS Store

Call(op, ids) == [op |-> op, ids |-> ids, out |-> {}, fails |-> FALSE]
Makes(op, ids, o) == [Call(op, ids) EXCEPT !.out = {o}]
MayFail(call) == [call EXCEPT !.fails = TRUE]
Failing(op, ids) == MayFail(Call(op, ids))

Workloads ==
    { \* writers and readers that meet on objects 1 and 2
      <<Call("put", {1}), MayFail(Makes("run", {1}, 2)), Call("snapshot", {1, 2}),
        Call("put", {2}), Call("restore", {1, 2})>>,
      \* two holders of leases on an object, a copy and a wipe
      <<Call("put", {1}), Makes("duplicate", {1}, 2), Call("send", {2}),
        Call("snapshot", {1, 2}), Call("wipe", {})>>,
      \* a restore that may fail, and everything that removes or pins an object
      <<Call("create", {1}), Call("send", {1}), Call("release", {1}),
        Call("protect", {1}), Failing("restore", {2})>>,
      \* jobs that may fail, with writes that wait for them
      <<Failing("put", {1}), Failing("snapshot", {1}), Call("put", {2}),
        Failing("restore", {2}), Call("wipe", {})>>,
      \* a restore that finds too little room
      <<Call("put", {3}), Call("restore", {1, 2}), Call("snapshot", {1}),
        Call("release", {3}), Call("put", {2})>> }

\* A write that meets the lease of a send.
WriteDuringSend == {<<Call("put", {1}), Call("send", {1}), Call("put", {1})>>}

ASSUME WorkloadsApart == LeasesApart
=============================================================================
