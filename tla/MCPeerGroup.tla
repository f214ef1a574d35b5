---------------------------- MODULE MCPeerGroup ----------------------------
(* Pairs that run collectives, by socket or RDMA, with streams that park or  *)
(* callers that spin, with a link that may break and a lane that may be      *)
(* demoted; a star of three without a device, for the barrier and the        *)
(* fan-out of errors; one with a device, which hostmem refuses.              *)
EXTENDS PeerGroup

Pair(parks, rdma, breakable) ==
  [world |-> 2, fake |-> FALSE, parks |-> parks, rdma |-> rdma, demotes |-> FALSE,
   unattachable |-> {}, breakable |-> breakable]

Star(fake, unattachable, breakable) ==
  [world |-> 3, fake |-> fake, parks |-> TRUE, rdma |-> "none", demotes |-> FALSE,
   unattachable |-> unattachable, breakable |-> breakable]

Op(verb, root) == [verb |-> verb, root |-> root]

Sums == <<Op("allreduce", 0), Op("allreduce", 0)>>
Rooted == <<Op("broadcast", 1), Op("reduce", 0)>>
Sharded == <<Op("reduce_scatter", 0), Op("all_gather", 0)>>

Fleet(b, p) == [boot |-> b, prog |-> p]

AllFleets ==
  {Fleet(Pair(TRUE, "none", {}), Sums), Fleet(Pair(TRUE, "up", {}), Sums),
   Fleet(Pair(FALSE, "coming", {}), <<Op("allreduce", 0)>>),
   Fleet([Pair(FALSE, "coming", {}) EXCEPT !.demotes = TRUE], <<Op("broadcast", 0)>>),
   Fleet([Pair(TRUE, "coming", {}) EXCEPT !.demotes = TRUE], <<Op("allreduce", 0)>>),
   Fleet(Pair(TRUE, "none", {1}), Rooted),
   Fleet(Pair(FALSE, "none", {}), Sharded),
   Fleet(Star(TRUE, {}, {1}), <<>>), Fleet(Star(TRUE, {1}, {2}), <<>>),
   Fleet(Star(FALSE, {}, {}), <<>>)}
=============================================================================
