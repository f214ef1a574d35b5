----------------------------- MODULE MCService -----------------------------
(* Two clients: a driver that runs programs and a monitor that watches,      *)
(* cancels or shuts the daemon down. Each pair of scripts sets one hazard:   *)
(* a subscription against a run's events, one cancel against two runs (the   *)
(* first of which may leave its record "running"), a shutdown against a      *)
(* queued call.                                                              *)
EXTENDS Service

R(op, arg) == [op |-> op, arg |-> arg]

Pair(d, m) == [driver |-> d, monitor |-> m]

AllScripts ==
  {Pair(<<R("run", "ok")>>, <<R("subscribe", 0), R("cancel", 1)>>),
   Pair(<<R("run", "ok"), R("run", "ok")>>, <<R("cancel", 1)>>),
   Pair(<<R("run", "badfetch"), R("run", "fails")>>, <<R("cancel", 1)>>),
   Pair(<<R("run", "fails")>>, <<R("status", 0), R("subscribe", 2)>>),
   Pair(<<R("run", "unbound"), R("hold", 0)>>, <<R("shutdown", 0)>>),
   Pair(<<R("run", "unplaced")>>, <<R("subscribe", 0), R("shutdown", 0)>>)}
=============================================================================
