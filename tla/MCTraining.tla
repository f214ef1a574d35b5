----------------------------- MODULE MCTraining -----------------------------
(* Training runs small enough to check: sources and packing policies on a   *)
(* one-byte model, and models, worlds and save policies on a trivial        *)
(* source.                                                                  *)
EXTENDS Training

LOCAL INSTANCE SequencesExt

MCLaunches == 1 .. 3

Geo(tokens, rounds, max, policy, split, mult) ==
    [tokens |-> tokens, rounds |-> rounds, max |-> max, policy |-> policy,
     split |-> split, mult |-> mult]

Root(elems, flat) == [elems |-> elems, item |-> 1, opt |-> 1, flat |-> flat]

\* A root whose optimizer elements are wider or narrower than its parameters
Mixed(elems, item, opt) == [elems |-> elems, item |-> item, opt |-> opt, flat |-> TRUE]

Shards(long, max) ==
    [kind |-> "shards", max |-> max, long |-> long, eots |-> {2, 8}, total |-> 12]

Windows == [kind |-> "window", max |-> 2, long |-> "whole", window |-> 2, total |-> 5]

Records(kind, long, max) ==
    [kind |-> kind, max |-> max, long |-> long, files |-> <<<<1, 5>>, <<3>>>>]

Capture == [kind |-> "capture", max |-> 3, long |-> "whole", lens |-> <<2, 1, 3, 1, 2>>]

Synthetic(long, lens) ==
    [kind |-> "synthetic", max |-> 2, long |-> long, lens |-> lens]

Base(src, geo) ==
    [src |-> src, geo |-> geo, counts |-> <<geo.rounds>>, steps |-> 3, every |-> 1,
     keep |-> 1, model |-> <<Root(1, TRUE)>>, mode |-> "co", policy |-> "simple",
     private |-> FALSE, anyway |-> FALSE, overlap |-> FALSE, faults |-> {"crash", "ingest"}]

\* Sources and policies of packing
StreamScenarios ==
    {Base(Shards("whole", 2), Geo(3, 2, 2, "greedy", TRUE, 1)),
     Base(Shards("chunk", 2), Geo(3, 1, 2, "greedy", FALSE, 1)),
     Base(Windows, Geo(4, 1, 2, "greedy", FALSE, 1)),
     Base(Records("records", "chunk", 3), Geo(3, 1, 3, "ffd", FALSE, 2)),
     Base(Records("parquet", "trim", 3), Geo(4, 1, 3, "greedy", FALSE, 1)),
     Base(Capture, Geo(3, 1, 3, "ffd", FALSE, 1)),
     Base(Synthetic("exclude", <<2, 3, 1>>), Geo(3, 1, 2, "ffd", FALSE, 2)),
     Base(Records("records", "whole", 3), Geo(3, 1, 3, "greedy", FALSE, 1)),
     Base([Shards("chunk", 2) EXCEPT !.eots = {}], Geo(3, 1, 2, "greedy", FALSE, 1))}

Saved(model, counts, mode, policy, strikes) ==
    [Base(Synthetic("trim", <<1, 2>>), Geo(2, FoldLeft(LAMBDA n, k : n + k, 0, counts), 2, "greedy", FALSE, 1)) EXCEPT
        !.counts = counts, !.steps = 2, !.model = model, !.mode = mode,
        !.policy = policy, !.private = TRUE, !.faults = strikes]

\* Models, worlds and save policies
SaveScenarios ==
    {Saved(<<Root(3, TRUE), Root(2, FALSE)>>, <<1, 1>>, "zero1rs", "simple",
           {"crash", "snapshot", "drift"}),
     Saved(<<Root(5, TRUE), Root(1, FALSE)>>, <<1, 1>>, "zero1rs", "dedup", {"daemon", "timeout"}),
     Saved(<<Root(2, TRUE), Root(1, TRUE)>>, <<1, 1, 1>>, "co", "dedup", {"snapshot"}),
     Saved(<<Root(1, TRUE), Root(2, TRUE)>>, <<2, 1>>, "co", "simple", {"daemon", "timeout"}),
     Saved(<<Mixed(3, 1, 2)>>, <<1, 1>>, "zero1rs", "simple", {"crash"}),
     Saved(<<Mixed(3, 1, 2)>>, <<1, 1>>, "zero1rs", "dedup", {}),
     Saved(<<Mixed(3, 2, 1)>>, <<1, 1>>, "zero1rs", "dedup", {})}

\* A second launch while the first is still there
OverlapScenarios ==
    {[Saved(<<Root(1, TRUE)>>, <<1>>, "co", "simple", {}) EXCEPT !.overlap = TRUE]}

\* The same, too short to save
RefusedScenarios == {[c EXCEPT !.every = 2] : c \in OverlapScenarios}

\* Launched anew, from the newest checkpoint, or from any step, over whatever
\* the earlier launches left
AgainScenarios ==
    {[Saved(<<Root(2, TRUE)>>, <<1, 1>>, "zero1rs", "simple", {"snapshot"}) EXCEPT
        !.steps = 3, !.keep = 0, !.anyway = TRUE],
     [Saved(<<Root(1, TRUE)>>, <<1>>, "co", "simple", {"crash"}) EXCEPT
        !.steps = 3, !.anyway = TRUE]}

AllScenarios ==
    StreamScenarios \cup SaveScenarios \cup OverlapScenarios \cup RefusedScenarios
      \cup AgainScenarios
=============================================================================
