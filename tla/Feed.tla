------------------------------- MODULE Feed -------------------------------
(***************************************************************************)
(* Where training data comes from (dataflow_training/data/sources): every  *)
(* source is a generator of sequences that hands out, with each sequence,  *)
(* the cursor a later process resumes from.  A sequence is a span of       *)
(* tokens of one document; the token ids themselves never matter here.     *)
(*                                                                         *)
(* A corpus is a list of files of documents; a document is its number of   *)
(* tokens.  The kinds differ in how they cut documents and in the cursor   *)
(* they leave behind:                                                      *)
(*   "shards"     documents between the delimiters of one token stream     *)
(*   "window"     fixed windows over that stream, wrapping around          *)
(*   "records"    the records of jsonl and text files                      *)
(*   "parquet"    the rows of parquet files                                *)
(*   "capture"    the sequences an earlier run handed out, once            *)
(*   "synthetic"  the k-th sequence made from the seed and k               *)
(***************************************************************************)
EXTENDS Integers, Sequences, FiniteSets, FiniteSetsExt

LOCAL INSTANCE SequencesExt

Span(doc, lo, hi) == [doc |-> doc, lo |-> lo, hi |-> hi]

Length(seq) == seq.hi - seq.lo

\* The consecutive chunks of at most size tokens of the first n tokens
Chunks(doc, lo, n, size) ==
    [i \in 1 .. (n + size - 1) \div size |->
        Span(doc, lo + (i - 1) * size, lo + Min({i * size, n}))]

\* A document of n tokens as the sequences the long policy makes of it
Pieces(src, doc, lo, n) ==
    CASE n < 1 -> <<>>
      [] n >= 1 /\ n <= src.max -> <<Span(doc, lo, lo + n)>>
      [] n >= 1 /\ n > src.max ->
            CASE src.long = "exclude" -> <<>>
              [] src.long = "trim" -> <<Span(doc, lo, lo + src.max)>>
              [] src.long = "whole" -> <<Span(doc, lo, lo + n)>>
              [] src.long = "chunk" -> Chunks(doc, lo, n, src.max)

----------------------------------------------------------------------------
(* The shards of a split are one circular stream of tokens; a document is  *)
(* what lies between two delimiters, the prefix before the first included. *)

DocCount(src) == Cardinality(src.eots) + 1

\* The m-th delimiter, from 0
Delimiter(src, m) ==
    CHOOSE e \in src.eots : Cardinality({d \in src.eots : d < e}) = m

DocSpan(src, m) ==
    [lo |-> IF m = 0 THEN 0 ELSE Delimiter(src, m - 1) + 1,
     hi |-> IF m < Cardinality(src.eots) THEN Delimiter(src, m) ELSE src.total]

PiecesOfSpan(src, s) == Pieces(src, "stream", s.lo, s.hi - s.lo)

DocPieces(src, m) == PiecesOfSpan(src, DocSpan(src, m))

\* Targets are read one token past the span: a span as long as the whole
\* stream cannot be read
Unreadable(src) ==
    \/ /\ src.kind = "shards"
       /\ src.eots = {}
       /\ src.total <= src.max \/ src.long # "exclude"
    \/ /\ src.kind = "window"
       /\ src.window + 1 > src.total

----------------------------------------------------------------------------
(* Documents, records and rows are walked the same way: file by file, item *)
(* by item, piece by piece, around and around.                             *)

Walked == {"shards", "records", "parquet"}

\* The files of a corpus, each the list of its items, each the list of its
\* pieces
Files(src) ==
    IF src.kind = "shards"
    THEN <<[m \in 1 .. DocCount(src) |-> DocPieces(src, m - 1)]>>
    ELSE [f \in 1 .. Len(src.files) |->
            [r \in 1 .. Len(src.files[f]) |->
                Pieces(src, <<f - 1, r - 1>>, 0, src.files[f][r])]]

\* How many items come before file f, counted from 0
Offset(files, f) == Len(FlattenSeq(SubSeq(files, 1, f)))

\* The file of the item at place k of the walk
FileOf(files, k) ==
    CHOOSE f \in 0 .. Len(files) - 1 :
        Offset(files, f) <= k /\ k < Offset(files, f + 1)

\* A cursor is <<>> at the beginning and <<c>> once something was handed out
BeginWalk(files, cursor) ==
    IF cursor = <<>> THEN [at |-> 0, piece |-> 0]
    ELSE [at |-> (Offset(files, cursor[1].file) + cursor[1].item)
                    % Len(FlattenSeq(files)),
          piece |-> cursor[1].piece]

\* The cursor left behind by the last piece of the r-th item of file f
AfterItem(src, files, f, r) ==
    CASE src.kind = "shards" ->
            [file |-> 0, item |-> (r + 1) % Len(files[1]), piece |-> 0]
      [] src.kind = "records" ->
            [file |-> IF r + 1 < Len(files[f + 1]) THEN f ELSE (f + 1) % Len(files),
             item |-> IF r + 1 < Len(files[f + 1]) THEN r + 1 ELSE 0,
             piece |-> 0]
      [] src.kind = "parquet" -> [file |-> f, item |-> r + 1, piece |-> 0]

\* The cursor left behind by piece i of the item at place k
CursorAfter(src, files, k, f, i, pieces) ==
    IF i + 1 < Len(pieces)
    THEN [file |-> f, item |-> k - Offset(files, f), piece |-> i + 1]
    ELSE AfterItem(src, files, f, k - Offset(files, f))

\* The pieces of the item d places on that are still to come
Unseen(items, gen, d) ==
    Len(items[((gen.at + d) % Len(items)) + 1]) > (IF d = 0 THEN gen.piece ELSE 0)

Yields(src, files, items, k, i) ==
    [seq    |-> items[k + 1][i + 1],
     cursor |-> CursorAfter(src, files, k, FileOf(files, k), i, items[k + 1]),
     gen    |-> [at |-> k, piece |-> i + 1]]

\* What a walk yields next; a corpus with nothing to yield is walked forever
DrawWalk(src, files, items, gen) ==
    {Yields(src, files, items, (gen.at + d) % Len(items),
            IF d = 0 THEN gen.piece ELSE 0) :
        d \in {d \in 0 .. Len(items) :
                 /\ Unseen(items, gen, d)
                 /\ \A e \in 0 .. d - 1 : ~Unseen(items, gen, e)}}

----------------------------------------------------------------------------
(* The sources that are not walked                                         *)

DrawWindow(src, pos) ==
    {[seq    |-> Span("stream", pos, pos + src.window),
      cursor |-> (pos + src.window) % src.total,
      gen    |-> (pos + src.window) % src.total]}

\* The one source that ends
DrawCapture(src, rec) ==
    {[seq |-> Span(rec, 0, src.lens[rec + 1]), cursor |-> rec + 1, gen |-> rec + 1] :
        r \in {r \in {rec} : r < Len(src.lens)}}

\* The tokens of sequence k: drawn from the seed and k, cut to fit
Made(src, k) ==
    IF src.long \in {"trim", "chunk"}
    THEN Min({src.lens[(k % Len(src.lens)) + 1], src.max})
    ELSE src.lens[(k % Len(src.lens)) + 1]

Kept(src, k) == src.long # "exclude" \/ Made(src, k) <= src.max

DrawSynthetic(src, k) ==
    {[seq |-> Span(j, 0, Made(src, j)), cursor |-> j + 1, gen |-> j + 1] :
        j \in {j \in k .. k + Len(src.lens) - 1 :
                 Kept(src, j) /\ \A i \in k .. j - 1 : ~Kept(src, i)}}

----------------------------------------------------------------------------
(* Every source                                                            *)

\* source.sequences(cursor): a generator positioned at the cursor
Generator(src, cursor) ==
    IF src.kind \in Walked THEN BeginWalk(Files(src), cursor)
    ELSE IF cursor = <<>> THEN 0 ELSE cursor[1]

\* The next yield, at most one: the sequence, the cursor that resumes after
\* it, and the generator itself, moved on
Draw(src, gen) ==
    CASE src.kind \in Walked ->
            DrawWalk(src, Files(src), FlattenSeq(Files(src)), gen)
      [] src.kind = "window" -> DrawWindow(src, gen)
      [] src.kind = "capture" -> DrawCapture(src, gen)
      [] src.kind = "synthetic" -> DrawSynthetic(src, gen)

Ends(src) == src.kind = "capture"

-----------------------------------------------------------------------------
(***************************************************************************)
(* From sequences to the batch of one optimizer step                       *)
(* (dataflow_training/data/feed.py and packer.py).                         *)
(*                                                                         *)
(* A DataFeed is a bounded queue an ingest thread fills from the source, a *)
(* front line of sequences the packer gave back, and the cursor after the  *)
(* last sequence handed out.  A Packer takes sequences one at a time until *)
(* the rounds of a step are made; what did not fit goes back to the feed   *)
(* and rides in the cursor of the step.                                    *)
(***************************************************************************)
(***************************************************************************)
(* The feed of a source at a cursor [source, requeued].                    *)
(*   gen      the ingest thread's generator                                *)
(*   queue    what it has prefetched: [seq, cursor] items, or STOP         *)
(*   worker   "running", "ended" (STOP is queued), "failed" (so is STOP)   *)
(*   pending  given back by the packer, first in line                      *)
(*   at       the source cursor after the last sequence handed out         *)
(***************************************************************************)
NewFeed(src, cursor) ==
    [src |-> src, gen |-> Generator(src, cursor.source), queue |-> <<>>,
     worker |-> "running", pending |-> cursor.requeued, at |-> cursor.source]

Beginning == [source |-> <<>>, requeued |-> <<>>]

\* The sentinel the ingest thread queues after its last sequence
Stop == [seq |-> <<>>]

IsStop(item) == item.seq = <<>>

\* The ingest thread queues one more sequence; a full queue makes it wait
Ingest(feed) ==
    {[feed EXCEPT !.gen = d.gen,
                  !.queue = Append(@, [seq |-> <<d.seq>>, cursor |-> d.cursor])] :
        d \in IF Unreadable(feed.src) THEN {} ELSE Draw(feed.src, feed.gen)}

\* A finite source is exhausted
IngestEnds(feed) ==
    {[feed EXCEPT !.queue = Append(@, Stop), !.worker = "ended"] :
        x \in {x \in {0} : Ends(feed.src) /\ Draw(feed.src, feed.gen) = {}}}

\* Reading or tokenizing raised: the error is parked, then STOP is queued
IngestFails(feed) ==
    [feed EXCEPT !.queue = Append(@, Stop), !.worker = "failed"]

\* What the ingest thread does next by itself
IngestNext(feed) ==
    Ingest(feed) \cup IngestEnds(feed)
        \cup (IF Unreadable(feed.src) THEN {IngestFails(feed)} ELSE {})

\* next_sequence: the front line first, then the queue.  A sequence may be
\* taken, the stream may have ended, or the caller waits.
Ready(feed) == feed.pending # <<>> \/ feed.queue # <<>>

AtStop(feed) == feed.pending = <<>> /\ feed.queue # <<>> /\ IsStop(Head(feed.queue))

NextSequence(feed) ==
    IF feed.pending # <<>> THEN Head(feed.pending) ELSE Head(feed.queue).seq[1]

Taken(feed) ==
    IF feed.pending # <<>> THEN [feed EXCEPT !.pending = Tail(@)]
    ELSE [feed EXCEPT !.at = <<Head(feed.queue).cursor>>, !.queue = Tail(@)]

Requeue(feed, seqs) == [feed EXCEPT !.pending = seqs \o @]

\* The resume point: prefetched sequences are derived again, requeued ones
\* travel with the cursor
Cursor(feed) == [source |-> feed.at, requeued |-> feed.pending]

----------------------------------------------------------------------------
(* Packing.  geo is the run's geometry: tokens per round, rounds, the      *)
(* longest segment, the policy, whether sequences may be split at a round  *)
(* edge, and how many step budgets the window looks ahead.                 *)

NewPack(geo) ==
    [rounds |-> <<>>, placed |-> <<>>, room |-> geo.tokens, carry |-> <<>>,
     window |-> <<>>]

\* ---- greedy, with or without splitting at the round edge

CloseRound(geo, p) ==
    [p EXCEPT !.rounds = Append(@, p.placed), !.placed = <<>>, !.room = geo.tokens]

CloseIfFull(geo, p) == IF p.room = 0 THEN CloseRound(geo, p) ELSE p

Oversized(geo, seq) == ~geo.split /\ Length(seq) > geo.tokens

\* The head of seq fills the round, in segments that restart with the round
SplitHead(geo, p, seq, take) ==
    CloseIfFull(geo, [p EXCEPT !.placed = @ \o Chunks(seq.doc, seq.lo, take, geo.max),
                               !.room = @ - take])

RECURSIVE Place(_, _, _)
Place(geo, p, seq) ==
    IF Len(p.rounds) = geo.rounds THEN [p EXCEPT !.carry = <<seq>>]
    ELSE IF geo.split
    THEN IF Length(seq) <= p.room
         THEN SplitHead(geo, p, seq, Length(seq))
         ELSE Place(geo, SplitHead(geo, p, seq, p.room),
                    Span(seq.doc, seq.lo + p.room, seq.hi))
    ELSE IF Length(seq) > p.room
    THEN Place(geo, CloseRound(geo, p), seq)
    ELSE CloseIfFull(geo, [p EXCEPT !.placed = Append(@, seq),
                                    !.room = @ - Length(seq)])

\* ---- first-fit-decreasing over a window

Tokens(seqs) == FoldLeft(LAMBDA n, s : n + Length(s), 0, seqs)

Longer(window, j, i) ==
    \/ Length(window[j]) > Length(window[i])
    \/ Length(window[j]) = Length(window[i]) /\ j < i

\* Longest first, ties in the order they were pulled
Decreasing(window) ==
    [k \in 1 .. Len(window) |->
        CHOOSE i \in 1 .. Len(window) :
            Cardinality({j \in 1 .. Len(window) : Longer(window, j, i)}) = k - 1]

Filled(window, bin) == FoldLeft(LAMBDA n, i : n + Length(window[i]), 0, bin)

\* Window item i goes into the first bin with room for it, if any has
FirstFit(geo, window, bins, i) ==
    LET fits == {b \in 1 .. geo.rounds :
                    Filled(window, bins[b]) + Length(window[i]) <= geo.tokens}
    IN  IF fits = {} THEN bins ELSE [bins EXCEPT ![Min(fits)] = Append(@, i)]

Bins(geo, window) ==
    FoldLeft(LAMBDA bins, i : FirstFit(geo, window, bins, i),
             [b \in 1 .. geo.rounds |-> <<>>], Decreasing(window))

\* What fits nowhere goes back in the order it was pulled
Leftover(window, binned) ==
    FoldLeft(LAMBDA back, i : IF i \in binned THEN back ELSE Append(back, window[i]),
             <<>>, [i \in 1 .. Len(window) |-> i])

\* ---- one step, whichever the policy

StepMade(geo, p) ==
    IF geo.policy = "greedy" THEN Len(p.rounds) = geo.rounds
    ELSE Tokens(p.window) >= geo.mult * geo.rounds * geo.tokens

Absorb(geo, p, seq) ==
    IF geo.policy = "greedy" THEN Place(geo, p, seq)
    ELSE [p EXCEPT !.window = Append(@, seq)]

PackedFrom(window, bins) ==
    [rounds |-> [b \in DOMAIN bins |-> [k \in DOMAIN bins[b] |-> window[bins[b][k]]]],
     back   |-> Leftover(window, UNION {ToSet(bins[b]) : b \in DOMAIN bins})]

\* Fault seeded for EachTokenOnce: what is left of a split sequence is dropped
PackedDropCarry(geo, p) ==
    IF geo.policy = "greedy" THEN [rounds |-> p.rounds, back |-> <<>>]
    ELSE PackedFrom(p.window, Bins(geo, p.window))

Packed(geo, p) ==
    IF geo.policy = "greedy" THEN [rounds |-> p.rounds, back |-> p.carry]
    ELSE PackedFrom(p.window, Bins(geo, p.window))
=============================================================================
