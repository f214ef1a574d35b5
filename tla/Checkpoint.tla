---------------------------- MODULE Checkpoint ----------------------------
(***************************************************************************)
(* What a training checkpoint holds and how it is read back: who saves     *)
(* which bytes (distributed/responsibility.py, distributed/source_policy.  *)
(* py), the record that makes the snapshots of all ranks one checkpoint    *)
(* (dataflow/checkpoint/compose.py, record.py), and the plans that restore *)
(* it (dataflow/checkpoint/targets.py).                                    *)
(*                                                                         *)
(* A model is a sequence of parameter roots [elems, item, opt, flat]: the  *)
(* number of elements, the bytes of a parameter and of an optimizer        *)
(* element, and whether one flat update fits the whole root.  An object's  *)
(* id is <<role, root>>: "W" the parameters of a root, "O" their optimizer *)
(* state, "X" state private to a rank.  An object is a sequence of bytes;  *)
(* a range [lo, hi) is <<lo, hi>>; a hash is modelled by the bytes it is   *)
(* taken of.                                                               *)
(***************************************************************************)
EXTENDS Integers, Sequences, FiniteSets, FiniteSetsExt

LOCAL INSTANCE SequencesExt

CONSTANT Align    \* the boundary packed fields are aligned to

ASSUME AlignAssumption == Align \in Nat \ {0}

Size(r) == r[2] - r[1]

Within(bytes, r) == SubSeq(bytes, r[1] + 1, r[2])

Aligned(n) == ((n + Align - 1) \div Align) * Align

Roots(model) == 1 .. Len(model)

Ranks(world) == 0 .. world - 1

WBytes(root) == root.elems * root.item

----------------------------------------------------------------------------
(* Who is responsible for which bytes of the parameters                    *)

Share(rank, lo, hi) == [rank |-> rank, range |-> <<lo, hi>>]

\* A flat split of n elements: an equal slice per rank, and the remainder
SliceOf(root, world) == root.elems \div world

TailOf(root, world) == root.elems % world

\* Parameter bytes are split where the optimizer's flat slices are; the last
\* rank takes the remainder too
FlatShares(root, world) ==
    {Share(r, r * SliceOf(root, world) * root.opt,
           ((r + 1) * SliceOf(root, world)
              + (IF r = world - 1 THEN TailOf(root, world) ELSE 0)) * root.opt) :
        r \in Ranks(world)}

\* Largest root first
BySize(model) ==
    [k \in Roots(model) |->
        CHOOSE i \in Roots(model) :
            k - 1 = Cardinality({j \in Roots(model) :
                                   \/ WBytes(model[j]) > WBytes(model[i])
                                   \/ WBytes(model[j]) = WBytes(model[i]) /\ j < i})]

LeastLoaded(loads) ==
    Min({r \in DOMAIN loads : \A q \in DOMAIN loads : loads[r] <= loads[q]})

Assign(model, acc, i, r) ==
    [loads |-> [acc.loads EXCEPT ![r] = @ + WBytes(model[i])],
     plan  |-> [acc.plan EXCEPT ![i] = {Share(r, 0, WBytes(model[i]))}]]

\* One rank saves each whole root, the least loaded so far
Primaries(model, world) ==
    FoldLeft(LAMBDA acc, i : Assign(model, acc, i, LeastLoaded(acc.loads)),
             [loads |-> [r \in Ranks(world) |-> 0], plan |-> [i \in Roots(model) |-> {}]],
             BySize(model)).plan

ResponsibilityMap(model, world, mode) ==
    IF world > 1 /\ mode = "co" THEN Primaries(model, world)
    ELSE [i \in Roots(model) |->
            IF world > 1 /\ mode = "zero1rs" /\ model[i].flat
            THEN FlatShares(model[i], world)
            ELSE {Share(0, 0, WBytes(model[i]))}]

----------------------------------------------------------------------------
(* The objects a rank holds.  Optimizer state sharded flat is two slots,   *)
(* m and v, each this rank's slice and a copy of the remainder, every      *)
(* field aligned; otherwise it is whole.                                   *)

Sharded(root, world, mode) == world > 1 /\ mode = "zero1rs" /\ root.flat

\* The fields of a flat shard in order: m slice, v slice, m tail, v tail
FieldBytes(root, world) ==
    LET slice == SliceOf(root, world) * root.opt
        tail  == TailOf(root, world) * root.opt
    IN  IF tail = 0 THEN <<slice, slice>> ELSE <<slice, slice, tail, tail>>

FieldOffset(fields, k) ==
    FoldLeft(LAMBDA n, b : n + Aligned(b), 0, SubSeq(fields, 1, k - 1))

OBytes(root, world, mode) ==
    IF Sharded(root, world, mode)
    THEN FieldOffset(FieldBytes(root, world), Len(FieldBytes(root, world)) + 1)
    ELSE 2 * root.elems * root.opt

\* Resident sizes; private: whether the ranks keep state of their own
Objects(model, world, mode, private) ==
    [id \in ({"W", "O"} \X Roots(model)) \cup (IF private THEN {<<"X", 0>>} ELSE {}) |->
        CASE id[1] = "W" -> WBytes(model[id[2]])
          [] id[1] = "O" -> OBytes(model[id[2]], world, mode)
          [] id[1] = "X" -> 1]

----------------------------------------------------------------------------
(* Source policies: the slices each rank saves.  A slice takes the range   *)
(* src of a resident object to the range dst of a logical object of        *)
(* lbytes bytes.                                                           *)

Slice(id, src, lid, dst, lbytes) ==
    [id |-> id, src |-> src, lid |-> lid, dst |-> dst, lbytes |-> lbytes]

\* Every rank holds the same bytes: each saves all of them, or the shares it
\* is responsible for
ReplicatedSlices(policy, id, size, plan, source) ==
    IF policy = "dedup"
    THEN {Slice(id, s.range, id, s.range, size) :
            s \in {s \in plan[id[2]] : s.rank = source}}
    ELSE {Slice(id, <<0, size>>, id, <<0, size>>, size)}

PrivateSlices(id, size, source) ==
    {Slice(id, <<0, size>>, Append(id, source), <<0, size>>, size)}

\* The logical object lays the slots end to end: a slot is the slices of all
\* ranks and the remainder.  Padding is layout and maps to no logical byte.
SlotBytes(fields, world) ==
    world * fields[1] + (IF Len(fields) > 2 THEN fields[3] ELSE 0)

FieldSource(fields, k) ==
    <<FieldOffset(fields, k), FieldOffset(fields, k) + fields[k]>>

\* Field k belongs to slot 0 (m) or 1 (v)
FieldTarget(fields, world, source, k) ==
    LET base == ((k - 1) % 2) * SlotBytes(fields, world)
    IN  IF k <= 2
        THEN <<base + source * fields[k], base + (source + 1) * fields[k]>>
        ELSE <<base + world * fields[1], base + world * fields[1] + fields[k]>>

ShardedSlices(id, fields, world, source) ==
    {Slice(id, FieldSource(fields, k), id,
           FieldTarget(fields, world, source, k), 2 * SlotBytes(fields, world)) :
        k \in 1 .. Len(fields)}

SlicesOf(policy, model, world, mode, plan, id, size, source) ==
    CASE id[1] = "O" /\ Sharded(model[id[2]], world, mode) ->
            ShardedSlices(id, FieldBytes(model[id[2]], world), world, source)
      [] id[1] = "W" -> ReplicatedSlices(policy, id, size, plan, source)
      [] id[1] = "X" \/ (id[1] = "O" /\ ~Sharded(model[id[2]], world, mode)) ->
            PrivateSlices(id, size, source)

CompileSourcePolicy(policy, model, world, mode, objects, source) ==
    UNION {SlicesOf(policy, model, world, mode,
                    ResponsibilityMap(model, world, mode), id, objects[id], source) :
             id \in DOMAIN objects}

\* The engine refuses a slice outside the object it is cut from
SlicesValid(slices, objects) ==
    \A s \in slices :
        /\ 0 <= s.src[1] /\ s.src[1] < s.src[2] /\ s.src[2] <= objects[s.id]
        /\ Size(s.dst) = Size(s.src)
        /\ 0 <= s.dst[1] /\ s.dst[2] <= s.lbytes

----------------------------------------------------------------------------
(* The record.  Once every rank's snapshot has landed, its entries say     *)
(* which snapshot holds which range of which logical object, with the hash *)
(* the snapshot's status reported.                                         *)

Entries(slices, hashes) ==
    UNION {{[snap |-> r, lid |-> s.lid, src |-> s.src, dst |-> s.dst, hash |-> hashes[r][s]] :
              s \in slices[r]} : r \in DOMAIN slices}

LogicalObjects(slices) ==
    [lid \in {s.lid : s \in UNION {slices[r] : r \in DOMAIN slices}} |->
        (CHOOSE s \in UNION {slices[r] : r \in DOMAIN slices} : s.lid = lid).lbytes]

EntriesOf(record, lid) == {e \in record.entries : e.lid = lid}

\* Copies of one range must be equal: state certified as replicated that has
\* diverged is refused
NoDrift(entries) ==
    \A e, f \in entries : e.lid = f.lid /\ e.dst = f.dst => e.hash = f.hash

\* The id a rank knows a logical object by
Bare(lid) == SubSeq(lid, 1, 2)

EntryShaped(record, e) ==
    /\ e.snap \in DOMAIN record.objects
    /\ Size(e.dst) = Size(e.src)
    /\ 0 <= e.dst[1] /\ e.dst[1] < e.dst[2] /\ e.dst[2] <= record.logical[e.lid]
    /\ Bare(e.lid) \in DOMAIN record.objects[e.snap]
    /\ 0 <= e.src[1] /\ e.src[1] < e.src[2]
    /\ e.src[2] <= record.objects[e.snap][Bare(e.lid)]

Covers(e, b) == e.dst[1] <= b /\ b < e.dst[2]

Covered(record, lid) ==
    \A b \in 0 .. record.logical[lid] - 1 : \E e \in EntriesOf(record, lid) : Covers(e, b)

\* Two entries may cover a byte only as copies of one range
NoPartialOverlap(entries) ==
    \A e, f \in entries :
        (e.lid = f.lid /\ e.dst[1] < f.dst[2] /\ f.dst[1] < e.dst[2]) => e.dst = f.dst

ValidRecord(record) ==
    /\ \A e \in record.entries : e.lid \in DOMAIN record.logical
    /\ \A e \in record.entries : EntryShaped(record, e)
    /\ \A lid \in DOMAIN record.logical : Covered(record, lid)
    /\ NoPartialOverlap(record.entries)
    /\ NoDrift(record.entries)

----------------------------------------------------------------------------
(* Restoring.  A target set becomes, per snapshot, the windows that take   *)
(* ranges of logical objects to ranges of local ones.                      *)

Window(snap, lid, range, id, local, bytes) ==
    [snap |-> snap, lid |-> lid, range |-> range, id |-> id, local |-> local, bytes |-> bytes]

\* The intervals between neighbouring endpoints of the entries
Bounds(entries) == UNION {{e.dst[1], e.dst[2]} : e \in entries}

Elementary(bounds) ==
    {<<lo, hi>> \in bounds \X bounds :
        lo < hi /\ ~\E b \in bounds : lo < b /\ b < hi}

Holding(entries, r) == {e \in entries : e.dst[1] <= r[1] /\ r[2] <= e.dst[2]}

\* Of the copies of an interval, the one in the first snapshot
ChooseSources(entries) ==
    {[range |-> r, snap |-> Min({e.snap : e \in Holding(entries, r)})] :
        r \in {r \in Elementary(Bounds(entries)) : Holding(entries, r) # {}}}

LogicalWindows(record, lid) ==
    {Window(c.snap, lid, c.range, lid, c.range, record.logical[lid]) :
        c \in ChooseSources(EntriesOf(record, lid))}

LogicalPlan(record, lids) == UNION {LogicalWindows(record, lid) : lid \in lids}

\* A rank's own view: its own snapshot alone, at its own geometry.  A bare id
\* stands for the rank's private object where the record has one.
QualifiedId(record, id, source) ==
    IF id \in DOMAIN record.logical THEN id ELSE Append(id, source)

OwnEntries(record, id, source) ==
    {e \in EntriesOf(record, QualifiedId(record, id, source)) : e.snap = source}

\* The rank view is refused where the rank's snapshot lacks an object
KeyedPlanExists(record, source, ids) ==
    \A id \in ids : OwnEntries(record, id, source) # {}

KeyedPlan(record, source, ids) ==
    UNION {{Window(source, e.lid, e.dst, id, e.src, record.objects[source][id]) :
              e \in OwnEntries(record, id, source)} : id \in ids}

\* Windows that abut in both spaces become one
Abut(v, w) ==
    /\ v.snap = w.snap /\ v.lid = w.lid /\ v.id = w.id /\ v.bytes = w.bytes
    /\ v.range[2] = w.range[1] /\ v.local[2] = w.local[1]

RECURSIVE Extended(_, _)
Extended(windows, w) ==
    IF \E v \in windows : Abut(w, v)
    THEN Extended(windows,
                  LET v == CHOOSE v \in windows : Abut(w, v)
                  IN  [w EXCEPT !.range[2] = v.range[2], !.local[2] = v.local[2]])
    ELSE w

MergeSteps(windows) ==
    {Extended(windows, w) : w \in {w \in windows : ~\E v \in windows : Abut(v, w)}}

----------------------------------------------------------------------------
(* One restore call: the entries of a snapshot, cut by the windows, are    *)
(* copied into local objects                                               *)

Overlap(e, w) ==
    <<IF e.dst[1] > w.range[1] THEN e.dst[1] ELSE w.range[1],
      IF e.dst[2] < w.range[2] THEN e.dst[2] ELSE w.range[2]>>

\* Where the overlap lands in the local object, and what it brings
Placement(e, w, r) ==
    [id |-> w.id, bytes |-> w.bytes,
     at |-> w.local[1] + (r[1] - w.range[1]),
     content |-> Within(e.content, <<r[1] - e.dst[1], r[2] - e.dst[1]>>)]

Placements(entries, windows) ==
    {Placement(e, w, Overlap(e, w)) :
        <<e, w>> \in {<<e, w>> \in entries \X windows :
                        e.lid = w.lid /\ Size(Overlap(e, w)) > 0}}

Places(p, id, b) == p.id = id /\ p.at <= b /\ b < p.at + Len(p.content)

\* The local objects after the placements: untouched bytes stay
Placed(local, placements) ==
    [id \in DOMAIN local \cup {p.id : p \in placements} |->
        IF id \in DOMAIN local /\ ~\E p \in placements : p.id = id THEN local[id]
        ELSE [b \in 1 .. (CHOOSE p \in placements : p.id = id).bytes |->
                IF \E p \in placements : Places(p, id, b - 1)
                THEN LET p == CHOOSE p \in placements : Places(p, id, b - 1)
                     IN  p.content[b - p.at]
                ELSE IF id \in DOMAIN local THEN local[id][b] ELSE <<>>]]
=============================================================================
