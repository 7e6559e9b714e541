------------------------------- MODULE Arrangement -------------------------------
(***************************************************************************)
(* The arrangement of a song in the music editor: regions of the original  *)
(* audio in an order, and what each operation makes of them.  SongEditor   *)
(* keeps the operations and undoes them; EditorTimeline is the page that   *)
(* asks for them.                                                          *)
(***************************************************************************)
EXTENDS Integers, FiniteSets, Sequences, SequencesExt

CONSTANTS
    Length,     \* of the song
    Cuts,       \* where the default regions start and end
    Edge,       \* RANGE_EDGE_PADDING_MS
    MinRange,   \* MIN_RANGE_DELETE_MS, MIN_REGION_LENGTH_MS and the shortest clip
    Slots       \* requests under way at the same time

\* The parts of the song follow each other from 0 to its end.  None is shorter
\* than a region may be: the shortest is a tenth of the song, and a song lasts a
\* second at least.  The padding and the shortest length are both 100 ms.
ASSUME ArrangementAssumption ==
    /\ Length \in Nat /\ IsFiniteSet(Cuts) /\ Cuts \subseteq 0 .. Length /\ {0, Length} \subseteq Cuts
    /\ Edge \in Nat /\ MinRange \in Nat \ {0} /\ MinRange <= Edge + 1
    /\ \A c, d \in Cuts : c < d => c + MinRange <= d

VARIABLES
    regions,    \* id -> start, end, index
    nextId

\* buildDefaultRegions
DefaultRegions(duration) ==
    LET starts == Cuts \ {duration}
        Before(c) == Cardinality({d \in starts : d < c})
    IN  [i \in 1 .. Cardinality(starts) |->
            LET from == CHOOSE c \in starts : Before(c) = i - 1
            IN  [start |-> from, end |-> Min({c \in Cuts : c > from}), index |-> i - 1]]

-----------------------------------------------------------------------------
(* What an operation makes of an arrangement *)

Put(rs, r, new) == [x \in DOMAIN rs \cup {r} |-> IF x = r THEN new ELSE rs[x]]
Drop(rs, r) == [x \in DOMAIN rs \ {r} |-> rs[x]]
Resized(rs, r, start, end) == [rs EXCEPT ![r] = [@ EXCEPT !.start = start, !.end = end]]

\* Mutant of Reindexings: the others keep the indexes they have.
NotReindexed(rs) == {rs}

\* reindexRegions: by index, then by start; the database breaks other ties.
Reindexings(rs) ==
    {[r \in DOMAIN rs |-> [rs[r] EXCEPT !.index = Cardinality({q \in DOMAIN rs :
        \/ rs[q].index < rs[r].index
        \/ rs[q].index = rs[r].index /\ rs[q].start < rs[r].start
        \/ /\ rs[q].index = rs[r].index /\ rs[q].start = rs[r].start
           /\ IF newest THEN q > r ELSE q < r})]] : newest \in BOOLEAN}

\* A region goes to a place among the others, which keep their order:
\* MOVE_REGION, and restoreDeletedRegionAtIndex.
Moved(rs, r, target) ==
    LET others == DOMAIN rs \ {r}
        place == Min({target, Cardinality(others)})
        Before(x) == Cardinality({q \in others : rs[q].index < rs[x].index})
    IN  [x \in DOMAIN rs |-> [rs[x] EXCEPT !.index =
            IF x = r THEN place
            ELSE IF Before(x) < place THEN Before(x) ELSE Before(x) + 1]]

\* SPLIT_REGION; the second part is a region with a new id.
Splits(rs, r, at, id) ==
    IF r \in DOMAIN rs /\ rs[r].start < at /\ at < rs[r].end
    THEN Reindexings(Put([rs EXCEPT ![r].end = at], id,
                          [start |-> at, end |-> rs[r].end, index |-> rs[r].index + 1]))
    ELSE {}

\* A range takes the start of a region, or its end, or both, that is all of
\* it, when it leaves no more than the padding there.
TakesStart(region, from) == from <= region.start + Edge
TakesEnd(region, to) == to >= region.end - Edge

\* applyDeleteRangeMutation: a range at an edge trims the region, one inside
\* it is split off twice and deleted.
RangeDeletions(rs, r, from, to, id) ==
    IF r \notin DOMAIN rs \/ to - from < MinRange \/ from < rs[r].start \/ to > rs[r].end
       \/ (TakesStart(rs[r], from) /\ TakesEnd(rs[r], to)) THEN {}
    ELSE IF TakesStart(rs[r], from) THEN {[rs EXCEPT ![r].start = to]}
    ELSE IF TakesEnd(rs[r], to) THEN {[rs EXCEPT ![r].end = from]}
    ELSE UNION {UNION {Reindexings(Drop(three, id)) : three \in Splits(two, id, to, id + 1)} :
                    two \in Splits(rs, r, from, id)}

\* applyRegionMutation: the arrangements an operation can give; none when it
\* throws.
Applications(op, rs, id) ==
    LET r == op.region
    IN  IF op.does = "mix" THEN {rs}
        ELSE IF r \notin DOMAIN rs THEN {}
        ELSE CASE op.does = "delete" -> Reindexings(Drop(rs, r))
               [] op.does = "delete_range" -> RangeDeletions(rs, r, op.from, op.to, id)
               [] op.does = "split" -> Splits(rs, r, op.from, id)
               [] op.does = "move" -> {Moved(rs, r, op.to)}
               [] op.does = "duplicate" ->
                    Reindexings(Put(rs, id, [rs[r] EXCEPT !.index = @ + 1]))
               [] op.does = "resize" ->
                    IF op.to - op.from < MinRange \/ op.to > Length THEN {}
                    ELSE {Resized(rs, r, op.from, op.to)}

SetRegions(rs) ==
    /\ regions' = rs
    /\ nextId' = Max(DOMAIN rs \cup {nextId - 1}) + 1

-----------------------------------------------------------------------------
\* The regions play in one definite order: their indexes are 0, 1, 2, ...
\* after every edit, undo, redo and range that splits twice.
IndexesDense ==
    {regions[r].index : r \in DOMAIN regions} = 0 .. Cardinality(DOMAIN regions) - 1
=============================================================================
