------------------------------- MODULE SongEditor -------------------------------
(***************************************************************************)
(* The arrangement of a song in the music editor: regions of the original  *)
(* audio in an order, edited by operations that are stored with what their *)
(* undo needs.  A render copies the operations to a version of its own,    *)
(* which is the song's current version until the render ends.              *)
(*                                                                         *)
(* A transaction is a step; undo and redo choose their operation in a step *)
(* of its own before it.                                                   *)
(***************************************************************************)
EXTENDS Arrangement

CONSTANTS
    MaxOps,     \* bound: operations asked for
    MaxUndos,   \* bound: undos and redos
    MaxRenders  \* bound: renders

ASSUME EditorAssumption == MaxOps \in Nat /\ MaxUndos \in Nat /\ MaxRenders \in Nat

VARIABLES
    versions,   \* sequence of status and set of operations; its index is the number
    clock,      \* of createdAt and undoneAt
    slot,       \* the undo, redo or render of each request
    asked, undos, renders

editorVars == <<regions, versions, clock, slot, nextId, asked, undos, renders>>

Times == 0 .. Length
NoMeta == [known |-> FALSE, was |-> [start |-> 0, end |-> 0, index |-> 0], made |-> 0]

Asked(does, r, from, to) == [does |-> does, region |-> r, from |-> from, to |-> to]
StoredAs(op, meta, id, created) ==
    [does |-> op.does, region |-> op.region, from |-> op.from, to |-> op.to, meta |-> meta,
     id |-> id, created |-> created, undone |-> 0]

IdleSlot == [does |-> "nothing", version |-> 1,
             op |-> StoredAs(Asked("mix", 1, 0, 0), NoMeta, 0, 0)]

EditorInit ==
    /\ regions = DefaultRegions(Length)
    /\ versions = <<[status |-> "draft", ops |-> {}]>>
    /\ clock = 1
    /\ slot = [q \in Slots |-> IdleSlot]
    /\ nextId = Cardinality(Cuts) /\ asked = 0 /\ undos = 0 /\ renders = 0

\* getCurrentVersion: the last one that is a draft or is being rendered.
Current == Max({v \in DOMAIN versions : versions[v].status \in {"draft", "rendering"}})

-----------------------------------------------------------------------------
(* What an undo makes of an arrangement *)

\* Mutant of UndoMeta: the place of the region is not noted.
UndoMetaAnywhere(op, rs, id) ==
    IF op.does = "mix" THEN NoMeta
    ELSE [known |-> TRUE, was |-> [rs[op.region] EXCEPT !.index = 0],
          made |-> IF op.does = "delete_range" THEN id + 1 ELSE id]

\* buildUndoMeta, and what the mutations return: the region as it was, and
\* the one that was made and is still there.
UndoMeta(op, rs, id) ==
    IF op.does = "mix" THEN NoMeta
    ELSE [known |-> TRUE, was |-> rs[op.region],
          made |-> IF op.does = "delete_range" THEN id + 1 ELSE id]

StartingAt(rs, at) == {x \in DOMAIN rs : rs[x].start = at}

\* Undo of a split: a region that starts there goes, the other one is whole.
Joins(rs, r, at, end) ==
    LET found == StartingAt(rs, at)
        left == IF found = {} THEN {rs} ELSE {Drop(rs, x) : x \in found}
    IN  UNION {Reindexings([one EXCEPT ![r].end = end]) :
                  one \in {some \in left : r \in DOMAIN some}}

\* resolveDeleteRangeTailRegion: by id, by start, by both ends.
Tails(op, rs) ==
    LET between == {x \in StartingAt(rs, rs[op.region].end) : rs[x].end = op.meta.was.end}
    IN  IF op.meta.made \in DOMAIN rs THEN {op.meta.made}
        ELSE IF StartingAt(rs, op.to) # {} THEN StartingAt(rs, op.to) ELSE between

\* reverseDeleteRangeMutation
RangeRestorations(op, rs) ==
    LET r == op.region
        whole == [rs EXCEPT ![r].end = op.meta.was.end]
    IN  IF TakesStart(op.meta.was, op.from) THEN {[rs EXCEPT ![r].start = op.meta.was.start]}
        ELSE IF TakesEnd(op.meta.was, op.to) THEN {whole}
        ELSE IF Tails(op, rs) = {} THEN Reindexings(whole)
        ELSE UNION {Reindexings(IF x = r THEN whole ELSE Drop(whole, x)) : x \in Tails(op, rs)}

\* resolveDuplicatedRegionId: without its id, the one that follows, or else
\* the newest of those that have the same bounds.
Duplicates(op, rs) ==
    LET r == op.region
        same == {x \in DOMAIN rs \ {r} : rs[x].start = rs[r].start /\ rs[x].end = rs[r].end}
        next == {x \in same : rs[x].index = rs[r].index + 1}
    IN  IF op.meta.known THEN {op.meta.made} \cap DOMAIN rs
        ELSE IF r \notin DOMAIN rs THEN {}
        ELSE IF next # {} THEN next ELSE {x \in same : \A y \in same : x >= y}

\* reverseRegionMutation: the arrangements an undo can give; none when it
\* throws.
Reversals(op, rs) ==
    LET r == op.region
        was == op.meta.was
    IN  CASE op.does = "mix" -> {rs}
          [] op.does = "duplicate" ->
               UNION {Reindexings(Drop(rs, x)) : x \in Duplicates(op, rs)}
          [] op.does = "split" ->
               UNION {Joins(rs, r, op.from, end) :
                        end \in IF op.meta.known THEN {was.end}
                                ELSE {rs[x].end : x \in StartingAt(rs, op.from)}}
          [] OTHER ->
               IF ~op.meta.known \/ (op.does = "delete") = (r \in DOMAIN rs) THEN {}
               ELSE CASE op.does = "delete" ->
                           {Moved(Put(rs, r, was), r, was.index)}
                      [] op.does = "move" -> {Moved(rs, r, was.index)}
                      [] op.does = "delete_range" -> RangeRestorations(op, rs)
                      [] op.does = "resize" -> {Resized(rs, r, was.start, was.end)}

-----------------------------------------------------------------------------
(* Operations, undo and redo *)

\* What the editor may ask for.
Operations ==
    LET Ids == DOMAIN regions
    IN  {Asked("mix", 1, 0, 0)}
        \cup {Asked(d, r, 0, 0) : d \in {"delete", "duplicate"}, r \in Ids}
        \cup {Asked("split", r, at, 0) : r \in Ids, at \in Times}
        \cup {Asked("move", r, 0, i) : r \in Ids, i \in 0 .. Cardinality(Ids) - 1}
        \cup {op \in {Asked(d, r, from, to) : d \in {"delete_range", "resize"},
                         r \in Ids, from \in Times, to \in Times} : op.from < op.to}

IsActive(op) == op.undone = 0
ActiveOps(v) == {op \in versions[v].ops : IsActive(op)}
UndoneOps(v) == versions[v].ops \ ActiveOps(v)

\* applyOperation: what was undone is forgotten.
Apply(q) ==
    /\ slot[q].does = "nothing" /\ asked < MaxOps /\ asked' = asked + 1
    /\ \E op \in Operations : \E rs \in Applications(op, regions, nextId) :
          /\ SetRegions(rs)
          /\ versions' = [versions EXCEPT ![Current].ops =
                ActiveOps(Current)
                    \cup {StoredAs(op, UndoMeta(op, regions, nextId), clock, clock)}]
    /\ clock' = clock + 1
    /\ UNCHANGED <<slot, undos, renders>>

\* findLastActiveOperation and findLastUndoneOperation: by a time that may be
\* the same for several.
Chooses(q, does, found) ==
    /\ slot[q].does = "nothing" /\ undos < MaxUndos /\ undos' = undos + 1
    /\ \E op \in found :
          slot' = [slot EXCEPT ![q] = [does |-> does, version |-> Current, op |-> op]]
    /\ UNCHANGED <<regions, versions, clock, nextId, asked, renders>>

StartUndo(q) ==
    Chooses(q, "undo", {op \in ActiveOps(Current) :
                           \A other \in ActiveOps(Current) : op.created >= other.created})

StartRedo(q) ==
    Chooses(q, "redo", {op \in UndoneOps(Current) :
                           \A other \in UndoneOps(Current) : op.undone >= other.undone})

\* The transaction, which throws when the regions are not there, or when the
\* operation has been forgotten.
Commits(q, does, Results(_), stored) ==
    LET op == slot[q].op
        v == slot[q].version
        at == {o \in versions[v].ops : o.id = op.id}
    IN  /\ slot[q].does = does
        /\ slot' = [slot EXCEPT ![q] = IdleSlot]
        /\ IF at = {} \/ Results(op) = {} THEN UNCHANGED <<regions, versions, clock, nextId>>
           ELSE /\ \E rs \in Results(op) : SetRegions(rs)
                /\ versions' = [versions EXCEPT ![v].ops = (@ \ at) \cup {stored}]
                /\ clock' = clock + 1
        /\ UNCHANGED <<asked, undos, renders>>

Undo(q) ==
    LET ReversalsNow(op) == Reversals(op, regions)
    IN  Commits(q, "undo", ReversalsNow, [slot[q].op EXCEPT !.undone = clock])

\* A redo makes new regions, and only the id of a duplicate is noted.
Redo(q) ==
    LET ApplicationsNow(op) == Applications(op, regions, nextId)
    IN  Commits(q, "redo", ApplicationsNow,
                [slot[q].op EXCEPT !.undone = 0,
                                   !.meta.made = IF slot[q].op.does = "duplicate" THEN nextId ELSE @])

-----------------------------------------------------------------------------
(* Renders *)

\* renderSongVersion: the active operations are copied without their undo
\* metadata, all at one time.  An id is looked up with its version only.
Render(q) ==
    /\ slot[q].does = "nothing" /\ renders < MaxRenders /\ renders' = renders + 1
    /\ LET copies == {StoredAs(op, NoMeta, op.id, clock) : op \in ActiveOps(Current)}
       IN  versions' = Append(versions, [status |-> "rendering", ops |-> copies])
    /\ clock' = clock + 1
    /\ slot' = [slot EXCEPT ![q] = [IdleSlot EXCEPT !.does = "render",
                                                    !.version = Len(versions')]]
    /\ UNCHANGED <<regions, nextId, asked, undos>>

RenderEnds(q) ==
    /\ slot[q].does = "render"
    /\ \E s \in {"completed", "failed"} :
          versions' = [versions EXCEPT ![slot[q].version].status = s]
    /\ slot' = [slot EXCEPT ![q] = IdleSlot]
    /\ UNCHANGED <<regions, clock, nextId, asked, undos, renders>>

\* The process dies; nothing ends the version's rendering.
RenderDies(q) ==
    /\ slot[q].does = "render"
    /\ slot' = [slot EXCEPT ![q] = IdleSlot]
    /\ UNCHANGED <<regions, versions, clock, nextId, asked, undos, renders>>

EditorNext ==
    \E q \in Slots :
        \/ Apply(q) \/ StartUndo(q) \/ Undo(q) \/ StartRedo(q) \/ Redo(q)
        \/ Render(q) \/ RenderEnds(q) \/ RenderDies(q)

EditorSpec == EditorInit /\ [][EditorNext]_editorVars

-----------------------------------------------------------------------------
StoredOps ==
    [does : {"mix", "delete", "duplicate", "split", "move", "delete_range", "resize"},
     region : Nat, from : Times, to : Nat,
     meta : [known : BOOLEAN, was : [start : Times, end : Times, index : Nat], made : Nat],
     id : Nat, created : Nat, undone : Nat]

\* The regions are parts of the song that can be heard.  With two requests at a
\* time they need not be: an undo may have chosen its operation before an edit.
RegionsHaveLength ==
    \A r \in DOMAIN regions :
        0 <= regions[r].start /\ regions[r].start < regions[r].end /\ regions[r].end <= Length

\* Each request waits for the one before it.
OneAtATime == \A p, q \in Slots : p = q

\* Where requests wait for each other, the regions are parts of the song that
\* can be heard until it is rendered, whatever is undone and redone: an undo
\* writes bounds that were noted many edits before, and checks none of them.
RegionsProper == OneAtATime /\ Len(versions) = 1 => RegionsHaveLength

EditorTypeOK ==
    /\ \A r \in DOMAIN regions :
          r < nextId /\ regions[r] \in [start : Times, end : Times, index : Nat]
    /\ \A v \in DOMAIN versions :
          /\ versions[v].status \in {"draft", "rendering", "completed", "failed"}
          /\ versions[v].ops \subseteq StoredOps
    /\ clock \in Nat /\ nextId \in Nat
    /\ slot \in [Slots -> [does : {"nothing", "undo", "redo", "render"},
                           version : DOMAIN versions, op : StoredOps]]
    /\ asked \in 0 .. MaxOps /\ undos \in 0 .. MaxUndos /\ renders \in 0 .. MaxRenders
    /\ IndexesDense

\* The undo of an operation right after it gives back the arrangement with
\* its regions, unless a region starts where one was split.
UndoInverts ==
    \A op \in Operations :
        (op.does = "split" => StartingAt(regions, op.from) = {}) =>
            \A rs \in Applications(op, regions, nextId) :
                Reversals(StoredAs(op, UndoMeta(op, regions, nextId), clock, clock), rs)
                    = {regions}
=============================================================================
