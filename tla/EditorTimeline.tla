----------------------------- MODULE EditorTimeline -----------------------------
(***************************************************************************)
(* The page of the music editor: its copy of a song, the timeline drawn    *)
(* from it, what the user does on the timeline and with the toolbar, and   *)
(* the operations the page asks of the server.                             *)
(*                                                                         *)
(* A clip is where it plays from and to in its audio; the order of a       *)
(* track's clips stands for their places.  The playhead and a selection    *)
(* are places in a clip.  The timeline tells the page of a drag or a trim  *)
(* when it is over, and the echo of the page's own changes is left out.    *)
(***************************************************************************)
EXTENDS Arrangement

CONSTANTS
    Epsilon,    \* REGION_TIME_EPSILON_MS: a trim that is not more is not seen
    Points,     \* bound: places in a clip that are pointed at
    TrimPlaces, \* bound: places in the audio to which a clip is trimmed
    MaxSent,    \* bound: operations sent
    MaxDrags,   \* bound: drags and trims
    MaxLosses   \* bound: answers that do not arrive

\* 20 ms, where the shortest clip is 100 ms long.
ASSUME TimelineAssumption == Epsilon \in Nat /\ Epsilon < MinRange

VARIABLES
    mix,        \* the fades and the edits of one track, in their order, at the server
    page,       \* the page's copy of the arrangement and the edits
    shown,      \* the clips of each track on the timeline, in their order
    syncing,    \* isStructuralSync: the page does not listen to the timeline
    linked,     \* edits go to both tracks
    locked,     \* the account may not use the advanced operations
    busy,       \* the controls are disabled
    pending,    \* the operation that waits for the timer
    last,       \* the last operation the timer sent
    inflight,   \* the operation of each request, and its answer
    alone,      \* requests did not overlap, and none failed on its way
    sent, drags, losses

pageVars == <<regions, nextId, mix, page, shown, syncing, linked, locked, busy, pending, last,
              inflight, alone, sent, drags, losses>>

\* In the order of the timeline.
TrackOrder == <<"vocal", "instrumental">>
Lanes == {"vocal", "instrumental"}
Advanced == {"delete", "delete_range", "duplicate", "resize", "track_resize"}

Op(does, track, r, from, to) ==
    [does |-> does, track |-> track, region |-> r, from |-> from, to |-> to]
NoOp == Op("nothing", "both", 0, 0, 0)

-----------------------------------------------------------------------------
(* The timeline of a copy of the song *)

\* The regions in their order.
Order(rs) ==
    LET Before(r) == Cardinality({q \in DOMAIN rs : rs[q].index < rs[r].index})
    IN  [i \in 1 .. Cardinality(DOMAIN rs) |-> CHOOSE r \in DOMAIN rs : Before(r) = i - 1]

\* The element at i goes to j, the others keep their order.
Carried(seq, i, j) == InsertAt(RemoveAt(seq, i), j, seq[i])

\* An edit of one track.
TrackEdit(clips, op) ==
    LET i == SelectInSeq(clips, LAMBDA c : c.region = op.region)
    IN  IF i = 0 THEN clips
        ELSE CASE op.does = "track_resize" ->
                    [clips EXCEPT ![i].from = op.from, ![i].to = op.to]
               [] op.does = "track_move" ->
                    Carried(clips, i, Min({op.to, Len(clips) - 1}) + 1)
               [] OTHER -> clips

Base(rs) ==
    LET order == Order(rs)
        Clip(r) == [region |-> r, from |-> rs[r].start, to |-> rs[r].end]
    IN  [i \in DOMAIN order |-> Clip(order[i])]

\* resolveTrackRegions: the regions in their order, after the edits of tracks.
TrackRegions(tracks, copy) ==
    LET edited[n \in 0 .. Len(copy.mix)] ==
            IF n = 0 THEN Base(copy.regions)
            ELSE IF copy.mix[n].track \in tracks THEN TrackEdit(edited[n - 1], copy.mix[n])
            ELSE edited[n - 1]
    IN  edited[Len(copy.mix)]

\* resolveRegionFadeEnvelope: a fade of the whole region, or of a part that is
\* still in it.
Faded(t, c, copy) ==
    \E i \in DOMAIN copy.mix :
        LET op == copy.mix[i]
        IN  /\ op.does = "fade" /\ op.track = t /\ op.region = c.region
            /\ op.to = 0 \/ Max({op.from, c.from}) < Min({op.to, c.to})

ClipLength(c) == Max({c.to - c.from, MinRange})

\* buildRegionTrack: a faded clip has audio of its own, from its start.
Built(t, copy) ==
    LET clips == TrackRegions({t}, copy)
        Clip(c) == LET from == IF Faded(t, c, copy) THEN 0 ELSE c.from
                   IN  [region |-> c.region, from |-> from, to |-> from + ClipLength(c)]
    IN  [i \in DOMAIN clips |-> Clip(clips[i])]

Drawn(copy) == [t \in Lanes |-> Built(t, copy)]

-----------------------------------------------------------------------------
(* From the timeline to the audio *)

\* Rounded: the audio of a region that is drawn length long, at a place in it.
ToSource(region, length, x) ==
    (2 * (region.start * length + x * (region.end - region.start)) + length) \div (2 * length)

\* resolveSplitAtMsForEditor: where a region is split with the playhead at a
\* place in its clip, if it can be.  The edits of both tracks are taken for
\* those of one.
SplitAt(copy, r, x) ==
    LET clips == TrackRegions(Lanes, copy)
        length == ClipLength(clips[SelectInSeq(clips, LAMBDA c : c.region = r)])
    IN  IF 0 < x /\ x < length
        THEN {ToSource(copy.regions[r], length, x)}
                \cap (copy.regions[r].start + Edge + 1) .. (copy.regions[r].end - Edge - 1)
        ELSE {}

Whole == [from |-> 0, to |-> 0]

\* resolveSourceRangeForLayoutSelection: the part of a region's audio under a
\* selection from a to b of its clip.
SourceRange(region, length, a, b) ==
    LET from == ToSource(region, length, a)
        to == ToSource(region, length, b)
    IN  IF b - a < MinRange \/ to - from < MinRange THEN {}
        ELSE IF TakesStart(region, from) /\ TakesEnd(region, to)
             THEN {Whole}
        ELSE {[from |-> from, to |-> to]}

\* What can be selected: a part of a clip; a selection that goes past the
\* clip ends where the clip does.
Selections(points) ==
    LET Parts(t, c) ==
            {[track |-> t, region |-> c.region, range |-> range] : range \in
                UNION {SourceRange(page.regions[c.region], ClipLength(c), a, b) :
                          a, b \in points \cap 0 .. ClipLength(c)}}
    IN  UNION {UNION {Parts(t, shown[t][i]) : i \in DOMAIN shown[t]} : t \in Lanes}

-----------------------------------------------------------------------------
(* What the page asks for *)

SplitOps(points) ==
    UNION {{Op("split", "both", r, at, 0) : at \in SplitAt(page, r, x)} :
              r \in DOMAIN page.regions, x \in points}

\* deleteRegion: the region, or what is selected of one.
DeleteOps(selected) ==
    {Op("delete", "both", r, 0, 0) : r \in DOMAIN page.regions}
    \cup {Op("delete_range", "both", s.region, s.range.from, s.range.to) :
            s \in {s \in selected : s.range # Whole}}

\* fadeRegion
FadeOps(selected) ==
    {Op("fade", t, r, 0, 0) : t \in Lanes, r \in DOMAIN page.regions}
    \cup {Op("fade", s.track, s.region, s.range.from, s.range.to) : s \in selected}

DuplicateOps == {Op("duplicate", "both", r, 0, 0) : r \in DOMAIN page.regions}

\* moveRegion: one place to the left or to the right.
MoveOps ==
    UNION {{Op("move", "both", r, 0, Max({0, page.regions[r].index - 1})),
            Op("move", "both", r, 0, page.regions[r].index + 1)} : r \in DOMAIN page.regions}

ToolbarOps(points) ==
    LET selected == Selections(points)
    IN  SplitOps(points) \cup FadeOps(selected) \cup MoveOps
            \cup IF locked THEN {} ELSE DeleteOps(selected) \cup DuplicateOps

RegionsOf(clips) == [i \in DOMAIN clips |-> clips[i].region]

\* The places from which and to which a region goes that gives the new order.
Moves(old, new) ==
    {p \in (DOMAIN old) \X (DOMAIN new) : old # new /\ new = Carried(old, p[1], p[2])}

\* Mutant of MovedRegion: the place is counted before the region is taken out.
MovedBefore(old, new) ==
    {[region |-> old[p[1]], to |-> p[2]] :
        p \in {p \in Moves(old, new) : \A q \in Moves(old, new) : p[1] <= q[1]}}

\* findMovedRegion: the first region whose move alone gives the new order.
MovedRegion(old, new) ==
    {[region |-> old[p[1]], to |-> p[2] - 1] :
        p \in {p \in Moves(old, new) : \A q \in Moves(old, new) : p[1] <= q[1]}}

\* Two places that are told apart.
Apart(a, b) == a - b > Epsilon \/ b - a > Epsilon

\* The first of the clips that a timeline plays otherwise, or 0.
FirstTrimmed(was, clips) ==
    SelectInSeq(was, LAMBDA c : \E i \in DOMAIN clips :
        clips[i].region = c.region /\ (Apart(clips[i].from, c.from) \/ Apart(clips[i].to, c.to)))

\* resolveTimelineOperation: the first clip of the first track that does not
\* play what its region is, or else the first track in another order.
Resolved(clips, copy, both) ==
    LET Whose(t) == IF both THEN "both" ELSE t
        Was(t) == TrackRegions({t}, copy)
        Shifted(t) == MovedRegion(RegionsOf(Was(t)), RegionsOf(clips[t]))
        trim == SelectInSeq(TrackOrder, LAMBDA t : FirstTrimmed(Was(t), clips[t]) # 0)
        shift == SelectInSeq(TrackOrder, LAMBDA t : Shifted(t) # {})
    IN  IF trim # 0
        THEN LET t == TrackOrder[trim]
                 r == Was(t)[FirstTrimmed(Was(t), clips[t])].region
                 c == clips[t][SelectInSeq(clips[t], LAMBDA d : d.region = r)]
             IN  Op(IF both THEN "resize" ELSE "track_resize", Whose(t), r, c.from, c.to)
        ELSE IF shift # 0
        THEN LET t == TrackOrder[shift]
                 m == CHOOSE m \in Shifted(t) : TRUE
             IN  Op(IF both THEN "move" ELSE "track_move", Whose(t), m.region, 0, m.to)
        ELSE NoOp

-----------------------------------------------------------------------------
(* The server *)

Copy == [regions |-> regions, mix |-> mix]

\* applyOperation: the arrangements an operation can give; none when it is
\* refused.
Results(op) ==
    IF (locked /\ op.does \in Advanced) \/ op.region \notin DOMAIN regions THEN {}
    ELSE IF op.does \in {"fade", "track_move"} THEN {regions}
    ELSE IF op.does = "track_resize"
    THEN IF op.to - op.from < MinRange \/ op.to > Length THEN {} ELSE {regions}
    ELSE Applications(op, regions, nextId)

\* The edits of one track are kept for the timeline.
Remembered(op) == IF op.track = "both" THEN mix ELSE Append(mix, op)

NoRequest == [state |-> "idle", op |-> NoOp, answer |-> [regions |-> <<>>, mix |-> <<>>]]

PageInit ==
    /\ regions = DefaultRegions(Length) /\ nextId = Cardinality(Cuts) /\ mix = <<>>
    /\ page = Copy /\ shown = Drawn(page) /\ syncing = TRUE
    /\ linked = FALSE /\ locked \in BOOLEAN /\ busy = FALSE
    /\ pending = NoOp /\ last = NoOp
    /\ inflight = [q \in Slots |-> NoRequest]
    /\ alone = TRUE /\ sent = 0 /\ drags = 0 /\ losses = 0

Send(q, op) ==
    /\ inflight[q].state = "idle" /\ sent < MaxSent /\ sent' = sent + 1
    /\ inflight' = [inflight EXCEPT ![q] = [NoRequest EXCEPT !.state = "asked", !.op = op]]
    /\ busy' = TRUE
    /\ alone' = (alone /\ \A p \in Slots : inflight[p].state = "idle")

Serve(q) ==
    /\ inflight[q].state = "asked"
    /\ LET op == inflight[q].op
       IN  IF Results(op) = {}
           THEN /\ inflight' = [inflight EXCEPT ![q].state = "refused"]
                /\ UNCHANGED <<regions, nextId, mix>>
           ELSE /\ \E rs \in Results(op) : SetRegions(rs) /\ mix' = Remembered(op)
                /\ inflight' = [inflight EXCEPT ![q].state = "answered", ![q].answer = Copy']
    /\ UNCHANGED <<page, shown, syncing, linked, locked, busy, pending, last, alone,
                   sent, drags, losses>>

-----------------------------------------------------------------------------
(* The page *)

\* hydrate: the timeline is drawn again; when it has other regions, or in
\* another order, what the timer waits for is forgotten, and for a while the
\* page does not listen.
Hydrate(copy) ==
    /\ page' = copy /\ shown' = Drawn(copy)
    /\ IF Order(copy.regions) = Order(page.regions) THEN UNCHANGED <<pending, last, syncing>>
       ELSE pending' = NoOp /\ last' = NoOp /\ syncing' = TRUE

\* The end of applyOperation; of two requests, either lets the controls go.
Answer(q) ==
    /\ \/ inflight[q].state = "answered" /\ Hydrate(inflight[q].answer)
       \/ inflight[q].state = "refused" /\ UNCHANGED <<page, shown, syncing, pending, last>>
    /\ inflight' = [inflight EXCEPT ![q] = NoRequest] /\ busy' = FALSE
    /\ UNCHANGED <<regions, nextId, mix, linked, locked, alone, sent, drags, losses>>

\* The request fails on the way there or on the way back.
Lose(q) ==
    /\ inflight[q].state # "idle" /\ losses < MaxLosses /\ losses' = losses + 1
    /\ inflight' = [inflight EXCEPT ![q] = NoRequest] /\ busy' = FALSE /\ alone' = FALSE
    /\ UNCHANGED <<regions, nextId, mix, page, shown, syncing, linked, locked, pending, last,
                   sent, drags>>

Toolbar(q) ==
    /\ ~busy
    /\ \E op \in ToolbarOps(Points) : Send(q, op)
    /\ UNCHANGED <<regions, nextId, mix, page, shown, syncing, linked, locked, pending, last,
                   drags, losses>>

\* 400 ms after the tracks were built again.
Settle ==
    /\ syncing /\ syncing' = FALSE
    /\ UNCHANGED <<regions, nextId, mix, page, shown, linked, locked, busy, pending, last,
                   inflight, alone, sent, drags, losses>>

\* A region is selected: the timeline is drawn again, with it in front.  What
\* was dragged and is not saved is drawn as it was; the timer still waits.
Select ==
    /\ shown' = Drawn(page)
    /\ UNCHANGED <<regions, nextId, mix, page, syncing, linked, locked, busy, pending, last,
                   inflight, alone, sent, drags, losses>>

SwitchMode ==
    /\ ~busy /\ linked' = ~linked
    /\ UNCHANGED <<regions, nextId, mix, page, shown, syncing, locked, busy, pending, last,
                   inflight, alone, sent, drags, losses>>

\* A clip goes to another place, or is trimmed, in the audio it has.
Gestures(t, clips, points) ==
    LET End(c) == IF Faded(t, c, page) THEN c.to ELSE Length
    IN  {Carried(clips, i, j) : i, j \in DOMAIN clips}
        \cup UNION {{[clips EXCEPT ![i].from = from] : from \in points \cap 0 .. clips[i].to - MinRange}
                    \cup {[clips EXCEPT ![i].to = to] : to \in points \cap clips[i].from + MinRange .. End(clips[i])}
                        : i \in DOMAIN clips}

\* mirrorRegionClipEdits: both tracks have the clips of the last one.
Mirrored(clips) == [t \in Lanes |-> clips[Last(TrackOrder)]]
AfterGesture(t, clips) ==
    LET after == [shown EXCEPT ![t] = clips]
    IN  IF linked THEN Mirrored(after) ELSE after

\* handleTracksChange: the operation of a drag waits for the timer, in place
\* of one that waits already.  It is nothing while the page does not listen,
\* and nothing new when the timer sent the same one last.
Drag(t) ==
    /\ drags < MaxDrags /\ drags' = drags + 1
    /\ \E clips \in Gestures(t, shown[t], TrimPlaces) \ {shown[t]} :
          LET after == AfterGesture(t, clips)
              op == Resolved(after, page, linked)
              offered == op # NoOp /\ ~busy
              refused == offered /\ locked /\ op.does \in Advanced
          IN  IF syncing
              THEN shown' = [shown EXCEPT ![t] = clips] /\ UNCHANGED pending
              ELSE /\ shown' = IF refused THEN Drawn(page) ELSE after
                   /\ pending' = IF offered /\ ~refused /\ op # last THEN op ELSE pending
    /\ UNCHANGED <<regions, nextId, mix, page, syncing, linked, locked, busy, last, inflight,
                   alone, sent, losses>>

\* persistTimelineOperation: the timer asks whether the controls were disabled
\* when it was set, and they were not.
Persist(q) ==
    /\ pending # NoOp /\ Send(q, pending)
    /\ pending' = NoOp /\ last' = pending
    /\ UNCHANGED <<regions, nextId, mix, page, shown, syncing, linked, locked, drags, losses>>

\* A free slot; the slots are interchangeable.
Free ==
    LET free == {q \in Slots : inflight[q].state = "idle"}
    IN  IF free = {} THEN {} ELSE {CHOOSE q \in free : TRUE}

PageNext ==
    \/ \E q \in Free : Toolbar(q) \/ Persist(q)
    \/ \E q \in Slots : Serve(q) \/ Answer(q) \/ Lose(q)
    \/ \E t \in Lanes : Drag(t)
    \/ SwitchMode \/ Select \/ Settle

PageSpec == PageInit /\ [][PageNext]_pageVars

-----------------------------------------------------------------------------
\* The regions of the song play in one definite order, and all of them can be
\* heard; while the page asks for one thing at a time they are also long enough
\* to be drawn at their length, selected and deleted, whatever is split, cut,
\* trimmed and repeated: the server itself asks less of a split.
RegionsUsable ==
    /\ IndexesDense
    /\ \A r \in DOMAIN regions :
          /\ 0 <= regions[r].start /\ regions[r].end <= Length
          /\ regions[r].start + (IF alone THEN MinRange ELSE 1) <= regions[r].end

\* The page knows the song as it is and waits for nothing.
UpToDate == page = Copy /\ \A q \in Slots : inflight[q].state = "idle"

\* What the toolbar asks for is not refused then: the page and the server agree
\* on paddings and bounds, whatever lengths the clips of the two tracks have.
AskedIsAccepted == UpToDate => \A op \in ToolbarOps(0 .. Length) : Results(op) # {}

\* Where a single drag or trim can be told from the rest of the timeline: the
\* page listens, nothing was faded, and in linked mode the last track is the
\* one dragged and none was edited by itself.
Told(t) ==
    /\ UpToDate /\ alone /\ ~syncing /\ shown = Drawn(page)
    /\ \A i \in DOMAIN mix : mix[i].does # "fade"
    /\ linked => t = Last(TrackOrder) /\ mix = <<>>

\* A trim of no more than the tolerance: the page may take it for the noise of
\* converting samples.
Slight(was, clips) ==
    /\ RegionsOf(clips) = RegionsOf(was)
    /\ \A i \in DOMAIN was :
          ~Apart(was[i].from, clips[i].from) /\ ~Apart(was[i].to, clips[i].to)

\* Then a slight trim is taken for nothing, and after any other drag the
\* timeline is the one that is drawn when the server has done what the drag is
\* taken for, whichever region the move of another is taken for.  (The page
\* asks for it unless the timer sent the same last: see Drag.)
DragIsKept ==
    \A t \in Lanes : Told(t) =>
        \A clips \in Gestures(t, shown[t], 0 .. Length) \ {shown[t]} :
            LET op == Resolved(AfterGesture(t, clips), page, linked)
            IN  IF Slight(shown[t], clips) THEN op = NoOp
                ELSE /\ op # NoOp
                     /\ ~(locked /\ op.does \in Advanced) =>
                          {Drawn([regions |-> rs, mix |-> Remembered(op)])[t] : rs \in Results(op)}
                             = {clips}

\* What the page shows, asks for and sends is what the song is, which it can show.
PageMatchesSong == RegionsUsable /\ AskedIsAccepted /\ DragIsKept

=============================================================================
