------------------------------- MODULE MixedParse -------------------------------
(***************************************************************************)
(* MixedParse of crates/rezel-common/src/mix.rs.  Once the outer parse has *)
(* returned its tree, one call walks the tree with a cursor, collects the  *)
(* inner parses, runs them and mounts their trees.  A node that is picked  *)
(* may be packed in a buffer; it is then taken out, which rebuilds the     *)
(* trees around it.                                                        *)
(*                                                                         *)
(* A target is named by the way to it, the child numbers from the root,    *)
(* which stay the same when buffers are taken apart.  Trees are            *)
(* references: a tree at the same way that was rebuilt is another one, and *)
(* a mount on the old one is never seen (fresh).  Active overlays always   *)
(* follow (replace_materialized_targets), so they have a way only.         *)
(***************************************************************************)
EXTENDS TreeCursor

CONSTANTS
    Requests,         \* request records as in MixedTree, with the tree
    Pieces(_, _, _),
    StopPoints        \* positions the caller stops at

VARIABLES
    request,          \* what is parsed: tree, shown, len, selected, spec
    base,             \* whether the outer parse is there
    baseStop,         \* its stop point
    stop,             \* stopped_at
    stage,            \* "idle" between calls, "look", "leave", "mount"
    walk,             \* cursor, jobs, overlays and covered
    tree,             \* the tree inner trees are mounted on
    answer,           \* what the last call returned
    result

vars == <<request, base, baseStop, stop, stage, walk, tree, answer, result>>

NoStop == -1

-----------------------------------------------------------------------------
(* Ranges.                                                                 *)

Piece(from, to) == [from |-> from, to |-> to]

Cover(ranges, from, to) ==
    LET touching == {i \in DOMAIN ranges : ranges[i].from < to /\ ranges[i].to > from}
        first == ranges[FirstOf(touching, 1)]
    IN  IF touching = {} THEN "none"
        ELSE IF first.from <= from /\ first.to >= to THEN "full"
        ELSE "partial"

RECURSIVE Intersect(_, _)
Intersect(a, b) ==
    IF a = <<>> \/ b = <<>> THEN <<>>
    ELSE LET start == IF a[1].from >= b[1].from THEN a[1].from ELSE b[1].from
             end == IF a[1].to <= b[1].to THEN a[1].to ELSE b[1].to
         IN  (IF start < end THEN <<Piece(start, end)>> ELSE <<>>)
             \o IF a[1].to <= b[1].to THEN Intersect(Tail(a), b)
                ELSE Intersect(a, Tail(b))

Valid(ranges) ==
    /\ ranges # <<>>
    /\ \A i \in DOMAIN ranges :
          /\ ranges[i].from # ranges[i].to /\ ranges[i].to <= request.len
          /\ i > 1 => ranges[i - 1].to <= ranges[i].from

PushRange(ranges, range) ==
    IF ranges # <<>> /\ Last(ranges).to = range.from
    THEN Append(Front(ranges), Piece(Last(ranges).from, range.to))
    ELSE Append(ranges, range)

Relative(ranges, start) ==
    [i \in DOMAIN ranges |-> Piece(ranges[i].from - start, ranges[i].to - start)]

-----------------------------------------------------------------------------
(* Taking the current node out of its buffer: the buffer becomes a tree    *)
(* without a type, the records beside the node and those above it become   *)
(* buffers and trees of their own.                                         *)

Slice(data, from, end, zero) ==
    LET records == [i \in 1..(end - from) |->
                       [type |-> data[from + i - 1].type,
                        from |-> data[from + i - 1].from - zero,
                        to |-> data[from + i - 1].to - zero,
                        next |-> data[from + i - 1].next - from + 1]]
    IN  Buffer(records,
               FoldLeft(LAMBDA len, r : IF r.to > len THEN r.to ELSE len, 0,
                        records))

SlicedKid(data, from, end, offset) ==
    IF from >= end THEN <<>>
    ELSE <<Kid(Slice(data, from, end, data[from].from), data[from].from - offset)>>

RecordTree(data, i) ==
    Tree(data[i].type,
         IF i + 1 < data[i].next
         THEN <<Kid(Slice(data, i + 1, data[i].next, data[i].from), 0)>>
         ELSE <<>>,
         data[i].to - data[i].from)

(* records is the way to the node within the buffer, from..end - 1 are the *)
(* records of the tree that is made.                                       *)
RECURSIVE SplitBuffer(_, _, _, _, _, _, _)
SplitBuffer(data, records, from, end, type, offset, len) ==
    LET i == records[1]
        child == IF Len(records) = 1 THEN RecordTree(data, i)
                 ELSE SplitBuffer(data, Tail(records), i + 1, data[i].next,
                                  data[i].type, data[i].from,
                                  data[i].to - data[i].from)
    IN  Tree(type,
             SlicedKid(data, from, i, offset)
             \o <<Kid(child, data[i].from - offset)>>
             \o SlicedKid(data, data[i].next, end, offset),
             len)

(* The frames from a tree made of a buffer down to the node: it is the     *)
(* only child on the way that is a tree.                                   *)
RECURSIVE SplitFrames(_, _)
SplitFrames(frame, depth) ==
    LET k == CHOOSE k \in DOMAIN frame.tree.kids : IsTree(frame.tree.kids[k].node)
        kid == frame.tree.kids[k]
    IN  IF depth = 0 THEN <<frame>>
        ELSE <<frame>> \o SplitFrames(Frame(kid.node, frame.from + kid.at, k),
                                      depth - 1)

RECURSIVE Rebuilt(_, _, _)
Rebuilt(path, child, node) ==
    IF path = <<>> THEN <<>>
    ELSE LET frame == Last(path)
             new == [frame.tree EXCEPT !.kids[child].node = node]
         IN  Append(Rebuilt(Front(path), frame.child, new),
                    [frame EXCEPT !.tree = new])

MaterializeCurrent(c) ==
    LET data == Data(c)
        records == Append(c.stack, c.index)
        child == c.buffer[1].child
        split == SplitBuffer(data, records, 1, Len(data) + 1, NoneType, 0,
                             c.buffer[1].buffer.len)
    IN  IF ~InBuffer(c) THEN c
        ELSE [LeaveBuffer(c) EXCEPT
                !.path = Rebuilt(@, child, split)
                         \o SplitFrames(Frame(split, c.buffer[1].start, child),
                                        Len(records))]

Way(c) == [i \in 1..(Len(c.path) - 1) |-> c.path[i + 1].child]

OnTheWay(way, c) == Len(way) < Len(c.path) /\ way = SubSeq(Way(c), 1, Len(way))

-----------------------------------------------------------------------------
(* The walk: jobs has a place for every inner parse in the order the hosts *)
(* are met, empty while an overlay is open and when it finds nothing.      *)

Blank == [cursor |-> <<>>, jobs |-> <<>>, overlays |-> <<>>, covered |-> <<>>]

Started(root) ==
    [Blank EXCEPT !.cursor = FromTree(root, {"include_anonymous", "ignore_mounts"})]

Job(parser, ranges, overlay, way) ==
    [parser |-> parser, ranges |-> ranges, overlay |-> overlay,
     target |-> way, fresh |-> TRUE]

(* Both innermost scopes count the levels below their hosts.               *)
Counted(scopes, by) ==
    IF scopes = <<>> THEN <<>>
    ELSE Append(Front(scopes), [Last(scopes) EXCEPT !.depth = @ + by])

Deeper(w) ==
    [w EXCEPT !.overlays = Counted(@, 1), !.covered = Counted(@, 1)]

Done(w) == [walk |-> w, ok |-> TRUE]

Failed(w) == [walk |-> w, ok |-> FALSE]

FinishOverlay(w, overlay) ==
    LET ranges == Intersect(request.selected, overlay.ranges)
    IN  IF overlay.ranges = <<>> THEN Done(w)
        ELSE IF ~Valid(overlay.ranges) THEN Failed(w)
        ELSE IF ranges = <<>> THEN Done(w)
        ELSE Done([w EXCEPT !.jobs[overlay.slot] =
                      <<Job(overlay.parser, ranges,
                            Relative(overlay.ranges, overlay.start),
                            overlay.target)>>])

PopCovered(w) ==
    IF w.covered # <<>> /\ Last(w.covered).depth = 0
    THEN [w EXCEPT !.covered = Front(@)] ELSE w

PopOverlay(w) ==
    IF w.overlays # <<>> /\ Last(w.overlays).depth = 0
    THEN FinishOverlay([w EXCEPT !.overlays = Front(@)], Last(w.overlays))
    ELSE Done(w)

FinishFlat(w) ==
    LET popped == PopOverlay(w)
    IN  [popped EXCEPT !.walk = PopCovered(@)]

LeaveScopes(w) ==
    LET popped == PopOverlay([w EXCEPT !.overlays = Counted(@, -1)])
    IN  [popped EXCEPT !.walk = PopCovered([@ EXCEPT !.covered = Counted(@, -1)])]

-----------------------------------------------------------------------------
(* A node that is not covered by ranges of an inner parse is shown to the  *)
(* specification.                                                          *)

CurrentNest(c) ==
    LET nest == request.spec.nest[NodeType(c)]
    IN  IF \/ IsAnonymous(NodeType(c))
           \/ NodeFrom(c) = NodeTo(c) /\ nest.kind # "replace"
        THEN [kind |-> "none", part |-> "", parser |-> 0]
        ELSE nest

Offered(w) ==
    LET c == w.cursor
        match == IF IsAnonymous(NodeType(c)) THEN <<>>
                 ELSE Pieces(request.spec.match[NodeType(c)], NodeFrom(c), NodeTo(c))
    IN  IF w.overlays = <<>> \/ match = <<>> \/ match[1].from = match[1].to THEN w
        ELSE [w EXCEPT !.overlays =
                Append(Front(@), [Last(@) EXCEPT !.ranges =
                                     PushRange(@, match[1])])]

FollowedLast(w) ==
    IF w.covered = <<>> THEN {} ELSE {Last(w.covered).job}

(* Rebuilt targets are replaced in the jobs of all covered ranges.         *)
Followed(w) == {w.covered[i].job : i \in DOMAIN w.covered}

TakeOutFlat(w) == [w EXCEPT !.cursor = MaterializeCurrent(@)]

TakeOut(w) ==
    LET out == [w EXCEPT
                  !.cursor = MaterializeCurrent(@),
                  !.jobs = [i \in DOMAIN @ |->
                      IF /\ @[i] # <<>> /\ OnTheWay(@[i][1].target, w.cursor)
                         /\ i \notin Followed(w)
                      THEN <<[@[i][1] EXCEPT !.fresh = FALSE]>> ELSE @[i]]]
    IN  IF InBuffer(w.cursor) THEN Deeper(out) ELSE w

Replace(w, nest) ==
    LET from == NodeFrom(w.cursor)
        to == NodeTo(w.cursor)
        asked == IF from = to THEN <<>> ELSE <<Piece(from, to)>>
    IN  [w EXCEPT !.jobs =
            Append(@, <<Job(nest.parser, Intersect(request.selected, asked),
                            <<>>, Way(w.cursor))>>)]

CoverRanges(w, nest) ==
    LET from == NodeFrom(w.cursor)
        asked == Pieces(nest.part, from, NodeTo(w.cursor))
        ranges == Intersect(request.selected, asked)
        slot == Len(w.jobs) + 1
    IN  IF asked = <<>> THEN Done(w)
        ELSE IF ~Valid(asked) THEN Failed(w)
        ELSE IF ranges = <<>> THEN Done(w)
        ELSE Done([w EXCEPT
                !.jobs = Append(@, <<Job(nest.parser, ranges,
                                         Relative(asked, from), Way(w.cursor))>>),
                !.covered = Append(@, [ranges |-> ranges, job |-> slot,
                                       depth |-> 0])])

OpenOverlay(w, nest) ==
    [w EXCEPT !.jobs = Append(@, <<>>),
              !.overlays = Append(@, [parser |-> nest.parser, ranges |-> <<>>,
                                      target |-> Way(w.cursor),
                                      start |-> NodeFrom(w.cursor),
                                      slot |-> Len(w.jobs) + 1, depth |-> 0])]

VisitUncovered(w) ==
    LET nest == CurrentNest(w.cursor)
        out == TakeOut(w)
    IN  CASE nest.kind = "none"      -> Done(Offered(w))
          [] nest.kind = "replace"   -> Done(Replace(out, nest))
          [] nest.kind = "ranges"    -> CoverRanges(out, nest)
          [] nest.kind = "predicate" -> Done(OpenOverlay(out, nest))

Coverage(w) ==
    IF w.covered = <<>> THEN "none"
    ELSE Cover(Last(w.covered).ranges, NodeFrom(w.cursor), NodeTo(w.cursor))

Enters(w) ==
    \/ Coverage(w) = "partial"
    \/ Coverage(w) = "none" /\ CurrentNest(w.cursor).kind # "replace"

-----------------------------------------------------------------------------
(* The calls.                                                              *)

Init ==
    /\ request \in Requests
    /\ base = "parsing" /\ baseStop = NoStop /\ stop = NoStop
    /\ stage = "idle" /\ walk = Blank /\ tree = request.tree
    /\ answer = "none" /\ result = <<>>

(* The last position the outer parse may be stopped at.                    *)
BaseEnd == Last(request.selected).to

StopAtUntold(position) ==
    /\ stage = "idle"
    /\ position <= request.len /\ (stop = NoStop \/ position <= stop)
    /\ stop' = position
    /\ UNCHANGED <<request, base, baseStop, stage, walk, tree, answer, result>>

StopAt(position) ==
    /\ stage = "idle"
    /\ position <= request.len /\ (stop = NoStop \/ position <= stop)
    /\ stop' = position
    /\ baseStop' = IF /\ base = "parsing" /\ position <= BaseEnd
                      /\ baseStop = NoStop \/ position <= baseStop
                   THEN position ELSE baseStop
    /\ UNCHANGED <<request, base, stage, walk, tree, answer, result>>

(* The outer parse needs more calls, or fails.                             *)
Advance ==
    /\ stage = "idle" /\ base = "parsing"
    /\ answer' \in {"none", "error"}
    /\ UNCHANGED <<request, base, baseStop, stop, stage, walk, tree, result>>

AdvanceGone ==
    /\ stage = "idle" /\ base = "gone"
    /\ answer' = "none"
    /\ UNCHANGED <<request, base, baseStop, stop, stage, walk, tree, result>>

TakeBase ==
    /\ stage = "idle" /\ base = "parsing"
    /\ base' = "gone" /\ baseStop' = NoStop
    /\ stage' = "look" /\ walk' = Started(request.tree)
    /\ UNCHANGED <<request, stop, tree, answer, result>>

FailSilently ==
    /\ stage' = "idle" /\ walk' = Blank
    /\ UNCHANGED <<request, base, baseStop, stop, tree, answer, result>>

Fail ==
    /\ answer' = "error"
    /\ stage' = "idle" /\ walk' = Blank
    /\ UNCHANGED <<request, base, baseStop, stop, tree, result>>

Continue(w, next) ==
    /\ walk' = w /\ stage' = next
    /\ UNCHANGED <<request, base, baseStop, stop, tree, answer, result>>

Visited(w) == IF Coverage(w) = "none" THEN VisitUncovered(w) ELSE Done(w)

Look ==
    /\ stage = "look"
    /\ \E visit \in {Visited(walk)} :
          \/ ~visit.ok /\ Fail
          \/ /\ visit.ok
             /\ \E into \in {EnterChild(visit.walk.cursor, 1, 0, DontCare)} :
                   \/ /\ Enters(walk) /\ into.found
                      /\ Continue(Deeper([visit.walk EXCEPT !.cursor = into.cursor]),
                                  "look")
                   \/ /\ ~(Enters(walk) /\ into.found)
                      /\ \E flat \in {FinishFlat(visit.walk)} :
                            flat.ok /\ Continue(flat.walk, "leave")

Leave ==
    LET beside == Sibling(walk.cursor, 1)
        above == Parent(beside.cursor)
        left == LeaveScopes([walk EXCEPT !.cursor = above.cursor])
    IN  /\ stage = "leave"
        /\ \/ beside.found /\ Continue([walk EXCEPT !.cursor = beside.cursor], "look")
           \/ ~beside.found /\ above.found /\ left.ok /\ Continue(left.walk, "leave")
           \/ ~beside.found /\ above.found /\ ~left.ok /\ Fail
           \/ /\ ~beside.found /\ ~above.found
              /\ tree' = walk.cursor.path[1].tree
              /\ walk' = [Blank EXCEPT !.jobs = FlattenSeq(walk.jobs)]
              /\ stage' = "mount"
              /\ UNCHANGED <<request, base, baseStop, stop, answer, result>>

(* What the inner parser returns: one leaf for each range.                 *)
InnerTree(parser, ranges) ==
    LET Width(r) == r.to - r.from
    IN  IF ranges = <<>> THEN Tree(parser, <<>>, 0)
        ELSE Tree(parser,
                  [i \in DOMAIN ranges |->
                      Kid(Tree(parser + 1, <<>>, Width(ranges[i])),
                          ranges[i].from - ranges[1].from)],
                  Last(ranges).to - ranges[1].from)

RECURSIVE MountAt(_, _, _)
MountAt(root, way, job) ==
    IF way = <<>> THEN Mounted(root, InnerTree(job.parser, job.ranges), job.overlay)
    ELSE [root EXCEPT !.kids[way[1]].node = MountAt(@, Tail(way), job)]

Mount ==
    LET job == walk.jobs[1]
    IN  /\ stage = "mount" /\ walk.jobs # <<>>
        /\ tree' = IF job.fresh THEN MountAt(tree, job.target, job) ELSE tree
        /\ walk' = [walk EXCEPT !.jobs = Tail(@)]
        /\ UNCHANGED <<request, base, baseStop, stop, stage, answer, result>>

InnerFails == stage = "mount" /\ walk.jobs # <<>> /\ Fail

Complete ==
    /\ stage = "mount" /\ walk.jobs = <<>>
    /\ answer' = "tree" /\ result' = <<ReadNode(tree, 0, {})>>
    /\ stage' = "idle" /\ walk' = Blank
    /\ UNCHANGED <<request, base, baseStop, stop, tree>>

Next ==
    \/ \E position \in StopPoints : StopAt(position)
    \/ Advance \/ AdvanceGone \/ TakeBase
    \/ Look \/ Leave \/ Mount \/ InnerFails \/ Complete

(* A call runs until it returns: weak fairness of its steps, one of which  *)
(* can be taken as long as the call is under way.                          *)
CallsRun == []<>(stage = "idle") \/ []<><<stage # "idle">>_vars

Spec == Init /\ [][Next]_vars /\ CallsRun

-----------------------------------------------------------------------------
Outer == INSTANCE MixedTree WITH over <- (base = "gone" /\ stage = "idle")

(* However the outer tree is packed, balanced and taken apart on the way,  *)
(* the parse returns, once, the tree whose every picked node shows its     *)
(* inner tree over the text it was picked for; ranges that are none make   *)
(* it fail.                                                                *)
MixedSpec == Outer!MixedSpec

Level(c) == Len(c.path) + IF InBuffer(c) THEN Len(c.stack) + 1 ELSE 0

(* The depth of a scope is the number of levels from its host to the       *)
(* cursor, or to the host of the next scope; and the host is where the     *)
(* scope says, around the cursor.                                          *)
ScopesMatch ==
    stage \in {"look", "leave"} =>
        LET c == walk.cursor
            Host(o) == Len(o.target) + 1
            JobOf(s) == walk.jobs[s.job][1]
            Ends(scopes, H(_)) ==
                \A i \in DOMAIN scopes :
                    /\ scopes[i].depth =
                         (IF i = Len(scopes) THEN Level(c) ELSE H(scopes[i + 1]))
                         - H(scopes[i])
        IN  /\ Ends(walk.overlays, Host)
            /\ Ends(walk.covered, LAMBDA s : Host(JobOf(s)))
            /\ \A i \in DOMAIN walk.overlays : OnTheWay(walk.overlays[i].target, c)
            /\ \A i \in DOMAIN walk.covered : OnTheWay(JobOf(walk.covered[i]).target, c)

(* What an inner tree shows lies in the text that was selected.            *)
RECURSIVE InnerLeaves(_)
InnerLeaves(n) ==
    (IF n.inner = <<>> THEN {}
     ELSE {n.inner[1].root.kids[i] : i \in DOMAIN n.inner[1].root.kids})
    \union UNION {InnerLeaves(n.kids[i]) : i \in DOMAIN n.kids}

InnerInPlace ==
    stage = "idle" /\ answer = "tree" =>
        \A leaf \in InnerLeaves(result[1]) :
            \E i \in DOMAIN request.selected :
                /\ request.selected[i].from <= leaf.from
                /\ request.selected[i].to >= leaf.to

(* A stop point that the outer parse refuses is kept all the same; the two *)
(* differ only where it lies behind the selected text.                     *)
StopsAgree ==
    base = "parsing" => baseStop = stop \/ (baseStop = NoStop /\ stop > BaseEnd)

(* A call that has got the outer tree returns, with the tree or an error.  *)
Returns == (stage # "idle") ~> (stage = "idle" /\ answer # "none")
=============================================================================
