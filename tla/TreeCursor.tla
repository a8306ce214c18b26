------------------------------ MODULE TreeCursor ------------------------------
(***************************************************************************)
(* TreeCursor and SyntaxNode of crates/rezel-common/src/tree.rs as         *)
(* operators on the place they keep: the frames from the root to the       *)
(* current tree, and, within a packed buffer, the buffer, the records      *)
(* around the current one and the current one.                             *)
(*                                                                         *)
(* A frame's child is its number among the children of the frame above, 0  *)
(* for the root and for the root of an overlay.  Every operation returns   *)
(* the new cursor and whether it moved.  The flags of a mode are a set;    *)
(* ENTER_BRACKETED is not among them because every constructor clears it.  *)
(***************************************************************************)
EXTENDS SyntaxTree

Frame(tree, from, child) == [tree |-> tree, from |-> from, child |-> child]

FromTree(tree, mode) ==
    [path |-> <<Frame(tree, 0, 0)>>, buffer |-> <<>>, stack |-> <<>>,
     index |-> 0, mode |-> mode]

Current(c) == c.path[Len(c.path)]

InBuffer(c) == c.buffer # <<>>

Data(c) == c.buffer[1].buffer.data

NodeType(c) ==
    IF InBuffer(c) THEN Data(c)[c.index].type ELSE Current(c).tree.type

NodeFrom(c) ==
    IF InBuffer(c) THEN c.buffer[1].start + Data(c)[c.index].from
    ELSE Current(c).from

NodeTo(c) ==
    IF InBuffer(c) THEN c.buffer[1].start + Data(c)[c.index].to
    ELSE Current(c).from + Current(c).tree.len

Moved(c) == [cursor |-> c, found |-> TRUE]

Unmoved(c) == [cursor |-> c, found |-> FALSE]

-----------------------------------------------------------------------------
Before == -2
DontCare == 4

CheckSide(side, pos, from, to) ==
    CASE side = Before   -> from < pos
      [] side = -1       -> to >= pos /\ from < pos
      [] side = 0        -> from < pos /\ to > pos
      [] side = 1        -> from <= pos /\ to > pos
      [] side = 2        -> to > pos
      [] side = DontCare -> TRUE

(* The records among which one is looked for, in order.                    *)
RECURSIVE Siblings(_, _, _)
Siblings(data, i, end) ==
    IF i >= end THEN <<>> ELSE <<i>> \o Siblings(data, data[i].next, end)

EndOf(records, dir) ==
    IF records = <<>> THEN 0 ELSE IF dir > 0 THEN records[1] ELSE records[Len(records)]

FindBufferChild(data, from, end, dir, pos, start, side) ==
    EndOf(SelectSeq(Siblings(data, from, end),
                    LAMBDA i : CheckSide(side, pos, start + data[i].from,
                                         start + data[i].to)),
          dir)

EnterBuffer(c, context, index) ==
    [c EXCEPT !.buffer = <<context>>, !.stack = <<>>, !.index = index]

LeaveBuffer(c) == [c EXCEPT !.buffer = <<>>, !.stack = <<>>, !.index = 0]

Shows(mode, type) == "include_anonymous" \in mode \/ ~IsAnonymous(type)

-----------------------------------------------------------------------------
(* Looking for a child of the current frame, through the anonymous ones.   *)

Fits(c, i, dir, pos, side) ==
    LET kid == Current(c).tree.kids[i].node
        start == Current(c).from + Current(c).tree.kids[i].at
    IN  /\ CheckSide(side, pos, start, start + kid.len)
        /\ IF IsTree(kid)
           THEN Shows(c.mode, kid.type) \/ HasVisibleChild(kid)
           ELSE /\ "exclude_buffers" \notin c.mode
                /\ FindBufferChild(kid.data, 1, Len(kid.data) + 1, dir, pos,
                                   start, side) # 0

Fitting(c, i, dir, pos, side) ==
    {k \in DOMAIN Current(c).tree.kids :
        (IF dir > 0 THEN k >= i ELSE k <= i) /\ Fits(c, k, dir, pos, side)}

FirstOf(indices, dir) ==
    CHOOSE i \in indices :
        \A k \in indices : IF dir > 0 THEN i <= k ELSE i >= k

(* The number of the child that is looked for, 0 if there is none.         *)
FirstFit(fitting, dir) == IF fitting = {} THEN 0 ELSE FirstOf(fitting, dir)

Edge(tree, dir) == IF dir > 0 THEN 1 ELSE Len(tree.kids)

Push(c, frame) == [c EXCEPT !.path = Append(@, frame)]

(* A replacement mount stands in for its host.                             *)
Stands(c, kid) ==
    IF "ignore_mounts" \notin c.mode /\ Replaced(kid) THEN kid.mount[1].tree
    ELSE kid

Arrives(c, kid) ==
    \/ "ignore_mounts" \notin c.mode /\ Replaced(kid)
    \/ Shows(c.mode, kid.type)

RestorePath(c, length, removed) ==
    [c EXCEPT !.path = SubSeq(@, 1, IF Len(@) < length THEN Len(@) ELSE length)
                       \o removed]

(* Where the search goes on in the frame above, one that is left.          *)
Resume(above, frame, dir) ==
    IF frame.child # 0 THEN frame.child + dir
    ELSE IF dir < 0 THEN 0 ELSE Len(above.tree.kids) + 1

(* What a search asks for, and the length of the path it started with.     *)
Probe(dir, pos, side, length) ==
    [dir |-> dir, pos |-> pos, side |-> side, length |-> length]

KidFrom(c, k) == Current(c).from + Current(c).tree.kids[k].at

Into(c, k, kid) == Push(c, Frame(Stands(c, kid), KidFrom(c, k), k))

EnterPacked(c, k, kid, start, probe) ==
    Moved(EnterBuffer(c, [buffer |-> kid, child |-> k, start |-> start],
                      FindBufferChild(kid.data, 1, Len(kid.data) + 1,
                                      probe.dir, probe.pos, start, probe.side)))

LeftBehind(c, probe, removed) ==
    IF Len(c.path) <= probe.length THEN <<Current(c)>> \o removed ELSE removed

RECURSIVE Search(_, _, _, _), SearchFrom(_, _, _, _)
SearchKid(c, k, kid, probe, removed) ==
    IF ~IsTree(kid) THEN EnterPacked(c, k, kid, KidFrom(c, k), probe)
    ELSE IF Arrives(c, kid) THEN Moved(LeaveBuffer(Into(c, k, kid)))
    ELSE Search(Into(c, k, kid), Edge(kid, probe.dir), probe, removed)

SearchAbove(above, frame, probe, removed) ==
    IF above.path = <<>> THEN Unmoved(RestorePath(above, probe.length, removed))
    ELSE Search(above, Resume(Current(above), frame, probe.dir), probe, removed)

SearchFrom(c, k, probe, removed) ==
    IF k # 0 THEN SearchKid(c, k, Current(c).tree.kids[k].node, probe, removed)
    ELSE IF Shows(c.mode, Current(c).tree.type)
    THEN Unmoved(RestorePath(c, probe.length, removed))
    ELSE SearchAbove([c EXCEPT !.path = Front(@)], Current(c), probe,
                     LeftBehind(c, probe, removed))

Search(c, i, probe, removed) ==
    SearchFrom(c, FirstFit(Fitting(c, i, probe.dir, probe.pos, probe.side), probe.dir),
               probe, removed)

FindTreeChild(c, i, dir, pos, side) ==
    Search(c, i, Probe(dir, pos, side, Len(c.path)), <<>>)

EnterTreeChild(c, dir, pos, side) ==
    FindTreeChild(c, Edge(Current(c).tree, dir), dir, pos, side)

EnterRecord(c, index) ==
    IF index = 0 THEN Unmoved(c)
    ELSE Moved([c EXCEPT !.stack = Append(@, c.index), !.index = index])

EnterChild(c, dir, pos, side) ==
    IF InBuffer(c)
    THEN EnterRecord(c, FindBufferChild(Data(c), c.index + 1, Data(c)[c.index].next,
                                        dir, pos, c.buffer[1].start, side))
    ELSE EnterTreeChild(c, dir, pos, side)

-----------------------------------------------------------------------------
(* Overlays.                                                               *)

Touches(overlay, relative, side) ==
    \E i \in DOMAIN overlay :
        /\ IF side > 0 THEN overlay[i].from <= relative
           ELSE overlay[i].from < relative
        /\ IF side < 0 THEN overlay[i].to >= relative
           ELSE overlay[i].to > relative

EntersOverlay(c, pos, side) ==
    LET frame == Current(c)
    IN  /\ "ignore_overlays" \notin c.mode /\ Overlaid(frame.tree)
        /\ pos >= frame.from
        /\ Touches(frame.tree.mount[1].overlay, pos - frame.from, side)

EnterTree(c, pos, side) ==
    LET mount == Current(c).tree.mount[1]
    IN  IF EntersOverlay(c, pos, side)
        THEN Moved(Push(c, Frame(mount.tree,
                                 Current(c).from + mount.overlay[1].from, 0)))
        ELSE EnterTreeChild(c, 1, pos, side)

Enter(c, pos, side) ==
    IF ~InBuffer(c) THEN EnterTree(c, pos, side)
    ELSE IF "exclude_buffers" \in c.mode THEN Unmoved(c)
    ELSE EnterChild(c, 1, pos, side)

-----------------------------------------------------------------------------
(* Upwards and sideways.                                                   *)

(* The nearest frame at or above this one where a reader may stand.        *)
Standing(c, n) ==
    LET at == {k \in 2..n : Shows(c.mode, c.path[k].tree.type)}
    IN  IF at = {} THEN 1 ELSE CHOOSE k \in at : \A j \in at : j <= k

Parent(c) ==
    LET Above(n) == [LeaveBuffer(c) EXCEPT !.path = SubSeq(@, 1, Standing(c, n))]
        length == Len(c.path)
    IN  IF InBuffer(c) /\ c.stack # <<>>
        THEN Moved([c EXCEPT !.stack = Front(@), !.index = Last(c.stack)])
        ELSE IF InBuffer(c) THEN Moved(Above(length))
        ELSE IF length = 1 THEN Unmoved(c)
        ELSE Moved(Above(length - 1))

RecordsFrom(c) == IF c.stack = <<>> THEN 1 ELSE Last(c.stack) + 1

RecordsEnd(c) ==
    IF c.stack = <<>> THEN Len(Data(c)) + 1 ELSE Data(c)[Last(c.stack)].next

BesideRecordAnywhere(c, dir) ==
    IF dir > 0
    THEN IF Data(c)[c.index].next <= Len(Data(c)) THEN Data(c)[c.index].next ELSE 0
    ELSE FindBufferChild(Data(c), RecordsFrom(c), c.index, -1, 0,
                         c.buffer[1].start, DontCare)

(* The record beside the current one, 0 if there is none.                  *)
BesideRecord(c, dir) ==
    IF dir > 0
    THEN IF Data(c)[c.index].next < RecordsEnd(c) THEN Data(c)[c.index].next ELSE 0
    ELSE FindBufferChild(Data(c), RecordsFrom(c), c.index, -1, 0,
                         c.buffer[1].start, DontCare)

OrBack(moved, frame) ==
    IF moved.found THEN moved ELSE Unmoved(Push(moved.cursor, frame))

SiblingOfRecord(c, beside, dir) ==
    IF beside # 0 THEN Moved([c EXCEPT !.index = beside])
    ELSE IF c.stack = <<>>
    THEN FindTreeChild(c, c.buffer[1].child + dir, dir, 0, DontCare)
    ELSE Unmoved(c)

Sibling(c, dir) ==
    IF InBuffer(c) THEN SiblingOfRecord(c, BesideRecord(c, dir), dir)
    ELSE IF Current(c).child = 0 \/ Len(c.path) = 1 THEN Unmoved(c)
    ELSE OrBack(FindTreeChild([c EXCEPT !.path = Front(@)], Current(c).child + dir,
                              dir, 0, DontCare),
                Current(c))

VisibleCursorChild(kid, mode) ==
    IF IsTree(kid) THEN Shows(mode, kid.type) \/ HasVisibleChild(kid)
    ELSE "exclude_buffers" \notin mode

(* A record of the buffer, or of those around it, has another beside it.   *)
BufferGoesOn(c, dir) ==
    \E n \in 0..Len(c.stack) :
        LET at == [c EXCEPT !.stack = SubSeq(@, 1, n),
                            !.index = Append(c.stack, @)[n + 1]]
        IN  BesideRecord(at, dir) # 0

(* Some frame from n upwards has a visible child beside the one the cursor *)
(* came through.                                                           *)
PathGoesOn(c, child, n, dir) ==
    \E k \in 1..n :
        LET through == IF k = n THEN child ELSE c.path[k + 1].child
            kids == c.path[k].tree.kids
        IN  /\ through # 0
            /\ \E i \in DOMAIN kids :
                  /\ IF dir > 0 THEN i > through ELSE i < through
                  /\ VisibleCursorChild(kids[i].node, c.mode)

AtLastNode(c, dir) ==
    IF InBuffer(c)
    THEN /\ ~BufferGoesOn(c, dir)
         /\ ~PathGoesOn(c, c.buffer[1].child, Len(c.path), dir)
    ELSE ~PathGoesOn(c, Current(c).child, Len(c.path) - 1, dir)

RECURSIVE MoveOn(_, _)
MoveAbove(above, dir) == IF above.found THEN MoveOn(above.cursor, dir) ELSE above

MoveBeside(beside, dir) ==
    IF beside.found THEN beside
    ELSE IF AtLastNode(beside.cursor, dir) THEN Unmoved(beside.cursor)
    ELSE MoveAbove(Parent(beside.cursor), dir)

MoveOn(c, dir) == MoveBeside(Sibling(c, dir), dir)

OrMoveOn(into, c, dir) == IF into.found THEN into ELSE MoveOn(c, dir)

MoveCursor(c, dir, enter) ==
    IF enter THEN OrMoveOn(EnterChild(c, dir, 0, DontCare), c, dir) ELSE MoveOn(c, dir)

-----------------------------------------------------------------------------
(* To a position.                                                          *)

CoversAt(c, pos, side) == CheckSide(side, pos, NodeFrom(c), NodeTo(c))

RECURSIVE ClimbTo(_, _, _)
ClimbTo(c, pos, side) ==
    IF CoversAt(c, pos, side) \/ ~Parent(c).found THEN c
    ELSE ClimbTo(Parent(c).cursor, pos, side)

RECURSIVE Descend(_, _, _)
DescendInto(into, pos, side) ==
    IF into.found THEN Descend(into.cursor, pos, side) ELSE into.cursor

Descend(c, pos, side) == DescendInto(EnterChild(c, 1, pos, side), pos, side)

MoveTo(c, pos, side) == Moved(Descend(ClimbTo(c, pos, side), pos, side))
=============================================================================
