------------------------------ MODULE SyntaxNode ------------------------------
(***************************************************************************)
(* SyntaxNode of crates/rezel-common/src/tree.rs, the immutable view of a  *)
(* node.  It reaches children, siblings and parents with code of its own,  *)
(* always in the default mode; its location is a cursor of TreeCursor that *)
(* is replaced instead of moved.                                           *)
(***************************************************************************)
EXTENDS TreeCursor

RECURSIVE NextFrom(_, _, _)
NextOf(c, i, probe) ==
    NextFrom(c, FirstFit(Fitting(c, i, probe.dir, probe.pos, probe.side), probe.dir), probe)

NextInto(child, kid, c, probe) ==
    IF Arrives(c, kid) THEN Moved(child) ELSE NextOf(child, Edge(kid, probe.dir), probe)

NextKid(c, k, kid, probe) ==
    IF ~IsTree(kid) THEN EnterPacked(c, k, kid, KidFrom(c, k), probe)
    ELSE NextInto(Into(LeaveBuffer(c), k, kid), kid, c, probe)

NextAbove(above, frame, probe) ==
    NextOf(above, Resume(Current(above), frame, probe.dir), probe)

NextFrom(c, k, probe) ==
    IF k # 0 THEN NextKid(c, k, Current(c).tree.kids[k].node, probe)
    ELSE IF Shows(c.mode, Current(c).tree.type) \/ Len(c.path) = 1 THEN Unmoved(c)
    ELSE NextAbove([c EXCEPT !.path = Front(@)], Current(c), probe)

NextChild(c, i, dir, pos, side) == NextOf(c, i, Probe(dir, pos, side, 0))

OrStay(c, next) == IF next.found THEN next ELSE Unmoved(c)

NodeChild(c, dir, pos, side) ==
    IF InBuffer(c) THEN EnterChild(c, dir, pos, side)
    ELSE OrStay(c, NextChild(c, Edge(Current(c).tree, dir), dir, pos, side))

RawParent(c) ==
    IF InBuffer(c) /\ c.stack # <<>>
    THEN Moved([c EXCEPT !.stack = Front(@), !.index = Last(c.stack)])
    ELSE IF InBuffer(c) THEN Moved(LeaveBuffer(c))
    ELSE IF Len(c.path) = 1 THEN Unmoved(c)
    ELSE Moved([c EXCEPT !.path = Front(@)])

RECURSIVE VisibleParent(_)
VisibleParent(c) ==
    LET raw == RawParent(c)
    IN  IF raw.found /\ ~Shows(c.mode, NodeType(raw.cursor))
        THEN VisibleParent(raw.cursor)
        ELSE raw

NodeParent(c) == OrStay(c, VisibleParent(c))

NodeBeside(c, beside, dir) ==
    IF beside # 0 THEN Moved([c EXCEPT !.index = beside])
    ELSE IF c.stack = <<>>
    THEN OrStay(c, NextChild(c, c.buffer[1].child + dir, dir, 0, DontCare))
    ELSE Unmoved(c)

NodeSibling(c, dir) ==
    IF InBuffer(c) THEN NodeBeside(c, BesideRecord(c, dir), dir)
    ELSE IF Len(c.path) = 1 \/ Current(c).child = 0 THEN Unmoved(c)
    ELSE OrStay(c, NextChild([c EXCEPT !.path = Front(@)], Current(c).child + dir,
                             dir, 0, DontCare))

NodeEnter(c, pos, side) ==
    IF ~InBuffer(c) /\ EntersOverlay(c, pos, side) THEN EnterTree(c, pos, side)
    ELSE NodeChild(c, 1, pos, side)

-----------------------------------------------------------------------------
(* resolve_node: outwards until the position is covered, then inwards.     *)

IsOverlayRoot(c) == ~InBuffer(c) /\ Len(c.path) > 1 /\ Current(c).child = 0

RECURSIVE ClimbOut(_, _, _, _)
ClimbOut(c, pos, side, overlays) ==
    IF \/ CoversAt(c, pos, side)
       \/ ~overlays /\ IsOverlayRoot(c)
       \/ ~NodeParent(c).found
    THEN c
    ELSE ClimbOut(NodeParent(c).cursor, pos, side, overlays)

RECURSIVE LeaveOverlays(_, _, _, _)
Left(node, scan, parent, inner) ==
    IF IsOverlayRoot(scan) /\ (inner.found => NodeFrom(inner.cursor) # NodeFrom(scan))
    THEN parent ELSE node

LeaveAbove(node, scan, parent, pos, side) ==
    IF ~parent.found THEN node
    ELSE LeaveOverlays(Left(node, scan, parent.cursor,
                            NodeEnter(parent.cursor, pos, side)),
                       parent.cursor, pos, side)

LeaveOverlays(node, scan, pos, side) ==
    LeaveAbove(node, scan, NodeParent(scan), pos, side)

RECURSIVE EnterAll(_, _, _)
EnterOn(next, pos, side) ==
    IF next.found THEN EnterAll(next.cursor, pos, side) ELSE next.cursor

EnterAll(c, pos, side) == EnterOn(NodeEnter(c, pos, side), pos, side)

EnteredFrom(from, mode, pos, side) ==
    [EnterAll([from EXCEPT !.mode = mode], pos, side) EXCEPT !.mode = {}]

ResolveFrom(around, pos, side, overlays) ==
    Moved(IF ~CoversAt(around, pos, side) THEN around
          ELSE IF overlays
          THEN EnteredFrom(LeaveOverlays(around, around, pos, side), {}, pos, side)
          ELSE EnteredFrom(around, {"ignore_overlays"}, pos, side))

ResolveNode(c, pos, side, overlays) ==
    ResolveFrom(ClimbOut(c, pos, side, overlays), pos, side, overlays)
=============================================================================
