------------------------------ MODULE TreeReader ------------------------------
(***************************************************************************)
(* A tree is built from a postfix buffer, possibly balanced, taken out of  *)
(* its buffers or given a mount, and then read through a TreeCursor or     *)
(* through SyntaxNodes, one request after the other.                       *)
(***************************************************************************)
EXTENDS SyntaxNode, TreeBuild

CONSTANTS
    Builds,        \* TreeBuild records
    Forms,         \* what was done to the built tree, see Formed
    Mounts,        \* kinds of mount, see WithMount
    Inner(_),      \* the mounted tree of a length
    Modes,         \* iteration modes of cursors
    Positions,     \* positions and
    Sides,         \* sides that are asked for
    Reads(_, _)    \* whether the tree of a build is read

VARIABLES
    build,         \* the buffer the tree was built from
    root,          \* the tree
    shown,         \* what there is to be seen of it in the cursor's mode
    place,         \* where the cursor is in that
    cursor,        \* the cursor, or the location of the node
    reader,        \* "closed", "cursor" or "node"
    request,       \* the request under way
    found          \* what the last one returned

vars == <<build, root, shown, cursor, place, reader, request, found>>

-----------------------------------------------------------------------------
Formed(tree, form) ==
    CASE form = "built"        -> tree
      [] form = "balanced"     -> Balance(tree)
      [] form = "materialized" -> Materialize(tree)

(* The first child that is a tree of its own and has text gets a mount: a  *)
(* tree of another language in its place, or over its first character.     *)
HostOf(tree) ==
    LET hosts == {i \in DOMAIN tree.kids :
                    /\ IsTree(tree.kids[i].node) /\ tree.kids[i].node.len > 0
                    /\ ~IsAnonymous(tree.kids[i].node.type)}
    IN  IF hosts = {} THEN 0 ELSE CHOOSE i \in hosts : \A j \in hosts : i <= j

WithMount(tree, mount) ==
    LET i == HostOf(tree)
        len == tree.kids[i].node.len
    IN  IF mount = "none" \/ i = 0 THEN tree
        ELSE [tree EXCEPT !.kids[i].node =
                IF mount = "replacement" THEN Mounted(@, Inner(len), <<>>)
                ELSE Mounted(@, Inner(1), <<[from |-> 0, to |-> 1]>>)]

NoRequest == [op |-> "none", pos |-> 0, side |-> 0]

SimpleRequests ==
    [op : {"first_child", "last_child", "next_sibling", "previous_sibling",
           "parent", "next", "next_over", "previous", "previous_over"},
     pos : {0}, side : {0}]

PositionRequests ==
    [op : {"child_after", "child_before"}, pos : Positions, side : {0}]

SideRequests ==
    [op : {"enter", "move_to", "resolve", "resolve_inner"},
     pos : Positions, side : Sides]

Requests == SimpleRequests \union PositionRequests \union SideRequests

CursorOps ==
    {"first_child", "last_child", "child_after", "child_before",
     "next_sibling", "previous_sibling", "parent", "next", "next_over",
     "previous", "previous_over", "enter", "move_to"}

NodeOps ==
    {"first_child", "last_child", "child_after", "child_before",
     "next_sibling", "previous_sibling", "parent", "resolve",
     "resolve_inner"}

-----------------------------------------------------------------------------
CursorAnswer(c, r) ==
    CASE r.op = "first_child"      -> EnterChild(c, 1, 0, DontCare)
      [] r.op = "last_child"       -> EnterChild(c, -1, 0, DontCare)
      [] r.op = "child_after"      -> EnterChild(c, 1, r.pos, 2)
      [] r.op = "child_before"     -> EnterChild(c, -1, r.pos, Before)
      [] r.op = "next_sibling"     -> Sibling(c, 1)
      [] r.op = "previous_sibling" -> Sibling(c, -1)
      [] r.op = "parent"           -> Parent(c)
      [] r.op = "next"             -> MoveCursor(c, 1, TRUE)
      [] r.op = "next_over"        -> MoveCursor(c, 1, FALSE)
      [] r.op = "previous"         -> MoveCursor(c, -1, TRUE)
      [] r.op = "previous_over"    -> MoveCursor(c, -1, FALSE)
      [] r.op = "enter"            -> Enter(c, r.pos, r.side)
      [] r.op = "move_to"          -> MoveTo(c, r.pos, r.side)

NodeAnswer(c, r) ==
    CASE r.op = "first_child"      -> NodeChild(c, 1, 0, DontCare)
      [] r.op = "last_child"       -> NodeChild(c, -1, 0, DontCare)
      [] r.op = "child_after"      -> NodeChild(c, 1, r.pos, 2)
      [] r.op = "child_before"     -> NodeChild(c, -1, r.pos, Before)
      [] r.op = "next_sibling"     -> NodeSibling(c, 1)
      [] r.op = "previous_sibling" -> NodeSibling(c, -1)
      [] r.op = "parent"           -> NodeParent(c)
      [] r.op = "resolve"          -> ResolveNode(c, r.pos, r.side, FALSE)
      [] r.op = "resolve_inner"    -> ResolveNode(c, r.pos, r.side, TRUE)

(* The place of a cursor: how many nodes a reader sees before it among its *)
(* siblings, for every frame where a reader may stand.                     *)

Seen(kid, from, mode) == Len(ReadKid(kid, from, mode))

SeenBefore(c, n, child) ==
    Total([i \in 1..(child - 1) |->
              Seen(c.path[n].tree.kids[i].node, 0, c.mode)])

(* Nodes seen before frame n below the nearest frame where one may stand.  *)
RECURSIVE Offset(_, _)
Offset(c, n) ==
    IF n = 1 \/ Shows(c.mode, c.path[n].tree.type) THEN 0
    ELSE Offset(c, n - 1) + SeenBefore(c, n - 1, c.path[n].child)

Step(c, n) ==
    IF c.path[n].child = 0 THEN 0
    ELSE Offset(c, n - 1) + SeenBefore(c, n - 1, c.path[n].child) + 1

FramePlace(c) ==
    FlattenSeq([n \in 1..(Len(c.path) - 1) |->
        IF Shows(c.mode, c.path[n + 1].tree.type) THEN <<Step(c, n + 1)>>
        ELSE <<>>])

Rank(data, from, index) == Len(Siblings(data, from, index))

BufferPlace(c) ==
    LET records == Append(c.stack, c.index)
    IN  [n \in DOMAIN records |->
            1 + (IF n = 1
                 THEN Offset(c, Len(c.path))
                      + SeenBefore(c, Len(c.path), c.buffer[1].child)
                      + Rank(Data(c), 1, records[1])
                 ELSE Rank(Data(c), records[n - 1] + 1, records[n]))]

PlaceOf(c) ==
    FramePlace(c) \o IF InBuffer(c) THEN BufferPlace(c) ELSE <<>>

-----------------------------------------------------------------------------
Init ==
    /\ build \in Builds
    /\ \E form \in Forms : root = Formed(BuildTree(build), form)
    /\ shown = ReadNode(root, 0, {})
    /\ cursor = FromTree(root, {})
    /\ place = <<>>
    /\ reader = "closed"
    /\ request = NoRequest
    /\ found = FALSE

Open ==
    /\ reader = "closed" /\ Reads(build, root)
    /\ \E mount \in Mounts, mode \in Modes :
          /\ root' = WithMount(root, mount)
          /\ shown' = ReadNode(root', 0, mode)
          /\ cursor' = FromTree(root', mode)
    /\ place' = <<>>
    /\ reader' = "cursor"
    /\ UNCHANGED <<build, request, found>>

(* TreeCursor::node and SyntaxNode::cursor.                                *)
Convert ==
    /\ reader # "closed" /\ request = NoRequest /\ cursor.mode = {}
    /\ reader' = IF reader = "cursor" THEN "node" ELSE "cursor"
    /\ UNCHANGED <<build, root, shown, cursor, place, request, found>>

Ask ==
    /\ reader # "closed" /\ request = NoRequest
    /\ request' \in {r \in Requests :
                        r.op \in IF reader = "cursor" THEN CursorOps ELSE NodeOps}
    /\ found' = FALSE
    /\ UNCHANGED <<build, root, shown, cursor, place, reader>>

Answer ==
    LET answer == IF reader = "cursor" THEN CursorAnswer(cursor, request)
                  ELSE NodeAnswer(cursor, request)
    IN  /\ request # NoRequest
        /\ cursor' = answer.cursor
        /\ place' = PlaceOf(cursor')
        /\ found' = answer.found
        /\ request' = NoRequest
        /\ UNCHANGED <<build, root, shown, reader>>

Next == Open \/ Convert \/ Ask \/ Answer

Spec == Init /\ [][Next]_vars

-----------------------------------------------------------------------------
Face(c) == [type |-> NodeType(c), from |-> NodeFrom(c), to |-> NodeTo(c)]

Walk == INSTANCE TreeWalk WITH
            tree <- shown,
            node <- Face(cursor)

(* Whatever the tree is made of, packed buffers, balancing nodes, mounts   *)
(* and overlays, a cursor or a node answers every request as if it stood   *)
(* in the plain ordered tree.                                              *)
WalkSpec == Walk!WalkSpec

(* The node before a node ends where that one starts, or earlier.          *)
PreviousIsBefore ==
    [][request.op = "previous_sibling" /\ found'
          => NodeTo(cursor') <= NodeFrom(cursor)]_vars

-----------------------------------------------------------------------------
(* Records nested no deeper than the structure is kept; a repetition in    *)
(* one of its own kind is no further level.                                *)
Around(b, i) == {j \in DOMAIN b.buffer : j > i /\ j - b.buffer[j].size < i}

Continues(b, i) ==
    /\ Repeats(b.buffer[i].type) /\ Around(b, i) # {}
    /\ b.buffer[FirstOf(Around(b, i), 1)].type = b.buffer[i].type

Shallow(b) ==
    \A i \in DOMAIN b.buffer :
        Cardinality({j \in Around(b, i) : ~Continues(b, j)}) <= MaxDepth + 1

RECURSIVE PreOrder(_)
PreOrder(nodes) ==
    IF nodes = <<>> THEN <<>>
    ELSE <<[type |-> nodes[1].type, from |-> nodes[1].from, to |-> nodes[1].to]>>
         \o PreOrder(nodes[1].kids) \o PreOrder(Tail(nodes))

RECURSIVE Subsequence(_, _)
Subsequence(s, t) ==
    IF s = <<>> THEN TRUE
    ELSE IF t = <<>> THEN FALSE
    ELSE Subsequence(IF s[1] = t[1] THEN Tail(s) ELSE s, Tail(t))

LeafRecords(b) ==
    LET leaves == SelectSeq(b.buffer, LAMBDA r : r.size = 1 /\ ~Repeats(r.type))
    IN  [i \in DOMAIN leaves |->
            [type |-> leaves[i].type, from |-> leaves[i].start - b.start,
             to |-> leaves[i].end - b.start]]

(* The tree reads like the postfix buffer it was built from, packed,       *)
(* balanced or not; where the depth limit flattens it, it keeps every leaf *)
(* in order.                                                               *)
BuildKeeps ==
    reader = "closed" =>
        LET kids == ReadNode(root, 0, {"ignore_mounts", "ignore_overlays"}).kids
            forest == Forest(build, Len(build.buffer), 0)
        IN  IF Shallow(build) THEN kids = forest
            ELSE Subsequence(LeafRecords(build), PreOrder(kids))

RECURSIVE Parts(_)
Parts(tree) ==
    UNION {IF IsTree(tree.kids[i].node)
           THEN {tree.kids[i].node} \union Parts(tree.kids[i].node)
           ELSE {tree.kids[i].node} : i \in DOMAIN tree.kids}

(* No buffer is larger than a buffer may be, and none covers more text     *)
(* than was asked for unless one leaf does.                                *)
BuffersFit ==
    reader = "closed" =>
        \A part \in {p \in Parts(root) : ~IsTree(p)} :
            /\ Len(part.data) <= MaxRecords
            /\ part.len <= build.max \/ Len(part.data) = 1
            /\ \A i \in DOMAIN part.data : part.data[i].to <= MaxOffset
=============================================================================
