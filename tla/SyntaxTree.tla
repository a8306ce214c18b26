------------------------------ MODULE SyntaxTree ------------------------------
(***************************************************************************)
(* The compact syntax trees of crates/rezel-common/src/tree.rs.  A child   *)
(* of a tree is another tree or a buffer, which packs the records of small *)
(* nodes; anonymous nodes only group others, for balance.  What a reader   *)
(* of a tree is meant to see is the ordered tree of ReadNode, in which     *)
(* buffers, anonymous nodes and replacement mounts have no place of their  *)
(* own.                                                                    *)
(*                                                                         *)
(* A child and its position are one record [node, at].  A record of a      *)
(* buffer has the index of the record behind its subtree in next; indices  *)
(* count records from 1, four words each in the code.                      *)
(***************************************************************************)
EXTENDS Integers, Sequences, FiniteSets, SequencesExt

CONSTANTS
    MinRepeat,     \* terms from here on only group repetitions
    BranchFactor   \* BALANCE_BRANCH_FACTOR

ASSUME TreeAssumption ==
    /\ MinRepeat \in Nat \ {0}
    /\ BranchFactor \in Nat \ {0}

-----------------------------------------------------------------------------
(* Trees.  A mount is absent, or a tree with the ranges it overlays; a     *)
(* mount without ranges replaces its host.                                 *)

NoneType == 0

IsAnonymous(type) == type = NoneType \/ type >= MinRepeat

Tree(type, kids, len) ==
    [kind |-> "tree", type |-> type, kids |-> kids, len |-> len,
     mount |-> <<>>]

Buffer(data, len) == [kind |-> "buffer", data |-> data, len |-> len]

IsTree(node) == node.kind = "tree"

Kid(node, at) == [node |-> node, at |-> at]

Mounted(tree, inner, overlay) ==
    [tree EXCEPT !.mount = <<[tree |-> inner, overlay |-> overlay]>>]

Replaced(tree) == tree.mount # <<>> /\ tree.mount[1].overlay = <<>>

Overlaid(tree) == tree.mount # <<>> /\ tree.mount[1].overlay # <<>>

RECURSIVE HasVisibleChild(_)
HasVisibleChild(tree) ==
    \E i \in DOMAIN tree.kids :
        LET kid == tree.kids[i].node
        IN  IsTree(kid) => ~IsAnonymous(kid.type) \/ HasVisibleChild(kid)

-----------------------------------------------------------------------------
(* Reading.  The flags of an iteration mode are a set.  A node as a reader *)
(* sees it has its kids in order and, when a tree is mounted over parts of *)
(* it, that tree and the ranges, as inner.                                 *)

RECURSIVE ReadRecords(_, _, _, _)
ReadRecords(data, i, end, start) ==
    IF i >= end THEN <<>>
    ELSE <<[type |-> data[i].type,
            from |-> start + data[i].from, to |-> start + data[i].to,
            kids |-> ReadRecords(data, i + 1, data[i].next, start),
            inner |-> <<>>]>>
         \o ReadRecords(data, data[i].next, end, start)

RECURSIVE ReadNode(_, _, _), ReadKid(_, _, _), ReadKids(_, _, _)
ReadNode(tree, from, mode) ==
    [type |-> tree.type, from |-> from, to |-> from + tree.len,
     kids |-> ReadKids(tree, from, mode),
     inner |-> IF Overlaid(tree) /\ "ignore_overlays" \notin mode
               THEN LET mount == tree.mount[1]
                    IN  <<[root |-> ReadNode(mount.tree,
                                        from + mount.overlay[1].from, mode),
                           ranges |-> mount.overlay]>>
               ELSE <<>>]
ReadKid(kid, from, mode) ==
    IF ~IsTree(kid)
    THEN IF "exclude_buffers" \in mode THEN <<>>
         ELSE ReadRecords(kid.data, 1, Len(kid.data) + 1, from)
    ELSE IF Replaced(kid) /\ "ignore_mounts" \notin mode
    THEN <<ReadNode(kid.mount[1].tree, from, mode)>>
    ELSE IF "include_anonymous" \in mode \/ ~IsAnonymous(kid.type)
    THEN <<ReadNode(kid, from, mode)>>
    ELSE ReadKids(kid, from, mode)
ReadKids(tree, from, mode) ==
    FlattenSeq([i \in DOMAIN tree.kids |->
        ReadKid(tree.kids[i].node, from + tree.kids[i].at, mode)])

-----------------------------------------------------------------------------
(* Balancing: runs of children are grouped under anonymous nodes until no  *)
(* node is much wider than the branch factor.  A node that only groups     *)
(* nodes of the balanced type weighs what it groups.                       *)

Total(numbers) == FoldLeft(LAMBDA sum, n : sum + n, 0, numbers)

RECURSIVE Weight(_, _)
Weight(type, node) ==
    LET Groups(n) == IsTree(n) /\ n.type = type
    IN  IF /\ Groups(node) /\ node.kids # <<>>
           /\ \A i \in DOMAIN node.kids : Groups(node.kids[i].node)
        THEN 1 + Total([i \in DOMAIN node.kids |->
                            Weight(type, node.kids[i].node)])
        ELSE 1

Span(kids, from, to) ==
    kids[to].at + kids[to].node.len - kids[from].at

RECURSIVE GroupEnd(_, _, _, _, _, _)
GroupEnd(type, kids, last, to, size, most) ==
    IF last < to /\ size + Weight(type, kids[last + 1].node) < most
    THEN GroupEnd(type, kids, last + 1, to,
                  size + Weight(type, kids[last + 1].node), most)
    ELSE last

RECURSIVE Divide(_, _, _, _, _, _, _), BalanceRange(_, _, _, _, _, _, _)
Divide(type, kids, from, to, offset, start, most) ==
    IF from > to THEN <<>>
    ELSE LET first == kids[from]
             size == Weight(type, first.node)
             last == GroupEnd(type, kids, from, to, size, most)
             group == IF last = from THEN first.node
                      ELSE BalanceRange(type, kids, from, last, first.at,
                                        Span(kids, from, last), type)
         IN  (IF last = from /\ size > most
              THEN Divide(type, first.node.kids, 1, Len(first.node.kids),
                          first.at + offset, start, most)
              ELSE <<Kid(group, first.at + offset - start)>>)
             \o Divide(type, kids, last + 1, to, offset, start, most)
BalanceRange(type, kids, from, to, start, len, top) ==
    LET total == Total([i \in 1..(to - from + 1) |->
                            Weight(type, kids[from + i - 1].node)])
        most == (total * 3 + BranchFactor * 2 - 1) \div (BranchFactor * 2)
        inner == Divide(type, kids, from, to, 0, start, most)
    IN  IF /\ Len(inner) = 1 /\ inner[1].at = 0 /\ IsTree(inner[1].node)
           /\ inner[1].node.type = top /\ inner[1].node.len = len
        THEN inner[1].node
        ELSE Tree(top, inner, len)

Balance(tree) ==
    IF Len(tree.kids) <= BranchFactor THEN tree
    ELSE BalanceRange(NoneType, tree.kids, 1, Len(tree.kids), 0, tree.len,
                      tree.type)

-----------------------------------------------------------------------------
(* Taking buffers apart.                                                   *)

RECURSIVE RecordKids(_, _, _, _)
RecordKids(data, i, end, base) ==
    IF i >= end THEN <<>>
    ELSE LET record == data[i]
         IN  <<Kid(Tree(record.type,
                        RecordKids(data, i + 1, record.next, record.from),
                        record.to - record.from),
                   record.from - base)>>
             \o RecordKids(data, record.next, end, base)

RECURSIVE Materialize(_)
Materialize(tree) ==
    [tree EXCEPT !.kids = FlattenSeq([i \in DOMAIN @ |->
        IF IsTree(@[i].node)
        THEN <<Kid(Materialize(@[i].node), @[i].at)>>
        ELSE RecordKids(@[i].node.data, 1, Len(@[i].node.data) + 1,
                        0 - @[i].at)])]
=============================================================================
