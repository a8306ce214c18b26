------------------------------- MODULE TreeBuild -------------------------------
(***************************************************************************)
(* Tree::build of crates/rezel-common/src/tree.rs: a postfix buffer is     *)
(* read backwards into a compact tree.  Nodes short enough are packed into *)
(* a buffer, long repetitions are cut into leaves and balanced, and below  *)
(* a depth the structure is given up for flat leaves.                      *)
(*                                                                         *)
(* A record of the postfix buffer has type, start, end and size, the       *)
(* number of records of its subtree; pos is the number of records still to *)
(* be read.                                                                *)
(***************************************************************************)
EXTENDS SyntaxTree

CONSTANTS
    MaxRecords,    \* records of one buffer, MAX_TREE_BUFFER_WORDS / 4
    MaxDepth,      \* pending nodes nested deeper take flat leaves
    MaxOffset      \* largest position a buffer can hold, 2^16 - 1

ASSUME BuildAssumption ==
    /\ MaxRecords \in Nat
    /\ MaxDepth \in Nat
    /\ MaxOffset \in Nat

Repeats(type) == type >= MinRepeat

Later(a, b) == IF a >= b THEN a ELSE b

-----------------------------------------------------------------------------
(* What can be packed.  best is what was scanned before the last record of *)
(* the enclosing repetition: only whole items of a repetition are packed.  *)

RECURSIVE Scan(_, _, _, _, _, _)
Scan(build, pos, low, least, repeat, s) ==
    IF pos <= low THEN s
    ELSE LET r == build.buffer[pos]
             below == pos - r.size
         IN  IF repeat # NoneType /\ r.type = repeat
             THEN Scan(build, pos - 1, low, least, repeat,
                       [s EXCEPT !.size = @ + 1, !.skip = @ + 1,
                                 !.best = [size |-> s.size, start |-> s.start,
                                           skip |-> s.skip]])
             ELSE IF below < low \/ r.start < least THEN s
             ELSE Scan(build, below, low, least, repeat,
                       [s EXCEPT !.size = @ + r.size, !.start = r.start,
                                 !.skip = @ + Cardinality({i \in below + 1..pos :
                                             Repeats(build.buffer[i].type)})])

NothingScanned == [size |-> 0, start |-> 0, skip |-> 0]

FindBufferSize(build, pos, low, repeat) ==
    LET least == Later(0, build.buffer[pos].end - build.max)
        s == Scan(build, pos, low, least, repeat,
                  [size |-> 0, start |-> 0, skip |-> 0,
                   best |-> NothingScanned])
    IN  IF repeat = NoneType \/ s.size = pos - low
        THEN [size |-> s.size, start |-> s.start, skip |-> s.skip]
        ELSE s.best

Encodable(r, base) == r.start >= base /\ r.end - base <= MaxOffset

PackableAnySize(build, pos, scan, start) ==
    /\ scan.size > 1 /\ scan.start >= start
    /\ \A i \in pos - scan.size + 1..pos :
          ~Repeats(build.buffer[i].type) => Encodable(build.buffer[i], scan.start)

Packable(build, pos, scan, start) ==
    /\ scan.size > 1 /\ scan.size - scan.skip <= MaxRecords
    /\ scan.start >= start
    /\ \A i \in pos - scan.size + 1..pos :
          ~Repeats(build.buffer[i].type) => Encodable(build.buffer[i], scan.start)

(* copy_to_buffer writes the records from the end: index is how many       *)
(* records of the buffer are still free.                                   *)
RECURSIVE Copied(_, _, _, _, _)
Copied(build, pos, low, base, index) ==
    IF pos <= low THEN <<>>
    ELSE LET r == build.buffer[pos]
             inner == Copied(build, pos - 1, pos - r.size, base, index)
         IN  IF Repeats(r.type) THEN Copied(build, pos - 1, low, base, index)
             ELSE Copied(build, pos - r.size, low, base,
                         index - Len(inner) - 1)
                  \o <<[type |-> r.type, from |-> r.start - base,
                        to |-> r.end - base, next |-> index + 1]>>
                  \o inner

Packed(build, pos, scan) ==
    Buffer(Copied(build, pos, pos - scan.size, scan.start,
                  scan.size - scan.skip),
           build.buffer[pos].end - scan.start)

-----------------------------------------------------------------------------
(* Repetitions.  The children of a pending node are kept in source order;  *)
(* the code pushes them backwards and reverses them at the end.            *)

RepeatLeafUnmoved(kids, leaves, base, from, to, type) ==
    <<Kid(Tree(type, SubSeq(kids, 1, Len(kids) - leaves), to - from),
          from - base)>>
    \o SubSeq(kids, Len(kids) - leaves + 1, Len(kids))

RepeatLeaf(kids, leaves, base, from, to, type) ==
    LET fresh == Len(kids) - leaves
        leaf == Tree(type,
                     [i \in 1..fresh |->
                         [kids[i] EXCEPT !.at = @ + base - from]],
                     to - from)
    IN  <<Kid(leaf, from - base)>> \o SubSeq(kids, fresh + 1, Len(kids))

BalanceRepeat(type, kids, len) ==
    BalanceRange(type, kids, 1, Len(kids), 0, len, type)

CutsLeaf(build, p, r) == r.end + build.max <= p.end

CutLeaf(p, end) ==
    LET kids == RepeatLeaf(p.kids, p.leaves, p.record.start, end, p.end,
                           p.record.type)
    IN  [p EXCEPT !.kids = kids, !.leaves = Len(kids), !.end = end]

FinishNode(p) ==
    LET kids == IF p.repeat # NoneType /\ p.leaves > 0 /\ p.leaves < Len(p.kids)
                THEN RepeatLeaf(p.kids, p.leaves, p.record.start,
                                p.record.start, p.end, p.record.type)
                ELSE p.kids
        len == p.record.end - p.record.start
    IN  IF p.repeat # NoneType /\ p.leaves > 0
        THEN BalanceRepeat(p.record.type, kids, len)
        ELSE Tree(p.record.type, kids, len)

-----------------------------------------------------------------------------
(* Below the depth limit only leaves are kept.                             *)

RECURSIVE FlatLeaves(_, _, _, _)
FlatLeaves(build, pos, low, leaves) ==
    LET r == build.buffer[pos]
        stop == Later(0, leaves[Len(leaves)].end - build.max)
    IN  IF pos <= low \/ Len(leaves) >= MaxRecords
        THEN [pos |-> pos, leaves |-> leaves]
        ELSE IF r.size > 1 THEN FlatLeaves(build, pos - 1, low, leaves)
        ELSE IF leaves # <<>> /\ r.start < stop
        THEN [pos |-> pos, leaves |-> leaves]
        ELSE FlatLeaves(build, pos - 1, low, <<r>> \o leaves)

FlatKids(leaves, start) ==
    IF leaves = <<>> THEN <<>>
    ELSE LET base == leaves[1].start
         IN  IF \A i \in DOMAIN leaves : Encodable(leaves[i], base)
             THEN <<Kid(Buffer([i \in DOMAIN leaves |->
                                  [type |-> leaves[i].type,
                                   from |-> leaves[i].start - base,
                                   to |-> leaves[i].end - base,
                                   next |-> i + 1]],
                               leaves[Len(leaves)].end - base),
                        base - start)>>
             ELSE Reverse([i \in DOMAIN leaves |->
                     Kid(Tree(leaves[i].type, <<>>,
                              leaves[i].end - leaves[i].start),
                         leaves[i].start - start)])

-----------------------------------------------------------------------------
(* Taking nodes.  request has the start of the parent, the record where    *)
(* the parent's subtree ends, the repetition it is an item of and the      *)
(* number of pending nodes.                                                *)

Pending(pos, r, depth) ==
    [record |-> r, low |-> pos - r.size, pos |-> pos - 1, kids |-> <<>>,
     repeat |-> IF Repeats(r.type) THEN r.type ELSE NoneType,
     leaves |-> 0, end |-> r.end, depth |-> depth]

PackNode(build, pos, request, scan) ==
    [kid |-> Kid(Packed(build, pos, scan), scan.start - request.start),
     pos |-> pos - scan.size]

FlatOf(p, flat) ==
    [p EXCEPT !.pos = flat.pos,
              !.kids = FlatKids(flat.leaves, p.record.start) \o @]

GivenKid(p, taken) == [p EXCEPT !.pos = taken.pos, !.kids = <<taken.kid>> \o @]

RECURSIVE TakeScanned(_, _, _, _, _), TakeKids(_, _)
TakeScanned(build, pos, request, r, scan) ==
    IF Packable(build, pos, scan, request.start)
    THEN PackNode(build, pos, request, scan)
    ELSE [kid |-> Kid(FinishNode(TakeKids(build, Pending(pos, r, request.depth))),
                      r.start - request.start),
          pos |-> pos - r.size]

TakeNode(build, pos, request) ==
    LET r == build.buffer[pos]
    IN  TakeScanned(build, pos, request, r,
                    IF r.end - r.start <= build.max
                    THEN FindBufferSize(build, pos, request.low, request.repeat)
                    ELSE NothingScanned)

TakeKids(build, p) ==
    LET r == build.buffer[p.pos]
    IN  IF p.pos <= p.low THEN p
        ELSE TakeKids(build,
                CASE p.repeat # NoneType /\ r.type = p.repeat ->
                        [IF CutsLeaf(build, p, r) THEN CutLeaf(p, r.end) ELSE p
                         EXCEPT !.pos = @ - 1]
                  [] ~(p.repeat # NoneType /\ r.type = p.repeat)
                     /\ p.depth > MaxDepth ->
                        FlatOf(p, FlatLeaves(build, p.pos, p.low, <<>>))
                  [] OTHER ->
                        GivenKid(p, TakeNode(build, p.pos,
                            [start |-> p.record.start, low |-> p.low,
                             repeat |-> p.repeat, depth |-> p.depth + 1])))

RECURSIVE TakeAll(_, _)
TakeAll(build, all) ==
    IF all.pos = 0 THEN all.kids
    ELSE TakeAll(build,
                 GivenKid(all, TakeNode(build, all.pos,
                                        [start |-> build.start, low |-> 0,
                                         repeat |-> NoneType, depth |-> 0])))

Spanned(kids) ==
    IF kids = <<>> THEN 0 ELSE kids[Len(kids)].at + kids[Len(kids)].node.len

TopTree(build, kids) ==
    Tree(build.top, kids,
         IF build.length = <<>> THEN Spanned(kids) ELSE build.length[1])

BuildTree(build) ==
    TopTree(build, TakeAll(build, [pos |-> Len(build.buffer), kids |-> <<>>]))

-----------------------------------------------------------------------------
(* What a postfix buffer says: a record's kids are the subtrees before it, *)
(* repetitions stand for their items.                                      *)

RECURSIVE Forest(_, _, _)
Forest(build, pos, low) ==
    IF pos <= low THEN <<>>
    ELSE LET r == build.buffer[pos]
             kids == Forest(build, pos - 1, pos - r.size)
         IN  Forest(build, pos - r.size, low)
             \o IF Repeats(r.type) THEN kids
                ELSE <<[type |-> r.type, from |-> r.start - build.start,
                        to |-> r.end - build.start, kids |-> kids,
                        inner |-> <<>>]>>
=============================================================================
