------------------------------- MODULE MixedTree -------------------------------
(***************************************************************************)
(* What a mixed parse (crates/rezel-common/src/mix.rs) promises as a       *)
(* PartialParse: some call returns the tree of the outer language, in      *)
(* which every node the specification picks shows a tree of the inner      *)
(* language over just the text it was picked for; or a call fails.  The    *)
(* tree is returned once, whatever it is packed in and however it was      *)
(* taken apart to hold the inner trees.                                    *)
(***************************************************************************)
EXTENDS Integers, Sequences, FiniteSets, SequencesExt

CONSTANTS
    Pieces(_, _, _)   \* ranges a part names in a node: part, from, to

VARIABLES
    request,       \* tree of the outer parse as it is read (shown), length of
                   \* the input, selected ranges, specification
    answer,        \* what the last call returned: "none", "tree", "error"
    result,        \* the tree that was returned, as it is read
    over           \* whether the parse is over

mixedVars == <<request, answer, result, over>>

-----------------------------------------------------------------------------
Piece(from, to) == [from |-> from, to |-> to]

Overlaps(range, n) == range.from < n.to /\ range.to > n.from

Holds(range, n) == range.from <= n.from /\ range.to >= n.to

Some(ranges, n, Is(_, _)) == \E i \in DOMAIN ranges : Is(ranges[i], n)

(* The common parts of two sequences of ranges, in order.                  *)
Common(a, b) ==
    LET Low(i, j) == IF a[i].from >= b[j].from THEN a[i].from ELSE b[j].from
        High(i, j) == IF a[i].to <= b[j].to THEN a[i].to ELSE b[j].to
        parts == {Piece(Low(i, j), High(i, j)) :
                     i \in DOMAIN a, j \in DOMAIN b}
    IN  SetToSortSeq({r \in parts : r.from < r.to}, LAMBDA r, s : r.from < s.from)

Usable(ranges, len) ==
    \A i \in DOMAIN ranges :
        /\ ranges[i].from < ranges[i].to /\ ranges[i].to <= len
        /\ i > 1 => ranges[i - 1].to <= ranges[i].from

Shifted(ranges, from) ==
    [i \in DOMAIN ranges |-> Piece(ranges[i].from - from, ranges[i].to - from)]

(* What an inner parser makes of its ranges: one leaf for each of them.    *)
InnerNode(parser, ranges, from) ==
    LET Leaf(r) == [type |-> parser + 1, from |-> r.from, to |-> r.to,
                    kids |-> <<>>, inner |-> <<>>]
        start == IF ranges = <<>> THEN from ELSE ranges[1].from
    IN  [type |-> parser, from |-> start,
         to |-> IF ranges = <<>> THEN from ELSE Last(ranges).to,
         kids |-> [i \in DOMAIN ranges |-> Leaf(ranges[i])], inner |-> <<>>]

-----------------------------------------------------------------------------
(* The specification says for every type of node which parser is nested in *)
(* it and how, and which ranges a predicate finds there.                   *)

Nest(n) ==
    IF n.from = n.to /\ request.spec.nest[n.type].kind # "replace"
    THEN [kind |-> "none", part |-> "", parser |-> 0]
    ELSE request.spec.nest[n.type]

Asked(n) == Pieces(Nest(n).part, n.from, n.to)

Selected(ranges) == Common(request.selected, ranges)

(* The ranges inside which nothing is picked any more below n.             *)
Covered(n, covered) ==
    IF Nest(n).kind = "ranges" /\ Selected(Asked(n)) # <<>>
    THEN Selected(Asked(n))
    ELSE covered

(* The ranges below n that are for the nearest predicate around n.         *)
RECURSIVE Found(_, _)
Found(nodes, covered) ==
    IF nodes = <<>> THEN <<>>
    ELSE LET n == nodes[1]
             match == Pieces(request.spec.match[n.type], n.from, n.to)
             here == IF match # <<>> /\ match[1].from < match[1].to
                     THEN match ELSE <<>>
             free == ~Some(covered, n, Overlaps)
             of == IF Some(covered, n, Holds) THEN <<>>
                   ELSE IF ~free THEN Found(n.kids, covered)
                   ELSE IF Nest(n).kind \in {"replace", "predicate"} THEN <<>>
                   ELSE (IF Nest(n).kind = "none" THEN here ELSE <<>>)
                        \o Found(n.kids, Covered(n, covered))
         IN  of \o Found(Tail(nodes), covered)

(* Ranges that touch become one.                                           *)
Joined(ranges) ==
    FoldLeft(LAMBDA joined, r :
                 IF joined # <<>> /\ Last(joined).to = r.from
                 THEN Append(Front(joined), Piece(Last(joined).from, r.to))
                 ELSE Append(joined, r),
             <<>>, ranges)

(* The ranges an overlay of n covers, none if there is no overlay.         *)
Overlay(n, covered) ==
    LET asked == IF Nest(n).kind = "ranges" THEN Asked(n)
                 ELSE Joined(Found(n.kids, covered))
    IN  IF Nest(n).kind \notin {"ranges", "predicate"} THEN <<>>
        ELSE IF asked # <<>> /\ ~Usable(asked, request.len) THEN asked
        ELSE IF Selected(asked) = <<>> THEN <<>>
        ELSE asked

-----------------------------------------------------------------------------
(* The tree with its inner trees; and whether the specification asks for   *)
(* ranges that are none, and for inner trees at all.                       *)

RECURSIVE Compose(_, _)
Compose(n, covered) ==
    LET asked == Overlay(n, covered)
        ranges == Selected(asked)
        Below(cover) == [i \in DOMAIN n.kids |-> Compose(n.kids[i], cover)]
    IN  IF Some(covered, n, Holds) THEN n
        ELSE IF Some(covered, n, Overlaps) THEN [n EXCEPT !.kids = Below(covered)]
        ELSE IF Nest(n).kind = "replace"
        THEN InnerNode(Nest(n).parser,
                       Selected(IF n.from < n.to THEN <<Piece(n.from, n.to)>>
                                ELSE <<>>),
                       n.from)
        ELSE [n EXCEPT !.kids = Below(Covered(n, covered)),
                       !.inner =
                           IF asked = <<>> THEN <<>>
                           ELSE <<[root |-> InnerNode(Nest(n).parser, ranges,
                                                      n.from),
                                   ranges |-> Shifted(asked, n.from)]>>]

RECURSIVE Sound(_, _)
Sound(n, covered) ==
    LET free == ~Some(covered, n, Overlaps)
        cover == IF free THEN Covered(n, covered) ELSE covered
    IN  \/ Some(covered, n, Holds)
        \/ free /\ Nest(n).kind = "replace"
        \/ /\ free => Usable(Overlay(n, covered), request.len)
           /\ \A i \in DOMAIN n.kids : Sound(n.kids[i], cover)

-----------------------------------------------------------------------------
MixedInit ==
    /\ answer = "none"
    /\ result = <<>>
    /\ over = FALSE

(* The outer parse has no tree yet, or fails.                              *)
Wait ==
    /\ ~over /\ answer' \in {"none", "error"}
    /\ UNCHANGED <<request, result, over>>

Complete ==
    /\ ~over /\ over'
    /\ answer' = "tree"
    /\ Sound(request.shown, <<>>)
    /\ result' = <<Compose(request.shown, <<>>)>>
    /\ UNCHANGED request

(* The specification asks for ranges that are none, or an inner parse      *)
(* fails.                                                                  *)
Fail ==
    /\ ~over /\ over'
    /\ answer' = "error"
    /\ UNCHANGED <<request, result>>
    /\ \/ ~Sound(request.shown, <<>>)
       \/ Compose(request.shown, <<>>) # request.shown

(* Afterwards there is neither a tree nor an error.                        *)
Silence ==
    /\ over /\ answer' = "none"
    /\ UNCHANGED <<request, result, over>>

MixedNext == Wait \/ Complete \/ Fail \/ Silence

MixedSpec == MixedInit /\ [][MixedNext]_mixedVars
=============================================================================
