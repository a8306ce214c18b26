------------------------- MODULE HighlightProperties -------------------------
(***************************************************************************)
(* The tree of a mixed parse is highlighted.  The reference is read off    *)
(* the plain ordered tree (ReadNode): the style of one position of the     *)
(* text is found on the way from the root down to it.                      *)
(***************************************************************************)
EXTENDS MixedParse, Highlight

CONSTANTS
    Sheets,          \* style sheets
    Highlighters,    \* one sequence of highlighters
    TextRanges       \* ranges to be highlighted

-----------------------------------------------------------------------------
(* The entry with the most context, of those the first.                    *)
EntryFor(sheet, type, around) ==
    LET fitting == {i \in DOMAIN sheet : /\ sheet[i].type = type
                                         /\ InContext(sheet[i].context, around)}
        Ahead(i, j) == \/ Len(sheet[i].context) > Len(sheet[j].context)
                       \/ Len(sheet[i].context) = Len(sheet[j].context) /\ i <= j
    IN  IF fitting = {} THEN Unstyled
        ELSE sheet[CHOOSE i \in fitting : \A j \in fitting : Ahead(i, j)]

Holds(n, pos) == n.from <= pos /\ pos < n.to

(* The nodes below n at a position: of the inner tree, if that is laid     *)
(* over it.                                                                *)
Below(n, pos) ==
    LET laid == \E inner \in {n.inner[i] : i \in DOMAIN n.inner} :
                    \E i \in DOMAIN inner.ranges :
                        /\ n.from + inner.ranges[i].from <= pos
                        /\ pos < n.from + inner.ranges[i].to
        nodes == IF laid THEN <<n.inner[1].root>> ELSE n.kids
    IN  [laid |-> laid, nodes |-> SelectSeq(nodes, LAMBDA kid : Holds(kid, pos))]

(* What comes down to n is the tags it inherits, the top and the types     *)
(* around.                                                                 *)
RECURSIVE StyleAtPosition(_, _, _, _)
StyleAtPosition(sheet, n, pos, down) ==
    LET entry == EntryFor(sheet, n.type, down.around)
        tags == down.tags \o entry.tags
        top == IF n.type \in TopTypes THEN n.type ELSE down.top
        below == Below(n, pos)
        inherited == IF below.laid THEN <<>>
                     ELSE IF entry.mode = "inherit" THEN tags ELSE down.tags
    IN  IF entry.mode = "opaque" \/ below.nodes = <<>>
        THEN [tags |-> tags, top |-> top]
        ELSE StyleAtPosition(sheet, below.nodes[1], pos,
                 [tags |-> inherited, around |-> Append(down.around, n.type),
                  top |-> IF below.laid THEN below.nodes[1].type ELSE top])

RootStyleAt(sheet, root, pos) ==
    StyleAtPosition(sheet, root, pos, [tags |-> <<>>, around |-> <<>>, top |-> root.type])

-----------------------------------------------------------------------------
InOrder(spans, range) ==
    \A i \in DOMAIN spans :
        /\ spans[i].from < spans[i].to
        /\ range.from <= spans[i].from /\ spans[i].to <= range.to
        /\ i > 1 => spans[i - 1].to <= spans[i].from

(* The style of the span over a position, none if there is none.           *)
Styled(spans, pos, Style(_)) ==
    LET over == {i \in DOMAIN spans : Holds(spans[i], pos)}
    IN  IF over = {} THEN <<>> ELSE Style(spans[CHOOSE i \in over : TRUE])

Returned == stage = "idle" /\ answer = "tree"

(* The spans are in order, and each position has the tags of the nodes it  *)
(* is in, those of the inner tree where one is laid over it: only from     *)
(* nodes that hand theirs down, and up to an opaque one.                   *)
SpansTagText ==
    Returned =>
        \A sheet \in Sheets, range \in TextRanges :
            \E spans \in {HighlightSpans(tree, range, sheet)} :
                /\ InOrder(spans, range)
                /\ \A pos \in range.from..(Least(range.to, tree.len) - 1) :
                      Styled(spans, pos, LAMBDA span : span.tags)
                      = RootStyleAt(sheet, result[1], pos).tags

(* The classes of each position are those the highlighters of its top have *)
(* for its tags, and spans end only where the classes change.              *)
ClassesMarkText ==
    Returned =>
        \A sheet \in Sheets, range \in TextRanges :
            \E spans \in {HighlightTree(tree, range, sheet, Highlighters)} :
                /\ InOrder(spans, range)
                /\ \A i \in DOMAIN spans \ {1} :
                      spans[i].from = spans[i - 1].to
                      => spans[i].classes # spans[i - 1].classes
                /\ \A pos \in range.from..(Least(range.to, tree.len) - 1) :
                      \E style \in {RootStyleAt(sheet, result[1], pos)} :
                          Styled(spans, pos, LAMBDA span : span.classes)
                          = Classes(Highlighters, style.top, style.tags)
=============================================================================
