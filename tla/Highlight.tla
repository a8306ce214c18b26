----------------------------- MODULE Highlight -----------------------------
(***************************************************************************)
(* rezel-highlight: a cursor walks a syntax tree, trees mounted in it      *)
(* included, and a builder turns what it meets into spans of text with the *)
(* tags of the styles that match.                                          *)
(*                                                                         *)
(* A sheet is what style_tags is given: a sequence of entries              *)
(*   type      the node type at the end of the selector                    *)
(*   context   the types around it, outermost first, AnyName for *         *)
(*   mode      "normal", "inherit" or "opaque"                             *)
(*   tags      a sequence of tags                                          *)
(***************************************************************************)
EXTENDS TreeCursor

CONSTANT TopTypes    \* the types that are top nodes of a language

AnyName == NoneType
Unstyled == [mode |-> "normal", tags |-> <<>>]

-----------------------------------------------------------------------------
(* style.rs: rules and selectors.                                          *)

(* Behind all rules whose context is as deep.                              *)
InsertRule(rules, rule) ==
    LET deeper == {i \in DOMAIN rules : Len(rules[i].context) >= Len(rule.context)}
    IN  InsertAt(rules, Cardinality(deeper) + 1, rule)

RulesOf(sheet, type) ==
    FoldLeft(LAMBDA rules, entry :
                 IF entry.type = type THEN InsertRule(rules, entry) ELSE rules,
             <<>>, sheet)

(* The named nodes around the cursor.                                      *)
Surrounding(c) ==
    LET frames == [i \in 1..(Len(c.path) - IF InBuffer(c) THEN 0 ELSE 1) |->
                      c.path[i].tree.type]
        records == [i \in DOMAIN c.stack |-> Data(c)[c.stack[i]].type]
    IN  SelectSeq(frames \o records, LAMBDA type : ~IsAnonymous(type))

InContext(context, around) ==
    /\ Len(context) <= Len(around)
    /\ \A i \in DOMAIN context :
          context[i] \in {AnyName, around[Len(around) - Len(context) + i]}

StyleOf(sheet, c) ==
    LET matching == SelectSeq(RulesOf(sheet, NodeType(c)),
                              LAMBDA rule : InContext(rule.context, Surrounding(c)))
    IN  IF matching = <<>> THEN Unstyled ELSE matching[1]

-----------------------------------------------------------------------------
(* The builder.  A span is flushed when the tags change, and when the top  *)
(* does, if it is told to distinguish tops.                                *)

Least(a, b) == IF a <= b THEN a ELSE b
Most(a, b) == IF a >= b THEN a ELSE b

Flush(b, to) ==
    IF to > b.at
    THEN [b EXCEPT !.spans = Append(@, [from |-> b.at, to |-> to,
                                        tags |-> b.tags, top |-> b.top]),
                   !.at = to]
    ELSE b

(* Mutant: another top does not end a span.                                *)
StartSpanOfTags(b, at, style) ==
    IF b.tags = style.current THEN b
    ELSE [Flush(b, at) EXCEPT !.tags = style.current, !.top = style.top]

StartSpan(b, at, style) ==
    IF b.tags = style.current /\ (~b.distinguish \/ b.top = style.top) THEN b
    ELSE [Flush(b, at) EXCEPT !.tags = style.current, !.top = style.top]

-----------------------------------------------------------------------------
(* The walk.  w has the cursor, the builder and the sheet; style has the   *)
(* tags the children inherit, the tags current between them, and the top.  *)

Starting(w, at, style) == [w EXCEPT !.builder = StartSpan(@, at, style)]

At(w, moved) == [w EXCEPT !.cursor = moved.cursor]

Cut(range, from, to) == [from |-> Most(range.from, from), to |-> Least(range.to, to)]

Empty(range) == range.from >= range.to

StyleAt(w, inherited, top) ==
    LET type == NodeType(w.cursor)
        rule == StyleOf(w.sheet, w.cursor)
    IN  [current |-> inherited \o rule.tags,
         inherited |-> IF rule.mode = "inherit" THEN inherited \o rule.tags ELSE inherited,
         top |-> IF type \in TopTypes THEN type ELSE top,
         opaque |-> rule.mode = "opaque"]

MountOf(c) == IF InBuffer(c) THEN <<>> ELSE Current(c).tree.mount

RECURSIVE Visit(_, _, _, _), ChildRange(_, _, _), Sections(_, _, _, _, _, _),
          OverlayChildren(_, _, _, _)

VisitKid(w, range, style) ==
    Starting(Visit(w, range, style.inherited, style.top),
             Least(range.to, NodeTo(w.cursor)), style)

ChildRange(w, range, style) ==
    LET seen == IF NodeTo(w.cursor) <= range.from THEN w ELSE VisitKid(w, range, style)
        beside == Sibling(seen.cursor, 1)
    IN  IF NodeFrom(w.cursor) >= range.to THEN w
        ELSE IF beside.found THEN ChildRange(At(seen, beside), range, style)
        ELSE At(seen, beside)

Children(w, range, style) ==
    LET first == EnterChild(w.cursor, 1, 0, DontCare)
        walked == ChildRange(At(w, first), range, style)
    IN  IF first.found THEN At(walked, Parent(walked.cursor)) ELSE w

(* Mutant: the child that reaches into the overlay is left.                *)
OverlayChildrenAll(w, range, stop, style) ==
    LET seen == VisitKid(w, range, style)
        beside == Sibling(seen.cursor, 1)
    IN  IF NodeFrom(w.cursor) >= range.to THEN w
        ELSE IF beside.found THEN OverlayChildren(At(seen, beside), range, stop, style)
        ELSE At(seen, beside)

OverlayChildren(w, range, stop, style) ==
    LET seen == VisitKid(w, range, style)
        beside == Sibling(seen.cursor, 1)
    IN  IF NodeFrom(w.cursor) >= range.to THEN w
        ELSE IF NodeTo(seen.cursor) >= stop THEN seen
        ELSE IF beside.found THEN OverlayChildren(At(seen, beside), range, stop, style)
        ELSE At(seen, beside)

(* The text of the host in front of section i of the overlay.              *)
Outside(w, range, stop, style, host) ==
    LET begun == Starting(w, range.from, style)
        walked == IF host.parent THEN OverlayChildren(begun, range, stop, style) ELSE begun
    IN  IF Empty(range) THEN w ELSE Starting(walked, range.to, style)

Inside(w, range, style, host) ==
    LET inner == Visit([w EXCEPT !.cursor = host.inner], range, <<>>, NodeType(host.inner))
    IN  IF Empty(range) THEN w
        ELSE Starting([inner EXCEPT !.cursor = w.cursor], range.to, style)

Sections(w, range, i, position, style, host) ==
    LET sections == host.overlay
        last == i > Len(sections)
        next == IF last THEN host.to ELSE host.from + sections[i].from
        end == host.from + sections[i].to
        outer == Outside(w, Cut(range, position, next), next, style, host)
        inner == IF end <= range.from THEN outer
                 ELSE Inside(outer, Cut(range, next, end), style, host)
    IN  IF last \/ next > range.to THEN outer
        ELSE Sections(inner, range, i + 1, end, style, host)

Overlay(w, range, overlay, style) ==
    LET c == w.cursor
        first == EnterChild(c, 1, 0, DontCare)
        host == [from |-> NodeFrom(c), to |-> NodeTo(c), overlay |-> overlay,
                 inner |-> Enter(c, NodeFrom(c) + overlay[1].from, 1).cursor,
                 parent |-> first.found]
        walked == Sections(At(w, first), range, 1, NodeFrom(c), style, host)
    IN  IF first.found THEN At(walked, Parent(walked.cursor)) ELSE walked

Visit(w, range, inherited, top) ==
    LET c == w.cursor
        style == StyleAt(w, inherited, top)
        begun == Starting(w, Most(range.from, NodeFrom(c)), style)
        mount == MountOf(c)
    IN  IF NodeFrom(c) >= range.to \/ NodeTo(c) <= range.from THEN w
        ELSE IF style.opaque THEN begun
        ELSE IF mount # <<>> /\ mount[1].overlay # <<>>
        THEN Overlay(begun, range, mount[1].overlay, style)
        ELSE Children(begun, range,
                      IF mount = <<>> THEN style ELSE [style EXCEPT !.inherited = <<>>])

-----------------------------------------------------------------------------
(* highlight_scoped, and what highlight_spans and highlight_tree make of   *)
(* its spans.                                                              *)

NormalRange(tree, range) ==
    LET from == Least(range.from, tree.len)
    IN  [from |-> from, to |-> Most(from, Least(range.to, tree.len))]

ScopedSpans(tree, range, sheet, distinguish) ==
    LET builder == [at |-> range.from, tags |-> <<>>, top |-> tree.type,
                    distinguish |-> distinguish, spans |-> <<>>]
        walked == Visit([cursor |-> FromTree(tree, {}), builder |-> builder,
                         sheet |-> sheet],
                        range, <<>>, tree.type)
    IN  IF Empty(range) THEN <<>> ELSE Flush(walked.builder, range.to).spans

HighlightSpans(tree, range, sheet) ==
    SelectSeq(ScopedSpans(tree, NormalRange(tree, range), sheet, FALSE),
              LAMBDA span : span.tags # <<>>)

(* A highlighter has the tags it has a class for, and the tops it is for.  *)
Classes(highlighters, top, tags) ==
    FlattenSeq([i \in DOMAIN highlighters |->
        IF top \in highlighters[i].scope
        THEN SelectSeq(tags, LAMBDA tag : tag \in highlighters[i].tags)
        ELSE <<>>])

(* The spans with classes; one that goes on with the same is continued.    *)
FlushStyled(b, to) ==
    IF to > b.at /\ b.classes # <<>>
    THEN [b EXCEPT !.spans = Append(@, [from |-> b.at, to |-> to,
                                        classes |-> b.classes]),
                   !.at = to]
    ELSE [b EXCEPT !.at = Most(@, to)]

StartStyled(b, at, classes) ==
    IF b.classes = classes THEN b
    ELSE [FlushStyled(b, at) EXCEPT !.classes = classes]

StyledSpans(range, scoped, highlighters) ==
    FlushStyled(FoldLeft(LAMBDA b, span :
                             StartStyled(b, span.from,
                                         Classes(highlighters, span.top, span.tags)),
                         [at |-> range.from, classes |-> <<>>, spans |-> <<>>],
                         scoped),
                range.to).spans

HighlightTree(tree, range, sheet, highlighters) ==
    LET normal == NormalRange(tree, range)
    IN  StyledSpans(normal, ScopedSpans(tree, normal, sheet, TRUE), highlighters)
=============================================================================
