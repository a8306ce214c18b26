-------------------------------- MODULE MCMixed --------------------------------
(***************************************************************************)
(* Outer trees of a few nodes around tokens, packed in buffers or not; the *)
(* nodes and the whole document nest a parser in every way, the tokens are *)
(* what predicates find.                                                   *)
(***************************************************************************)
EXTENDS HighlightProperties, TreeBuild

CONSTANTS
    MaxNodes,      \* records of a buffer
    MaxItems,      \* groups around each other
    Gaps,          \* skipped characters before each token
    Lengths,       \* max_buffer_length
    Nests, Tops, Matches,   \* what specifications pick
    Cuts,          \* characters that may not be selected
    InGaps         \* whether ranges may start at such a character

(* A node (1), a token (2), the document (3), a repetition (10).           *)
RECURSIVE Shapes(_)
Shapes(n) ==
    IF n = 0 THEN {<<>>}
    ELSE UNION {{before \o kids \o <<[type |-> type, size |-> Len(kids) + 1]>> :
                    before \in Shapes(k), kids \in Shapes(n - 1 - k),
                    type \in IF k = n - 1 THEN {2} ELSE {1, 10}}
                : k \in 0..(n - 1)}

(* Groups of tokens, one in the other: 1(2 1(2 2)), and so on.             *)
RECURSIVE Group(_)
Group(n) ==
    LET inner == IF n = 0 THEN <<>> ELSE Group(n - 1)
        token == [type |-> 2, size |-> 1]
    IN  <<token>> \o inner \o <<token, [type |-> 1, size |-> Len(inner) + 3]>>

(* A group of tokens with another token behind it.                         *)
Trailed(n) ==
    LET token == [type |-> 2, size |-> 1]
    IN  [i \in 1..n |-> token] \o <<[type |-> 1, size |-> n + 1], token>>

Tokens(shape, i) == Cardinality({j \in 1..i : shape[j].size = 1})

Layout(shape, gap) ==
    [i \in DOMAIN shape |->
        [type |-> shape[i].type, size |-> shape[i].size,
         start |-> Tokens(shape, i - shape[i].size + 1) * (1 + gap) - 1,
         end |-> Tokens(shape, i) * (1 + gap)]]

MCTreesOf(gap) ==
    {BuildTree([buffer |-> Layout(shape, gap), start |-> 0, top |-> 3,
                max |-> max, length |-> <<>>]) :
        shape \in UNION {Shapes(n) : n \in 1..MaxNodes}
                  \union {Group(n) : n \in 1..MaxItems}
                  \union {Trailed(MaxNodes)},
        max \in Lengths}

MCPieces(part, from, to) ==
    CASE part = "whole"  -> <<Piece(from, to)>>
      [] part = "last"   -> <<Piece(to - 1, to)>>
      [] part = "ends"   -> <<Piece(from, from + 1), Piece(to - 1, to)>>
      [] part = "inside" -> IF to - from > 2 THEN <<Piece(from + 1, to - 1)>> ELSE <<>>
      [] OTHER           -> <<>>

Choice(parser, how) ==
    [kind |-> how[1], part |-> how[2], parser |-> parser]

NoNest == <<"none", "">>

Specs ==
    {[nest |-> [type \in 1..3 |->
                    CASE type = 1 -> Choice(4, node)
                      [] type = 2 -> Choice(6, NoNest)
                      [] type = 3 -> Choice(8, top)],
      match |-> [type \in 1..3 |-> match[type]]] :
        node \in Nests, top \in Tops, match \in Matches}

(* All of the text, or two ranges without a skipped character between two  *)
(* tokens.                                                                 *)
Selections(gap, len) ==
    {<<Piece(0, len)>>}
    \union {<<Piece(0, cut), Piece(cut + 1, len)>> :
               cut \in {c \in Cuts : gap = 1 /\ c % 2 = 0 /\ c < len}}

MCNests ==
    {NoNest, <<"replace", "">>, <<"ranges", "whole">>, <<"ranges", "last">>,
     <<"ranges", "ends">>, <<"ranges", "inside">>, <<"predicate", "">>}

MCTops == {NoNest, <<"ranges", "last">>, <<"ranges", "ends">>, <<"predicate", "">>}

MCMatches ==
    {<<"", "whole", "">>, <<"whole", "", "">>, <<"ends", "last", "">>,
     <<"whole", "whole", "">>}

(* The ranges inside a node start behind its first token, where there may  *)
(* be a character that is not selected.                                    *)
Allowed(selected, spec) ==
    InGaps \/ Len(selected) = 1 \/ spec.nest[1].part # "inside"

RequestsFor(t, gap) ==
    {[tree |-> t, shown |-> ReadNode(t, 0, {}), len |-> t.len + 1,
      selected |-> case[1], spec |-> case[2]] :
        case \in {c \in Selections(gap, t.len) \X Specs : Allowed(c[1], c[2])}}

(* A document that hands its tag down, nodes that are closed within nodes, *)
(* inner trees that look like their hosts, or are closed, or know where    *)
(* they are laid.                                                          *)
Entry(type, context, mode, tags) ==
    [type |-> type, context |-> context, mode |-> mode, tags |-> tags]

MCSheets ==
    {<<Entry(3, <<>>, "inherit", <<"doc">>), Entry(2, <<>>, "normal", <<"token">>),
       Entry(2, <<1, 1>>, "normal", <<"deep">>), Entry(1, <<AnyName>>, "normal", <<"node">>),
       Entry(1, <<1>>, "opaque", <<"closed">>), Entry(5, <<>>, "normal", <<"inner">>),
       Entry(5, <<1, 4>>, "normal", <<"laid">>), Entry(4, <<>>, "inherit", <<"root">>),
       Entry(9, <<8>>, "normal", <<"token">>)>>,
     <<Entry(1, <<>>, "inherit", <<"node">>), Entry(2, <<>>, "normal", <<"token">>),
       Entry(2, <<AnyName, 1>>, "inherit", <<"deep">>), Entry(4, <<>>, "opaque", <<"node">>),
       Entry(4, <<3>>, "inherit", <<"node">>), Entry(5, <<>>, "normal", <<"token">>)>>}

MCHighlighters ==
    <<[scope |-> {3, 4}, tags |-> {"node", "token", "inner"}],
      [scope |-> {3, 8}, tags |-> {"doc", "node", "root"}]>>

MCTextRanges == {Piece(0, 99), Piece(1, 4)}

MCRequests ==
    UNION {UNION {RequestsFor(t, gap) : t \in MCTreesOf(gap)} : gap \in Gaps}
=============================================================================
