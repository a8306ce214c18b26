---------------------------- MODULE MCLanguages ----------------------------
(***************************************************************************)
(* The parser over the tables generated for seven small grammars, joined   *)
(* into one table with a top rule for each: states and terms renumbered,   *)
(* characters renamed apart.                                               *)
(*   Sequence   @top T { (X | Y)+ }  @skip { C }  X { "x" }  Y { "y" ";"* }*)
(*              (tests/fixtures/test_parse/sequence.grammar, with C "c" a  *)
(*              skipped token as in upstream/cases/SkipPosition.txt: a     *)
(*              comment is a node in the buffer before the node it follows *)
(*              is reduced, and the reduction sinks that node below it)    *)
(*   SkipExpr   @top T { Foo { "f" }+ }  @skip { "_" | "<" content* ">" }  *)
(*              content { A { "a" } | B { "b" } }                          *)
(*   Dynamic    @top T { (A | B)+ }                                        *)
(*              A[@dynamicPrecedence=2] { "foo" "bar" ~ambig }             *)
(*              B[@dynamicPrecedence=1] { "foo" ("bar" | "baz" ~ambig      *)
(*                                        | Inner) ~ambig }                *)
(*              Inner[@dynamicPrecedence=-1] { ("baz" | "quux") ~ambig }   *)
(*   ZeroLength @top T { Foo* }  Foo { Attrs "." }  Attrs { "@"* }         *)
(*   Tuple      @top T { "(" (Expr "," )* Expr? ")" }  Expr { "E" }        *)
(*   Recursive  @top Script { A+ }  A { B | "{" "v" "}" }                  *)
(*              B { A !call "{" "}" | "v" | "[" B "]" }                    *)
(*   Forked     @top T { Item "!" }  Item { X "t" | Y ("t" | "u") }        *)
(*              X[@dynamicPrecedence=1] { "s" ~fork }                      *)
(*              Y[@dynamicPrecedence=2] { "s" ~fork }                      *)
(*              (a split that lasts two tokens and whose other branch wins)*)
(* Terms: 0 Error, 1..20 nodes, 21..29 anonymous repeats, 30 eof, then the *)
(* anonymous tokens and skip terms.                                        *)
(***************************************************************************)
EXTENDS ParseProperties, TLC

MCState == 0 .. 70
ActionTable == [s \in MCState |->
    CASE s \in {0, 1} -> << <<31, ShiftTo(3)>>, <<32, ShiftTo(4)>> >>
      [] s = 4 -> << <<33, ShiftTo(7)>>, <<30, ReduceTo(4, 1)>>, <<31, ReduceTo(4, 1)>>,
              <<32, ReduceTo(4, 1)>> >>
      [] s = 6 -> << <<33, ShiftTo(7)>>, <<30, ReduceTo(4, 2)>>, <<31, ReduceTo(4, 2)>>,
              <<32, ReduceTo(4, 2)>> >>
      [] s \in {9, 11} -> << <<41, ShiftTo(13)>> >>
      [] s = 10 -> << <<36, ShiftTo(14)>> >>
      [] s = 14 -> << <<38, ShiftTo(19)>>, <<39, ShiftTo(20)>>, <<40, ShiftTo(21)>> >>
      [] s = 16 -> << <<38, ShiftTo(19)>>, <<39, ShiftTo(20)>>, <<40, ShiftTo(23)>> >>
      [] s \in {24, 25} -> << <<42, ShiftTo(27)>> >>
      [] s = 27 -> << <<43, ShiftTo(29)>>, <<44, ShiftTo(30)>>, <<45, ShiftTo(32)>> >>
      [] s = 29 -> << <<30, ReduceTo(10, 2)>>, <<30, ReduceTo(11, 2)>>,
              <<42, ReduceTo(10, 2)>>, <<42, ReduceTo(11, 2)>> >>
      [] s = 30 -> << <<30, ReduceTo(11, 2)>>, <<30, ReduceTo(12, 1)>>,
              <<42, ReduceTo(11, 2)>>, <<42, ReduceTo(12, 1)>> >>
      [] s \in {33, 34} -> << <<46, ShiftTo(38)>>, <<47, ReduceTo(15, 0)>> >>
      [] s = 36 -> << <<47, ShiftTo(40)>> >>
      [] s = 37 -> << <<46, ShiftTo(38)>>, <<47, ReduceTo(15, 1)>> >>
      [] s = 42 -> << <<48, ShiftTo(43)>> >>
      [] s \in {43, 44} -> << <<17, ShiftTo(45)>>, <<50, ShiftTo(46)>> >>
      [] s = 45 -> << <<49, ShiftTo(48)>>, <<50, ShiftTo(46)>> >>
      [] s = 49 -> << <<49, ShiftTo(48)>> >>
      [] s \in {50, 51, 56} -> << <<51, ShiftTo(54)>>, <<53, ShiftTo(55)>>,
              <<54, ShiftTo(56)>> >>
      [] s = 52 -> << <<51, ShiftTo(58)>>, <<30, ReduceTo(29, 1)>>, <<53, ReduceTo(29, 1)>>,
              <<54, ReduceTo(29, 1)>> >>
      [] s = 54 -> << <<53, ShiftTo(59)>> >>
      [] s = 58 -> << <<52, ShiftTo(62)>> >>
      [] s = 59 -> << <<52, ShiftTo(63)>> >>
      [] s = 60 -> << <<51, ShiftTo(58)>> >>
      [] s = 61 -> << <<55, ShiftTo(62)>>, <<51, ReduceTo(19, 1)>> >>
      [] s = 64 -> << <<56, ShiftTo(68)>> >>
      [] s = 65 -> << <<59, ShiftTo(69)>> >>
      [] s = 66 -> << <<57, ShiftTo(70)>> >>
      [] s = 67 -> << <<57, ShiftTo(70)>>, <<58, ShiftTo(70)>> >>
      [] s = 68 -> << <<57, ReduceTo(7, 1)>>, <<57, ReduceTo(9, 1)>>, <<58, ReduceTo(9, 1)>> >>
      [] OTHER -> << >>]
SkipTable == [s \in MCState |->
    CASE s \in 0 .. 8 -> << <<1, Skip(0)>> >>
      [] s \in {9, 11, 12, 13, 15} -> << <<35, Skip(0)>>, <<36, Enter(10)>> >>
      [] OTHER -> << >>]
NoActionTable == [s \in MCState |-> NoAction]
DefaultTable == [s \in MCState |->
    CASE s = 2 -> ReduceTo(21, 1)
      [] s = 3 -> ReduceTo(3, 1)
      [] s = 5 -> Repeat(21, 2)
      [] s = 7 -> ReduceTo(22, 1)
      [] s = 8 -> Repeat(22, 2)
      [] s = 12 -> ReduceTo(24, 1)
      [] s = 13 -> ReduceTo(8, 1)
      [] s = 15 -> Repeat(24, 2)
      [] s = 17 -> ReduceTo(23, 1)
      [] s = 18 -> ReduceTo(37, 1)
      [] s = 19 -> ReduceTo(5, 1)
      [] s = 20 -> ReduceTo(6, 1)
      [] s = 21 -> StayReduce(34, 2)
      [] s = 22 -> Repeat(23, 2)
      [] s = 23 -> StayReduce(34, 3)
      [] s = 26 -> ReduceTo(25, 1)
      [] s = 28 -> Repeat(25, 2)
      [] s = 31 -> ReduceTo(11, 2)
      [] s = 32 -> ReduceTo(12, 1)
      [] s = 35 -> ReduceTo(26, 1)
      [] s = 38 -> ReduceTo(27, 1)
      [] s = 39 -> Repeat(26, 2)
      [] s = 40 -> ReduceTo(14, 2)
      [] s = 41 -> Repeat(27, 2)
      [] s = 47 -> Repeat(28, 2)
      [] s = 48 -> ReduceTo(28, 2)
      [] s = 53 -> ReduceTo(19, 1)
      [] s = 55 -> ReduceTo(20, 1)
      [] s = 57 -> Repeat(29, 2)
      [] s = 62 -> ReduceTo(20, 3)
      [] s = 63 -> ReduceTo(19, 3)
      [] s = 70 -> ReduceTo(2, 2)
      [] OTHER -> NoAction]
ForcedTable == [s \in MCState |->
    CASE s = 4 -> ReduceTo(4, 1)
      [] s = 6 -> ReduceTo(4, 2)
      [] s = 14 -> StayReduce(34, 1)
      [] s = 16 -> StayReduce(34, 2)
      [] s = 27 -> ReduceTo(10, 1)
      [] s = 29 -> ReduceTo(10, 2)
      [] s = 30 -> ReduceTo(11, 2)
      [] s = 36 -> ReduceTo(14, 1)
      [] s = 37 -> ReduceTo(15, 1)
      [] s \in {45, 49} -> ReduceTo(28, 1)
      [] s = 52 -> ReduceTo(29, 1)
      [] s = 54 -> ReduceTo(19, 1)
      [] s \in {56, 60} -> ReduceTo(20, 1)
      [] s \in {58, 61} -> ReduceTo(20, 2)
      [] s = 59 -> ReduceTo(19, 2)
      [] s \in {66, 67} -> ReduceTo(2, 1)
      [] s = 68 -> ReduceTo(7, 1)
      [] OTHER -> DefaultTable[s]]
SkippedTable == {10, 14, 16, 17, 18, 19, 20, 21, 22, 23, 49}
AcceptingTable == {1, 11, 25, 33, 34, 46, 51, 69}
LexingTable == {s \in MCState : s \notin {46, 69} /\ DefaultTable[s] = NoAction}
GotoTable ==
       3 :> Column(<< >>, 2, {0, 1})
    @@ 4 :> Column(<< >>, 2, {0, 1})
    @@ 21 :> Column((0 :> 1), 5, {1})
    @@ 22 :> Column((4 :> 6), 8, {6})
    @@ 5 :> Column(<< >>, 18, {14, 16})
    @@ 6 :> Column(<< >>, 18, {14, 16})
    @@ 8 :> Column(<< >>, 12, {9, 11})
    @@ 23 :> Column((14 :> 16), 22, {16})
    @@ 24 :> Column((9 :> 11), 15, {11})
    @@ 37 :> Column(<< >>, 17, {14, 16})
    @@ 10 :> Column(<< >>, 26, {24, 25})
    @@ 11 :> Column(<< >>, 26, {24, 25})
    @@ 12 :> Column(<< >>, 31, {27})
    @@ 25 :> Column((24 :> 25), 28, {25})
    @@ 14 :> Column(<< >>, 35, {33, 34})
    @@ 15 :> Column(<< >>, 36, {33, 34})
    @@ 26 :> Column((33 :> 34), 39, {34})
    @@ 27 :> Column((37 :> 41), 37, {33, 34})
    @@ 28 :> Column((43 :> 44), 47, {44})
    @@ 19 :> Column((56 :> 60), 52, {50, 51})
    @@ 20 :> Column((56 :> 61), 53, {50, 51})
    @@ 29 :> Column((50 :> 51), 57, {51})
    @@ 2 :> Column(<< >>, 65, {64})
    @@ 7 :> Column(<< >>, 66, {64})
    @@ 9 :> Column(<< >>, 67, {64})
PrecedenceTable == 10 :> 2 @@ 11 :> 1 @@ 12 :> -1 @@ 7 :> 1 @@ 9 :> 2
LexTable == "?" :> Error @@ "x" :> 31 @@ "y" :> 32 @@ "c" :> 1 @@ ";" :> 33
    @@ "f" :> 41 @@ "<" :> 36 @@ "a" :> 38 @@ ">" :> 40 @@ "_" :> 35
    @@ "foo" :> 42 @@ "bar" :> 43 @@ "baz" :> 44
    @@ "@" :> 46 @@ "." :> 47
    @@ "(" :> 48 @@ "E" :> 17 @@ "," :> 49 @@ ")" :> 50
    @@ "s" :> 56 @@ "t" :> 57 @@ "u" :> 58 @@ "!" :> 59
    @@ "v" :> 53 @@ "[" :> 54 @@ "]" :> 55 @@ "{" :> 51 @@ "}" :> 52

Lax(state) == [state |-> state, strict |-> FALSE]
Sequence == Lax(0)
SkipExpr == Lax(9)
Dynamic == Lax(24)
ZeroLength == Lax(33)
Tuple == Lax(42)
Recursive == Lax(50)
Forked == Lax(64)
StrictDynamic == [state |-> 24, strict |-> TRUE]
MCTopRule == {Sequence, SkipExpr, Dynamic, ZeroLength, Tuple, Recursive, Forked,
              StrictDynamic}

\* Bounds: the characters and the length of a text, for each top rule.
Texts(top, alphabet, length) ==
    [text : UNION {[1 .. n -> alphabet] : n \in 0 .. length}, top : {top}]
AllTexts == UNION {
    Texts(Sequence, {"x", "y", "c", ";", "?"}, 4),
    Texts(SkipExpr, {"f", "<", "a", ">", "_", "?"}, 3),
    Texts(Dynamic, {"foo", "bar", "baz", "?"}, 4),
    Texts(StrictDynamic, {"foo", "bar", "baz", "?"}, 5),
    Texts(ZeroLength, {"@", ".", "?"}, 5),
    Texts(Tuple, {"(", "E", ",", ")"}, 4),
    Texts(Forked, {"s", "t", "u", "!"}, 4)}
TupleTexts == Texts(Tuple, {"(", "E", ",", ")"}, 4)
RecursiveTexts == Texts(Recursive, {"v", "[", "{"}, 4)
BracketTexts == Texts(Recursive, {"v", "[", "]", "{", "}"}, 3)

\* The texts a top rule derives, by the rules of its grammar.
\* X and Y nodes with C nodes anywhere, ";" only inside a Y.
IsSequence(t) ==
    LET Kept(c) == c # "c"
        text == SelectSeq(t, Kept)
    IN  /\ text # << >>
        /\ \A k \in DOMAIN text :
              /\ text[k] # "?"
              /\ text[k] = ";" => k > 1 /\ text[k - 1] \in {"y", ";"}
\* At least one Foo; spaces and bracketed skip content between them.
IsSkipExpr(t) ==
    LET inside[k \in 0 .. Len(t)] ==  \* k characters read, the last bracket is open
            k > 0 /\ (t[k] = "<" \/ (t[k] # ">" /\ inside[k - 1]))
    IN  /\ \E k \in DOMAIN t : t[k] = "f"
        /\ \A k \in DOMAIN t :
              t[k] \in IF inside[k - 1] THEN {"a", ">"} ELSE {"f", "_", "<"}
        /\ ~inside[Len(t)]
\* Pairs of "foo" and a second word.
IsDynamic(t) ==
    /\ t # << >> /\ Len(t) % 2 = 0
    /\ \A k \in DOMAIN t : IF k % 2 = 1 THEN t[k] = "foo" ELSE t[k] \in {"bar", "baz"}
\* Every Foo ends with its ".".
IsZeroLength(t) ==
    /\ t # << >> => t[Len(t)] = "."
    /\ \A k \in DOMAIN t : t[k] # "?"
\* Parentheses around elements, each with a comma but perhaps the last.
IsTuple(t) ==
    /\ Len(t) > 1
    /\ \A k \in DOMAIN t : t[k] = CASE k = 1 -> "("
                                    [] k = Len(t) -> ")"
                                    [] k % 2 = 0 -> "E"
                                    [] OTHER -> ","
\* One or more A.  The precedence call makes a "{" after a B continue that B,
\* so that the other form of A cannot follow one.
IsRecursive(t) ==
    LET n == Len(t)
        Part(a, b, s) == SubSeq(t, a + 1, b) = s
        isB[a \in 0 .. n, b \in 0 .. n] ==
            \/ Part(a, b, <<"v">>)
            \/ b > a + 2 /\ isB[a, b - 2] /\ Part(b - 2, b, <<"{", "}">>)
            \/ b > a + 2 /\ Part(a, a + 1, <<"[">>) /\ isB[a + 1, b - 1] /\ Part(b - 1, b, <<"]">>)
        last[b \in 0 .. n] ==  \* the forms of A that can end the first b characters
            IF b = 0 THEN {"start"}
            ELSE {form \in {"B", "block"} : \E a \in 0 .. b - 1 :
                    IF form = "B" THEN last[a] # {} /\ isB[a, b]
                    ELSE last[a] \ {"B"} # {} /\ Part(a, b, <<"{", "v", "}">>)}
    IN  n > 0 /\ last[n] # {}

\* One Item and its "!".
IsForked(t) == t \in {<<"s", "t", "!">>, <<"s", "u", "!">>}

Derived == {i \in Inputs :
    CASE i.top = Sequence -> IsSequence(i.text)
      [] i.top = SkipExpr -> IsSkipExpr(i.text)
      [] i.top \in {Dynamic, StrictDynamic} -> IsDynamic(i.text)
      [] i.top = ZeroLength -> IsZeroLength(i.text)
      [] i.top = Tuple -> IsTuple(i.text)
      [] i.top = Recursive -> IsRecursive(i.text)
      [] i.top = Forked -> IsForked(i.text)}

\* Of all the derivations of a text the parser keeps one of highest dynamic
\* precedence: A (2) rather than B (1) for "foo bar", B alone (1) rather than B
\* around Inner (1 - 1) for "foo baz", and Y (2) rather than X (1) for "s t",
\* wherever the branches are compared.
BestDerivation == Completed /\ input \in Language /\ stoppedAt = None =>
    /\ input.top = Dynamic =>
          tree[1].score = LET Bar(w) == w = "bar"
                          IN  End \div 2 + Len(SelectSeq(input.text, Bar))
    /\ input.top = Forked => tree[1].score = 2

\* A node's range covers the ranges of the nodes in its subtree, and siblings
\* are in source order: the tree builder and every cursor rely on it.  Checked
\* where no recovery inserts a zero-width node in front of skipped text.
SequenceCovering == input.top = Sequence => Covering
-----------------------------------------------------------------------------
\* The values of the constants.  TLC evaluates a definition once, but one that
\* stands for a constant at every use: hence a second name for each table.
MCActionRow == ActionTable
MCSkipRow == SkipTable
MCDefaultReduce == DefaultTable
MCForcedReduce == ForcedTable
MCGoto == GotoTable
MCLex == LexTable
MCLanguage == Derived
MCNoActions == NoActionTable
MCDynamicPrecedence == PrecedenceTable
MCLexingState == LexingTable
MCSkippedState == SkippedTable
MCAcceptingState == AcceptingTable
MCAllTexts == AllTexts
MCTupleTexts == TupleTexts
MCRecursiveTexts == RecursiveTexts
MCBracketTexts == BracketTexts
=============================================================================
