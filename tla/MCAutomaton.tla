------------------------------- MODULE MCAutomaton -------------------------------
(***************************************************************************)
(* Small grammars of every kind that the generator treats in a way of its  *)
(* own, for Automaton, and small lexicons, for TokenGroups.                *)
(***************************************************************************)
EXTENDS TokenGroups

MCSymbols ==
    <<"b", "f", "g", "n", "p", "q", "u", "v", "w", "eof",
      "T", "U", "A", "B", "C", "E", "R", "i", "j", "k", "l", "m">>
MCTerminals == {"b", "f", "g", "n", "p", "q", "u", "v", "w", "eof"}
MCInteresting == {"T", "U", "A", "B", "C", "E", "R"}
MCInline == {"i"}
MCStartTerms == <<"T", "U">>
MCPreserved == {"T", "U"}

Marked(name, parts, marks) == [name |-> name, parts |-> parts, marks |-> marks]
Rule(name, parts) ==
    Marked(name, parts, [k \in 1..(Len(parts) + 1) |-> Neutral])

-----------------------------------------------------------------------------
(* A and B have the same texts, and the context says which of them it is:  *)
(* their states have one core and must stay apart, down to the beginning.  *)
(* The rules of a name are in front of those that use it, as the builder   *)
(* makes them.                                                             *)

Ends2 == {<<"p", "q">>, <<"q", "p">>, <<"p", "n">>, <<"b", "q">>}
Uses(context, ends) ==
    <<Rule("T", <<context, "A", ends[1]>>), Rule("T", <<context, "B", ends[2]>>)>>

Bodies ==
    {<<Rule("A", <<"f">>), Rule("B", <<"f">>)>>,
     <<Rule("A", <<"f", "g">>), Rule("B", <<"f", "g">>)>>,
     <<Rule("C", <<"g">>), Rule("C", <<"n", "C">>), Rule("A", <<"f", "C">>),
       Rule("B", <<"f", "C">>)>>}

Contexts ==
    {body \o Uses("u", a) \o Uses("v", b) \o Uses("w", c) :
        a \in Ends2, b \in Ends2, c \in Ends2, body \in Bodies}

-----------------------------------------------------------------------------
(* Two operators, each with a precedence and an associativity, or with a   *)
(* group of ambiguities, or with nothing.                                  *)

Level(n) == [Neutral EXCEPT !.precedence = n]
Ambiguous == [Neutral EXCEPT !.ambiguity = {"amb"}]

Operators ==
    {<<Neutral, Neutral>>, <<Ambiguous, Neutral>>}
    \union {<<Level(4 * n), Level(4 * n + a)>> : n \in {1, 2}, a \in {-1, 0, 1}}

Binary(token, op) ==
    Marked("E", <<"E", token, "E">>, <<Neutral, op[1], Neutral, op[2]>>)

Expressions ==
    {<<Binary("p", one), Binary("q", two), Rule("E", <<"n">>), Rule("T", <<"E">>)>> :
        one \in Operators, two \in Operators}

-----------------------------------------------------------------------------
(* Repetitions, names that may be empty, a cut, two top rules.             *)

Repetitions ==
    {<<Rule("A", <<"n">>), Rule("A", <<"f", "g">>), Rule("R", <<"R", "R">>),
       Rule("R", <<item>>), Rule("T", before \o <<"R">> \o after)>> :
        before \in {<<>>, <<"u">>}, after \in {<<>>, <<"p">>}, item \in {"A", "b"}}

Optional ==
    {<<Rule("A", <<>>), Rule("A", a), Rule("B", <<>>), Rule("B", b),
       Rule("T", <<"u", "A", "p">>), Rule("T", <<"v", "A", "B", "q">>)>> :
        a \in {<<"f">>, <<"f", "A">>}, b \in {<<"g">>, <<"n", "B">>}}

Cuts ==
    {<<Marked("A", <<"f", "g">>, <<[Neutral EXCEPT !.cut = n], Neutral, Neutral>>),
       Rule("B", <<"f", "n">>), Rule("T", <<"A">>), Rule("T", <<"B">>),
       Rule("U", <<"u", "B">>)>> : n \in {0, 1}}

-----------------------------------------------------------------------------
(* Hidden names: short ones, one declared inline, and equal ones.          *)

Defined(name, bodies) == [b \in DOMAIN bodies |-> Rule(name, bodies[b])]

Hidden == {<<<<"f">>>>, <<<<"f">>, <<"g", "k">>>>, <<<<"f", "n", "g">>>>}

Helpers ==
    {Defined("i", i) \o Defined("k", k) \o Defined("j", j) \o Defined("l", l)
     \o <<Rule("T", <<"u", "i", "j", "p">>), Rule("T", <<"v", "l", "q">>)>> :
        i \in {<<<<>>, <<"b">>>>, <<<<"b", "n">>>>}, j \in Hidden, l \in Hidden,
        k \in {<<<<"n">>>>, <<<<"n">>, <<"b">>>>}}

-----------------------------------------------------------------------------
(* Tokens: f, g and n in the contexts of u, v and w, alone or together;    *)
(* and f and g behind a name whose states have one core.                   *)

Lexed ==
    {<<Rule("T", <<"u", "f", "p">>), Rule("T", <<"v", "g", "p">>)>> \o more :
        more \in {<<>>, <<Rule("T", <<"w", "f">>), Rule("T", <<"w", "g">>)>>,
                  <<Rule("T", <<"v", "n">>), Rule("T", <<"w", "b">>)>>}}
    \union
    {<<Rule("A", <<"p">>), Rule("A", <<"p", "q">>), Rule("T", <<"u", "A", "f">>),
       Rule("T", <<"v", "A", "g">>)>>}

MCGrammars ==
    Contexts \union Expressions \union Repetitions \union Optional \union Cuts
    \union Helpers \union Lexed

-----------------------------------------------------------------------------
(* Grammars that lose texts: a short name in a name declared inline, and   *)
(* three names with the same rules, which the simplification drops with    *)
(* their uses left; and a node that is always empty, in two places.        *)

Lost ==
    {<<Rule("k", <<"n">>), Rule("i", <<"b", "k">>), Rule("T", <<"u", "i", "p">>)>>,
     Defined("j", <<<<"f">>, <<"g">>>>) \o Defined("l", <<<<"f">>, <<"g">>>>)
     \o Defined("m", <<<<"f">>, <<"g">>>>)
     \o <<Rule("T", <<"u", "j", "p">>), Rule("T", <<"v", "l", "q">>), Rule("T", <<"w", "m">>)>>,
     <<Rule("A", <<>>), Rule("T", <<"u", "A", "p">>), Rule("T", <<"v", "A", "q">>)>>}

MCLost == Helpers \union Lost

-----------------------------------------------------------------------------
(* Lexicons over three code points.  Where nothing is asked of the tokens, *)
(* they are words of two.                                                  *)

MCLexemes == UNION {[1..n -> 0..2] : n \in 0..3}

Word(text) == [kind |-> "literal", text |-> text]
Set(ranges) == [kind |-> "set", ranges |-> ranges, inverted |-> FALSE]
Not(ranges) == [kind |-> "set", ranges |-> ranges, inverted |-> TRUE]
AtEof == [kind |-> "eof"]
Choice(list) == [kind |-> "choice", of |-> list]
Sequence(list) == [kind |-> "sequence", of |-> list]
Repeat(e, times) == [kind |-> "repeat", of |-> e, times |-> times]
Name(name) == [kind |-> "name", name |-> name]

Named(name) ==
    CASE name = "tail" -> Choice(<<Word(<<1>>), Sequence(<<Set({<<0, 1>>}), Name("tail")>>)>>)
      [] name = "nested" -> Sequence(<<Word(<<0>>), Repeat(Name("nested"), "?"), Word(<<1>>)>>)
NamedRules == [name \in {"tail", "nested"} |-> Named(name)]

Words ==
    [t \in MCTerminals \ {"eof"} |->
        Word(CASE t = "b" -> <<0, 0>> [] t = "f" -> <<0, 1>> [] t = "g" -> <<0, 2>>
               [] t = "n" -> <<1, 0>> [] t = "p" -> <<1, 1>> [] t = "q" -> <<1, 2>>
               [] t = "u" -> <<2, 0>> [] t = "v" -> <<2, 1>> [] t = "w" -> <<2, 2>>)]

Lexicon(words, precedence, conflicts, base) ==
    [tokens |-> words, named |-> NamedRules, base |-> base, precedence |-> precedence,
     conflicts |-> conflicts]

Orders ==
    {<<>>, <<<<"f", "g">>>>, <<<<"g", "f">>>>, <<<<"f", "g">>, <<"n", "f">>>>,
     <<<<"f", "g">>, <<"g", "f">>>>}

\* f and n are said to be in conflict, and b is a specialization of f; or neither.
MCLexicons(grammar) ==
    IF grammar \notin Lexed THEN {Lexicon(Words, <<>>, {}, <<>>)}
    ELSE {Lexicon([Words EXCEPT !["f"] = f, !["g"] = g, !["n"] = Sequence(<<Word(<<0>>), AtEof>>)],
                  order, IF more THEN {{"f", "n"}} ELSE {},
                  IF more THEN [b \in {"b"} |-> "f"] ELSE <<>>) :
             f \in {Word(<<0>>), Word(<<0, 1>>), Repeat(Set({<<0, 1>>}), "+"), Name("tail")},
             g \in {Word(<<0>>), Word(<<0, 1, 2>>), Repeat(Not({<<2, 3>>}), "*"),
                    Sequence(<<Word(<<0>>), Repeat(Set({<<0, 2>>}), "*")>>), Name("nested")},
             order \in Orders, more \in BOOLEAN}
=============================================================================
