------------------------------- MODULE MCInput -------------------------------
(***************************************************************************)
(* InputStream on all short texts over plain and translated, ASCII and wide *)
(* characters, and all choices of selected ranges, empty ones included.    *)
(***************************************************************************)
EXTENDS InputLooks

CONSTANT MaxLength

Letter == 97
Quote == 34
Wide == 200
Surrogate == 300

\* Value, raw bytes and whether the bytes spell the value.
Alphabet == {<< Letter, 1, TRUE >>, << Quote, 1, TRUE >>, << Wide, 2, TRUE >>,
             << Surrogate, 3, FALSE >>, << Letter, 2, FALSE >>}

\* The characters laid out behind each other.
Start(word, i) == FoldLeft(LAMBDA sum, c : sum + c[2], 0, SubSeq(word, 1, i - 1))
Laid(word) == [p \in {Start(word, i) : i \in DOMAIN word} |->
    LET i == CHOOSE i \in DOMAIN word : Start(word, i) = p
    IN  [value |-> word[i][1], from |-> p, to |-> p + word[i][2], plain |-> word[i][3]]]

\* Two different characters are enough for every neighbourhood.
Words == {word \in UNION {[1 .. n -> Alphabet] : n \in 0 .. MaxLength} :
              Cardinality({word[i] : i \in DOMAIN word}) <= 2}
MCTexts == {Laid(word) : word \in Words}

\* Identifiers of letters and wide characters, of which the one letter alone is
\* also a keyword in group 1 and stands back for the identifier in group 2; and
\* a token at the end of the input.
Names == [groups  |-> << {1, 2}, {1, 2}, {1, 2}, {1} >>,
          accepts |-> << << >>,
                         << [term |-> 11, groups |-> {1, 2}], [term |-> 12, groups |-> {1}] >>,
                         << [term |-> 11, groups |-> {1, 2}] >>,
                         << [term |-> 13, groups |-> {1}] >> >>,
          edges   |-> << (Letter :> 2) @@ (Wide :> 3) @@ (Surrogate :> 3),
                         (Letter :> 3) @@ (Wide :> 3),
                         (Letter :> 3) @@ (Wide :> 3) @@ (Quote :> 4),
                         << >> >>,
          eof     |-> << << 4 >>, None, None, None >>]

\* A quote, or two of them: the local tokens of a string.
Quotes == [groups  |-> << {0}, {0}, {0} >>,
           accepts |-> << << >>, << >>, << [term |-> 21, groups |-> {0}] >> >>,
           edges   |-> << (Quote :> 2), (Quote :> 3), << >> >>,
           eof     |-> << None, None, None >>]

MCGroups == {[table |-> Names, group |-> 1, precedence |-> << 12, 11 >>, disabled |-> {}],
             [table |-> Names, group |-> 2, precedence |-> << >>, disabled |-> {12}]}
MCLocalGroups == {[table |-> Quotes, group |-> 0, precedence |-> << >>, disabled |-> {},
                   else |-> else] : else \in {None, << 22 >>}}
MCPositions == 0 .. 3 * MaxLength
MCRuns == {{Letter}, {Letter, Quote}}
=============================================================================
