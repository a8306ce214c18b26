------------------------------ MODULE MCTokens ------------------------------
(***************************************************************************)
(* Four tokenizers of every kind the run time tells apart, over a text of  *)
(* two words with a gap between the selected ranges: positions 0 and 2     *)
(* start the words, 1 lies in the gap and 3 is the end.                    *)
(* Terms: 1 word, 2 keyword, 3 layout, 4 filler, 5 alternative, 6 eof.     *)
(***************************************************************************)
EXTENDS TokenCache

MCState == 0 .. 2
MCActionRow == [s \in MCState |->
    CASE s = 0 -> << <<1, ShiftTo(1)>>, <<5, ShiftTo(1)>>, <<4, ShiftTo(2)>>, <<6, ReduceTo(1, 1)>> >>
      [] s = 1 -> << <<2, ShiftTo(0)>>, <<3, ShiftTo(2)>>, <<6, ReduceTo(1, 1)>> >>
      [] s = 2 -> << <<4, ShiftTo(0)>>, <<2, ShiftTo(1)>> >>]
MCSkipRow == [s \in MCState |-> IF s = 2 THEN << <<3, Skip(0)>> >> ELSE << >>]
MCNoActions == [s \in MCState |-> NoAction]
MCNothing == << >>
MCTopRule == {[state |-> 0, strict |-> TRUE]}

\* 1 an extending external tokenizer that starts only at a word, 2 a contextual
\* one for layout, 3 the words, which depend on the context, 4 a fallback.
Plain == [contextual |-> FALSE, fallback |-> FALSE, extend |-> FALSE]
MCTokenizer == <<[Plain EXCEPT !.extend = TRUE], [Plain EXCEPT !.contextual = TRUE],
                 Plain, [Plain EXCEPT !.fallback = TRUE]>>
MCMask == [s \in MCState |-> IF s = 0 THEN {1, 3, 4} ELSE {2, 3, 4}]
MCClip == [p \in 0 .. 3 |-> IF p = 1 THEN 2 ELSE p]
MCNextChar == [p \in 0 .. 3 |-> IF p = 3 THEN "end" ELSE "word"]
MCStartSet == [i \in {1} |-> {"word"}]

Blind(p) == [value |-> Error, end |-> p]
MCRead(i, p, s, c) ==
    CASE i = 1 -> IF p < 3 THEN [value |-> 5, end |-> 3] ELSE Blind(p)
      [] i = 2 -> IF s = 2 THEN [value |-> 3, end |-> p] ELSE Blind(p)
      [] i = 3 -> IF p = 3 \/ (c = 1 /\ p = 0) THEN Blind(p)
                  ELSE [value |-> 1, end |-> p + 1]
      [] i = 4 -> IF p = 3 /\ c = 1 THEN [value |-> Raised, end |-> p]
                  ELSE [value |-> 4, end |-> p]

\* A word is a keyword in state 1 and may be one in state 2.
MCSpecialize(token, s) ==
    IF token.value = 1 /\ s = 1 THEN [kind |-> "replace", term |-> 2]
    ELSE IF token.value = 1 /\ s = 2 THEN [kind |-> "extend", term |-> 2]
    ELSE [kind |-> "none", term |-> 0]
MCInvalid(token) == token.value = 1 /\ token.end = 3
=============================================================================
