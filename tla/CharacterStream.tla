---------------------------- MODULE CharacterStream ----------------------------
(***************************************************************************)
(* What an InputStream promises a tokenizer: the selected text is one       *)
(* sequence of logical characters, the stream is a place in it, and no gap, *)
(* chunk, window or translation shows.  InputStream implements this         *)
(* specification.                                                           *)
(*                                                                         *)
(*   selected    the selected characters: their value, where they begin and *)
(*               end in the raw text, and whether they are plain            *)
(*   end         the raw position behind the last selected range            *)
(*   place       the character the stream is in front of                    *)
(*   tokenStart  where the token being read starts                          *)
(*   accepted    None, or the accepted term and the raw position it ends at *)
(*   answer      what the last operation returned                           *)
(***************************************************************************)
EXTENDS TokenTable

CONSTANTS Groups,      \* the token groups a tokenizer may ask for
          LocalGroups, \* local token groups with their else token
          Positions,   \* raw positions
          Runs,        \* sets of ASCII values the predicate of a run accepts
          Counts       \* numbers of characters to advance by

VARIABLES selected, end, place, tokenStart, accepted, answer
vars == << selected, end, place, tokenStart, accepted, answer >>

Places == 1 .. Len(selected) + 1
Position(i) == IF i <= Len(selected) THEN selected[i].from ELSE end
ValueAt(i) == IF i \in DOMAIN selected THEN << selected[i].value >> ELSE None

\* The first character that starts at a position or behind it.
PlaceOf(position) ==
    LET beyond == {i \in DOMAIN selected : selected[i].from >= position}
    IN  IF beyond = {} THEN Len(selected) + 1
        ELSE CHOOSE i \in beyond : \A j \in beyond : i <= j

\* An ASCII run goes on while plain ASCII characters of the set follow each
\* other in one selected range.
RunEnd(i, set) ==
    CHOOSE j \in i .. Len(selected) + 1 :
        /\ \A k \in i .. j - 1 : /\ selected[k].plain /\ Ascii(selected[k].value)
                                 /\ selected[k].value \in set
                                 /\ selected[k].range = selected[i].range
        /\ \/ j > Len(selected)
           \/ ~selected[j].plain \/ ~Ascii(selected[j].value)
           \/ selected[j].value \notin set
           \/ selected[j].range # selected[i].range

\* Whether a run that ended at j met a plain ASCII character it may not take.
Mismatch(i, j) ==
    /\ j \in DOMAIN selected
    /\ selected[j].range = selected[i].range /\ selected[j].plain /\ Ascii(selected[j].value)

\* The states of a walk from place i, and the term accepted after each: steps
\* beyond the last character are steps at the end of the input.
RECURSIVE Longest(_, _, _, _)
Longest(g, i, state, best) ==
    IF ~Active(g.table, state, g.group) THEN best
    ELSE LET term == Accepted(g.table, state, g.group,
                              IF best = None THEN None ELSE << best[1].term >>,
                              g.precedence, g.disabled)
             now == IF term = None THEN best ELSE << [term |-> term[1], end |-> Position(i)] >>
         IN  IF i > Len(selected)
             THEN IF g.table.eof[state] = None THEN now
                  ELSE Longest(g, i, g.table.eof[state][1], now)
             ELSE IF HasEdge(g.table, state, selected[i].value)
                  THEN Longest(g, i + 1, g.table.edges[state][selected[i].value], now)
                  ELSE now

\* The token a group reads at a place.
Reading(g, i) == Longest(g, i, StartState, None)

\* A local group with an else token: everything up to the first place where one
\* of its own tokens is read is the else token.  The code finds no such place
\* when the input ends first, and accepts nothing then.
LocalReading(g, i) ==
    LET found == {j \in i .. Len(selected) + 1 : Reading(g, j) # None}
        first == CHOOSE j \in found : \A k \in found : j <= k
    IN  IF g.else = None THEN Reading(g, i)
        ELSE IF found = {} THEN None
        ELSE IF first = i THEN Reading(g, i)
        ELSE << [term |-> g.else[1], end |-> Position(first)] >>
-----------------------------------------------------------------------------
Reset == \E p \in Positions :
    /\ place' = PlaceOf(p)
    /\ tokenStart' = Position(PlaceOf(p))
    /\ accepted' = None
    /\ answer' = None

Advance == \E n \in Counts :
    /\ place' = IF place + n \in Places THEN place + n ELSE Len(selected) + 1
    /\ answer' = ValueAt(place')
    /\ UNCHANGED << tokenStart, accepted >>

AdvanceAscii == \E set \in Runs :
    /\ place' = RunEnd(place, set)
    /\ answer' = << place' - place, Mismatch(place, place') >>
    /\ UNCHANGED << tokenStart, accepted >>

\* Where a tokenizer stops reading is its own business.
ReadToken == \E g \in Groups :
    /\ accepted = None
    /\ place' \in place .. Len(selected) + 1
    /\ accepted' = Reading(g, place)
    /\ answer' = None
    /\ UNCHANGED tokenStart

\* tokenStart is of use only to the token that is being read.
ReadLocal == \E g \in LocalGroups :
    /\ accepted = None /\ tokenStart = Position(place)
    /\ place' \in place .. Len(selected) + 1
    /\ accepted' = LocalReading(g, place)
    /\ accepted' # None => tokenStart' = tokenStart
    /\ tokenStart' \in {Position(i) : i \in place .. Len(selected) + 1}
    /\ answer' = None

Init == /\ place = 1
        /\ tokenStart = Position(1)
        /\ accepted = None
        /\ answer = None
Next == /\ (Reset \/ Advance \/ AdvanceAscii \/ ReadToken \/ ReadLocal)
        /\ UNCHANGED << selected, end >>
StreamSpec == Init /\ [][Next]_vars
=============================================================================
