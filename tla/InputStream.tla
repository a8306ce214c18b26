------------------------------ MODULE InputStream ------------------------------
(***************************************************************************)
(* InputStream of rezel-lr/src/token.rs: the characters of the selected     *)
(* ranges, read through a cursor, an identity chunk, a window on that chunk *)
(* and a cached character, and the generated tokenizers that read it.       *)
(*                                                                         *)
(*   text      the logical characters of the whole input, by the raw        *)
(*             position they start at: value, raw bytes from .. to, and      *)
(*             plain: whether the raw bytes spell it                         *)
(*   ranges    the selected ranges, sorted and disjoint, some may be empty   *)
(*   stream    the fields of InputStream.  A window keeps raw positions;     *)
(*             windowAt is the raw position window_source_position stands    *)
(*             for.  broken, history: the assertions that failed so far      *)
(*   answer    what the last operation returned                             *)
(*   selected, end   history: the characters of the selected ranges and the  *)
(*             end of the last, for comparison only                         *)
(***************************************************************************)
EXTENDS TokenTable, FiniteSetsExt

CONSTANTS Texts,        \* the inputs: characters by their position
          MaxRanges,    \* the number of selected ranges
          MaxParts,     \* the number of characters and ranges together
          Groups, LocalGroups, Runs, Counts,
          Overruns,     \* whether Advance may be asked for more than is left
          EscapedAscii  \* whether a local group meets translated ASCII

VARIABLES text, ranges, stream, answer, selected, end
vars == << text, ranges, stream, answer, selected, end >>

\* The characters of an input lie behind each other from its start on, and ASCII
\* that is spelled as it is takes one byte.
InputCharacter == [value : Nat, from : Nat, to : Nat, plain : BOOLEAN]
IsText(t) ==
    /\ t \in [DOMAIN t -> InputCharacter]
    /\ IsFiniteSet(DOMAIN t) /\ DOMAIN t \subseteq Nat
    /\ DOMAIN t # {} => 0 \in DOMAIN t
    /\ \A p \in DOMAIN t :
          /\ t[p].from = p /\ p < t[p].to
          /\ t[p].plain /\ Ascii(t[p].value) => t[p].to = p + 1
          /\ \A q \in DOMAIN t : p < q => t[p].to <= q
          /\ t[p].to \in DOMAIN t \/ \A q \in DOMAIN t : q <= p

\* The targets of a table are states of it.
IsTable(table) ==
    LET States == DOMAIN table.eof
    IN  /\ table.eof \in Seq({None} \cup {<< q >> : q \in States}) /\ StartState \in States
        /\ \A q \in States :
              /\ table.accepts[q] \in Seq([term : Nat, groups : SUBSET Nat])
              /\ \A v \in DOMAIN table.edges[q] : table.edges[q][v] \in States

ASSUME InputAssumption ==
    /\ \A t \in Texts : IsText(t)
    /\ MaxRanges \in Nat /\ MaxParts \in Nat
    /\ Counts \subseteq Nat
    /\ \A g \in Groups \cup LocalGroups : IsTable(g.table)
    /\ \A g \in LocalGroups : g.else # None => g.else[1] \in Nat

-----------------------------------------------------------------------------
(* The lexical input: rezel-common/src/parse.rs and the translating inputs  *)
(* of the languages.                                                        *)

Boundaries == {0} \cup {text[p].to : p \in DOMAIN text}
Length == Max(Boundaries)

\* LexicalInput::character.
CharacterFrom(position) == IF position \in DOMAIN text THEN << text[position] >> ELSE None

\* identity_chunk: from a plain character up to the next translated one.
IdentityChunk(position) ==
    IF CharacterFrom(position) = None \/ ~CharacterFrom(position)[1].plain THEN None
    ELSE LET translated == {p \in DOMAIN text : ~text[p].plain /\ p >= position}
         IN  << [start |-> position,
                 end |-> IF translated = {} THEN Length ELSE Min(translated)] >>

Covers(span, position) ==
    span # None /\ span[1].start <= position /\ position < span[1].end

\* The ASCII byte at a position of a chunk or window.
AsciiByte(span, position) ==
    LET at == CharacterFrom(position)
    IN  IF Covers(span, position) /\ at # None /\ Ascii(at[1].value)
        THEN << at[1].value >> ELSE None

\* InputChunk::character.
ChunkCharacter(span, position) ==
    IF Covers(span, position) THEN CharacterFrom(position) ELSE None

\* What an operation makes of a value, which is found once.
Then(value, Operation(_)) ==
    CHOOSE result \in {Operation(found) : found \in {value}} : TRUE

-----------------------------------------------------------------------------
(* Cursors.                                                                *)

Cursor(range, byte) == [range |-> range, byte |-> byte]
RangeEnd(cursor) == ranges[cursor.range].end
Inside(cursor) == /\ ranges[cursor.range].start <= cursor.byte
                  /\ cursor.byte < RangeEnd(cursor)
Empty(i) == ranges[i].start = ranges[i].end

EndCursor == Cursor(Len(ranges), ranges[Len(ranges)].end)

\* next_range_cursor.
NextRange(i) ==
    LET later == {j \in i + 1 .. Len(ranges) : ~Empty(j)}
    IN  IF later = {} THEN None ELSE << Cursor(Min(later), ranges[Min(later)].start) >>

NextRangeOrEnd(i) == IF NextRange(i) = None THEN << EndCursor >> ELSE NextRange(i)

\* A position at the end of a range left there, in front of the gap.
CursorFromLeft(position) ==
    LET open == {i \in DOMAIN ranges : ranges[i].end >= position /\ ~Empty(i)}
    IN  IF Len(ranges) = 1
        THEN Cursor(1, Min({ranges[1].end, Max({ranges[1].start, position})}))
        ELSE IF open = {} THEN EndCursor
        ELSE Cursor(Min(open), Max({ranges[Min(open)].start, position}))

\* cursor_at_or_after: a position in a gap belongs to the range behind it.
CursorFrom(position) ==
    LET open == {i \in DOMAIN ranges : ranges[i].end > position /\ ~Empty(i)}
    IN  IF Len(ranges) = 1
        THEN Cursor(1, Min({ranges[1].end, Max({ranges[1].start, position})}))
        ELSE IF open = {} THEN EndCursor
        ELSE Cursor(Min(open), Max({ranges[Min(open)].start, position}))

\* A character that lies in the range of the cursor; character_at.
InRange(at, cursor) ==
    IF Inside(cursor) /\ at # None /\ at[1].to <= RangeEnd(cursor) THEN at ELSE None
CharacterAt(cursor) == InRange(CharacterFrom(cursor.byte), cursor)

\* Behind a character that ends at a raw position.
Behind(cursor, byte) ==
    IF byte < RangeEnd(cursor) THEN << [cursor EXCEPT !.byte = byte] >>
    ELSE NextRangeOrEnd(cursor.range)

\* advance_cursor.
AdvanceCursor(cursor) ==
    IF ~Inside(cursor) THEN NextRange(cursor.range)
    ELSE IF CharacterAt(cursor) = None THEN None
    ELSE Behind(cursor, CharacterAt(cursor)[1].to)

-----------------------------------------------------------------------------
(* Chunk, window and cached character.                                     *)

\* A window over the whole chunk.
WindowToChunkEnd(chunk, position, limit) == chunk

\* FastWindow::new: the part of a chunk from a position to the range's end.
Window(chunk, position, limit) ==
    IF chunk = None THEN None
    ELSE LET start == Max({chunk[1].start, position})
             stop == Min({chunk[1].end, limit})
         IN  IF start >= stop THEN None ELSE << [start |-> start, end |-> stop] >>

\* load_identity_chunk.
Covering(span, position) == IF Covers(span, position) THEN span ELSE None
Installed(s, chunk, window) ==
    [s EXCEPT !.chunk = chunk, !.window = window,
              !.windowAt = IF window = None THEN 0 ELSE s.cursor.byte]
LoadedFrom(s, chunk) ==
    Installed(s, chunk, Covering(Window(chunk, s.cursor.byte, RangeEnd(s.cursor)),
                                 s.cursor.byte))
Loaded(s) == LoadedFrom(s, IdentityChunk(s.cursor.byte))

\* A window that is found is taken to be in step.
SyncedIfMissing(s) == IF Covers(s.window, s.cursor.byte) THEN s ELSE Loaded(s)

\* sync_window_position, or a new window.
Synced(s) == IF Covers(s.window, s.cursor.byte) THEN [s EXCEPT !.windowAt = s.cursor.byte]
             ELSE Loaded(s)

\* chunk_ascii and chunk_character.
ChunkAscii(s) == IF Inside(s.cursor) THEN AsciiByte(s.chunk, s.cursor.byte) ELSE None
OwnChunkCharacter(s) == InRange(ChunkCharacter(s.chunk, s.cursor.byte), s.cursor)

\* current_character_impl: the stream with its cached character, None when there
\* is none here.
OrElse(a, b) == IF a # None THEN a ELSE b
Character(s) == IF s.character # None /\ s.character[1].cursor = s.cursor
                THEN << s.character[1].is >> ELSE None
Caching(s, found) ==
    IF found = None THEN s
    ELSE [s EXCEPT !.character = << [cursor |-> s.cursor, is |-> found[1]] >>]
Fetched(s) == Caching(s, OrElse(OwnChunkCharacter(s), CharacterAt(s.cursor)))
WithCharacter(s, load) ==
    IF Character(s) # None \/ ~Inside(s.cursor) THEN s
    ELSE Then(IF load /\ OwnChunkCharacter(s) = None THEN Loaded(s) ELSE s, Fetched)

\* refresh_next.
Showing(s, next) == [s EXCEPT !.next = next]
ShowingCharacter(s) ==
    Showing(s, IF Character(s) = None THEN None ELSE << Character(s)[1].value >>)
ShowingByte(s, byte) ==
    IF byte # None THEN Showing(s, byte) ELSE ShowingCharacter(WithCharacter(s, FALSE))
Refreshed(s) == ShowingByte(s, OrElse(AsciiByte(s.window, s.windowAt), ChunkAscii(s)))
RefreshNext(s) == Then(Synced(s), Refreshed)

NewStream == RefreshNext(
    [cursor |-> CursorFrom(0), tokenStart |-> CursorFrom(0).byte, accepted |-> None,
     chunk |-> None, window |-> None, windowAt |-> 0, character |-> None, next |-> None,
     broken |-> {}])

\* debug_assert: a failed one is remembered, and a release build goes on.
Asserting(s, name, holds) == IF holds THEN s ELSE [s EXCEPT !.broken = @ \cup {name}]

-----------------------------------------------------------------------------
(* Moving.                                                                 *)

\* advance_current: the stream, and the cursor behind its next character.
BehindCharacter(s) ==
    [stream |-> s, cursor |-> IF Character(s) = None THEN None
                              ELSE Behind(s.cursor, Character(s)[1].to)]
Onward(s) ==
    IF ~Inside(s.cursor) THEN [stream |-> s, cursor |-> NextRange(s.cursor.range)]
    ELSE IF ChunkAscii(s) # None
    THEN [stream |-> s, cursor |-> Behind(s.cursor, s.cursor.byte + 1)]
    ELSE BehindCharacter(WithCharacter(s, TRUE))

\* What comes of a start in n rounds.
After(n, start, Round(_)) ==
    LET at[k \in 0 .. n] ==
            IF k = 0 THEN start ELSE Then(at[k - 1], Round)
    IN  at[n]

\* advance_general: running over the end forgets next but leaves the window.
Moved(on) ==
    IF on.cursor = None
    THEN [stream |-> [on.stream EXCEPT !.cursor = EndCursor, !.next = None], over |-> TRUE]
    ELSE [stream |-> [on.stream EXCEPT !.cursor = on.cursor[1]], over |-> FALSE]
MoveRound(at) == IF at.over THEN at ELSE Then(Onward(at.stream), Moved)
MovedBy(s, n) == After(n, [stream |-> s, over |-> FALSE], MoveRound)
Settled(at) == IF at.over THEN at.stream ELSE RefreshNext(at.stream)
AdvanceGeneral(s, n) == Then(MovedBy(s, n), Settled)

\* move_past_selected_range_end.
PastRangeEnd(s) ==
    IF s.cursor.byte < RangeEnd(s.cursor) THEN s
    ELSE [s EXCEPT !.cursor = NextRangeOrEnd(s.cursor.range)[1]]

\* The stream behind n bytes of its window: the next byte, or the range that
\* follows when the window ends.
MovedInWindow(s) ==
    LET next == AsciiByte(s.window, s.windowAt)
    IN  IF next # None THEN Showing(s, next)
        ELSE RefreshNext(IF s.cursor.byte = s.window[1].end THEN PastRangeEnd(s) ELSE s)
InWindow(s, n) ==
    MovedInWindow([s EXCEPT !.cursor.byte = @ + n, !.windowAt = @ + n, !.character = None])

HasWindow(s) == s.window # None /\ s.windowAt < s.window[1].end

\* advance_known_ascii: the window has the byte that is next.
Expected(s) == Asserting(s, "byte", AsciiByte(s.window, s.windowAt) = s.next)
AdvanceKnown(s) == IF HasWindow(s) THEN InWindow(Expected(s), 1) ELSE AdvanceGeneral(s, 1)

AdvanceBy(s, n) ==
    IF n = 1 /\ s.next # None /\ Ascii(s.next[1]) THEN AdvanceKnown(s) ELSE AdvanceGeneral(s, n)

\* advance_ascii_while: the ASCII run of the window.
RunLength(s, set) ==
    LET rest == s.windowAt .. s.window[1].end
    IN  Min({p \in rest : AsciiByte(s.window, p) = None \/ AsciiByte(s.window, p)[1] \notin set})
        - s.windowAt

RunOf(s, count) ==
    [stream |-> IF count = 0 THEN s ELSE InWindow(s, count), count |-> count,
     stopped |-> AsciiByte(s.window, s.windowAt + count) # None]
NoRun(s) == [stream |-> s, count |-> 0, stopped |-> FALSE]
RunThrough(s, set) == IF s.window = None THEN NoRun(s) ELSE RunOf(s, RunLength(s, set))

AsciiWhile(s, set) ==
    IF ~HasWindow(s) /\ ~Inside(s.cursor) THEN NoRun(s)
    ELSE RunThrough(IF HasWindow(s) THEN Asserting(s, "window", s.windowAt = s.cursor.byte)
                    ELSE Loaded(s), set)

\* reset.
ResetTo(s, position) ==
    LET cursor == CursorFrom(position)
        fresh == [Asserting(s, "boundary", position \in Boundaries)
                     EXCEPT !.accepted = None, !.tokenStart = cursor.byte]
    IN  IF s.cursor.byte = position
        THEN [s EXCEPT !.accepted = None, !.tokenStart = position]
        ELSE IF s.cursor = cursor THEN fresh
        ELSE RefreshNext([fresh EXCEPT !.cursor = cursor])

\* next_position: behind the next character, taken for one byte if it is ASCII.
NextPosition(s) ==
    LET on == IF s.next # None /\ Ascii(s.next[1]) THEN Behind(s.cursor, s.cursor.byte + 1)
              ELSE AdvanceCursor(s.cursor)
    IN  IF on = None THEN None ELSE << on[1].byte >>

-----------------------------------------------------------------------------
(* The generated tokenizers.                                               *)

\* accept_current.
Accept(s, term) == [Asserting(s, "start", s.cursor.byte >= s.tokenStart)
                        EXCEPT !.accepted = << [term |-> term, end |-> s.cursor.byte] >>]

AcceptFor(s, g, state) ==
    LET term == Accepted(g.table, state, g.group,
                         IF s.accepted = None THEN None ELSE << s.accepted[1].term >>,
                         g.precedence, g.disabled)
    IN  IF term = None THEN s ELSE Accept(s, term[1])

\* The values on which a state goes to itself: advance_ascii_self_loop.
SelfLoop(table, state) ==
    {v \in DOMAIN table.edges[state] : Ascii(v) /\ table.edges[state][v] = state}

\* read_token_inner: each round accepts and goes on to a state, None when the
\* reading is over.  A state that goes to itself takes the rest of an ASCII run.
At(s, state) == [stream |-> s, state |-> state]
ReadRun(run, state) ==
    At(IF run.count # 0 THEN run.stream ELSE AdvanceKnown(run.stream), << state >>)
ReadEdge(s, g, state, target) ==
    IF ~Ascii(s.next[1]) THEN At(AdvanceBy(s, 1), << target >>)
    ELSE IF target # state THEN At(AdvanceKnown(s), << target >>)
    ELSE ReadRun(AsciiWhile(s, SelfLoop(g.table, state)), state)
ReadOn(s, g, state) ==
    IF s.next = None THEN At(s, g.table.eof[state])
    ELSE IF ~HasEdge(g.table, state, s.next[1]) THEN At(s, None)
    ELSE ReadEdge(s, g, state, g.table.edges[state][s.next[1]])
ReadRound(at, g) ==
    IF at.state = None THEN at
    ELSE IF ~Active(g.table, at.state[1], g.group) THEN At(at.stream, None)
    ELSE Then(AcceptFor(at.stream, g, at.state[1]), LAMBDA s : ReadOn(s, g, at.state[1]))

\* As many rounds as a reading can have: one for each character, and the states
\* that follow each other at the end of the input.
Rounds(g) == Cardinality(DOMAIN text) + Len(g.table.eof) + 1
ReadTokenWith(s, g) ==
    After(Rounds(g), At(s, << StartState >>), LAMBDA at : ReadRound(at, g)).stream

\* The mark taken after the reading, behind the token that ended the run.
ScanEndAfter(s, read) == read.cursor.byte

\* scan_end: the mark taken before the reading.
ScanEnd(s, read) == s.cursor.byte

\* read_local_token: one reading after the other until a token is accepted.
ElseToken(read, g, start, scanEnd) ==
    [ResetTo(read, start) EXCEPT !.accepted = << [term |-> g.else[1], end |-> scanEnd] >>]
LocalFrom(s, read, ahead, g, start) ==
    IF read.accepted = None /\ g.else # None /\ ahead # None
    THEN [stream |-> ResetTo(read, ahead[1]), over |-> FALSE]
    ELSE [stream |-> IF read.accepted # None /\ s.cursor.byte > start
                     THEN ElseToken(read, g, start, ScanEnd(s, read)) ELSE read,
          over |-> TRUE]
LocalRound(at, g, start) ==
    IF at.over THEN at
    ELSE LocalFrom(at.stream, ReadTokenWith(at.stream, g), NextPosition(at.stream), g, start)

\* Each round begins at a later byte.
ReadLocalFrom(s, g, start) ==
    After(Length + 1, [stream |-> s, over |-> FALSE],
          LAMBDA at : LocalRound(at, g, start)).stream
-----------------------------------------------------------------------------
\* The characters of a text in their order.
Characters(t) == LET starts == SetToSortSeq(DOMAIN t, <) IN [i \in DOMAIN starts |-> t[starts[i]]]

Selected(t, r) ==
    LET inside(i) == SelectSeq(Characters(t), LAMBDA c : r[i].start <= c.from /\ c.to <= r[i].end)
        marked(i) == [j \in DOMAIN inside(i) |->
            [value |-> inside(i)[j].value, from |-> inside(i)[j].from,
             plain |-> inside(i)[j].plain, range |-> i]]
    IN  FoldLeft(LAMBDA all, i : all \o marked(i), << >>, [i \in DOMAIN r |-> i])

Span(r) == r.start <= r.end
Disjoint(r) == \A j \in DOMAIN r : \A i \in 1 .. j - 1 : r[i].end <= r[j].start

Init ==
    /\ text \in Texts
    /\ \E n \in 1 .. Min({MaxRanges, MaxParts - Cardinality(DOMAIN text)}) :
          ranges \in {r \in [1 .. n -> {span \in [start : Boundaries, end : Boundaries] :
                                            Span(span)}] : Disjoint(r)}
    /\ stream = NewStream
    /\ answer = None
    /\ selected = Selected(text, ranges)
    /\ end = ranges[Len(ranges)].end

Reset == \E p \in Boundaries :
    /\ stream' = ResetTo(stream, p)
    /\ answer' = None

Advance == \E n \in Counts :
    /\ Overruns \/ n = 1 \/ ~MovedBy(stream, n).over
    /\ stream' = AdvanceBy(stream, n)
    /\ answer' = stream'.next

AdvanceAscii == \E set \in Runs :
    LET run == AsciiWhile(stream, set)
    IN  /\ stream' = run.stream
        /\ answer' = << run.count, run.stopped >>

\* A tokenizer is asked right after a reset.
Asked == stream.accepted = None /\ stream.tokenStart = stream.cursor.byte

ReadToken == \E g \in Groups :
    /\ Asked
    /\ stream' = ReadTokenWith(stream, g)
    /\ answer' = None

\* The else token is lost: nothing is accepted and no assertion says so.
Checked(read, g) ==
    LET dropped == g.else # None /\ read.accepted = None /\ stream.next # None
                   /\ read.broken = stream.broken
    IN  Asserting(read, "else", ~dropped)

\* Translated ASCII in a selected range.
Escaped == \E p \in DOMAIN text, r \in DOMAIN ranges :
    /\ ~text[p].plain /\ Ascii(text[p].value)
    /\ ranges[r].start <= p /\ text[p].to <= ranges[r].end
ReadLocal == \E g \in LocalGroups :
    /\ Asked
    /\ EscapedAscii \/ g.else = None \/ ~Escaped
    /\ stream' = Checked(ReadLocalFrom(stream, g, stream.cursor.byte), g)
    /\ answer' = None

Next == /\ (Reset \/ Advance \/ AdvanceAscii \/ ReadToken \/ ReadLocal)
        /\ UNCHANGED << text, ranges, selected, end >>
Spec == Init /\ [][Next]_vars
-----------------------------------------------------------------------------
(* Properties.                                                             *)

\* The debug assertions of the stream hold: the window stands where the cursor
\* stands and has the byte that was shown as next, the stream is reset to logical
\* boundaries only, and no token ends before it starts.
AssertionsHold == stream.broken \cap {"window", "byte", "boundary", "start"} = {}

\* Not all of these are broken in one stream: the assertion of
\* advance_ascii_while that the window is in step with the cursor, that of reset
\* that its position is a boundary, and "`@else` consumes content not matched by
\* another local token" (docs/adding-a-language/02-grammar-syntax.md).
StatementsKept == ~({"window", "boundary", "else"} \subseteq stream.broken)
=============================================================================
