----------------------------- MODULE InputProofs -----------------------------
(***************************************************************************)
(* The debug assertions of InputStream hold, for every text, all selected  *)
(* ranges and all tables: chunk, window and cached character stay in step   *)
(* with the cursor through every move and every reading.                    *)
(***************************************************************************)
EXTENDS InputStream, NumberProofs

\* What a stream is over: a text, and ranges between its boundaries.
Laid ==
    /\ IsText(text)
    /\ ranges \in Seq([start : Boundaries, end : Boundaries]) /\ ranges # << >>
    /\ \A i \in DOMAIN ranges : Span(ranges[i])
    /\ Disjoint(ranges)

\* An operation that is bound to a value.
LEMMA ThenIs ==
    ASSUME NEW value, NEW result
    PROVE  (CHOOSE r \in {result : v \in {value}} : TRUE) = result
OBVIOUS

-----------------------------------------------------------------------------
(* Texts.                                                                  *)

LEMMA TextFacts ==
    ASSUME Laid
    PROVE  /\ DOMAIN text \in SUBSET Nat /\ IsFiniteSet(DOMAIN text)
           /\ \A p \in DOMAIN text :
                 /\ text[p] \in InputCharacter /\ text[p].from = p
                 /\ text[p].to \in Nat /\ p < text[p].to
                 /\ text[p].plain /\ Ascii(text[p].value) => text[p].to = p + 1
                 /\ \A q \in DOMAIN text : p < q => text[p].to <= q
                 /\ text[p].to \in DOMAIN text \/ \A q \in DOMAIN text : q <= p
           /\ DOMAIN text # {} => 0 \in DOMAIN text
           /\ Boundaries \in SUBSET Nat /\ 0 \in Boundaries
           /\ \A p \in DOMAIN text : text[p].to \in Boundaries /\ p \in Boundaries
<1>1. /\ DOMAIN text \in SUBSET Nat /\ IsFiniteSet(DOMAIN text)
      /\ DOMAIN text # {} => 0 \in DOMAIN text
      /\ \A p \in DOMAIN text :
            /\ text[p] \in InputCharacter /\ text[p].from = p /\ p < text[p].to
            /\ text[p].plain /\ Ascii(text[p].value) => text[p].to = p + 1
            /\ \A q \in DOMAIN text : p < q => text[p].to <= q
            /\ text[p].to \in DOMAIN text \/ \A q \in DOMAIN text : q <= p
    BY DEF Laid, IsText
<1>2. \A p \in DOMAIN text : text[p].to \in Nat
    BY <1>1 DEF InputCharacter
<1>3. Boundaries \in SUBSET Nat /\ 0 \in Boundaries
      /\ \A p \in DOMAIN text : text[p].to \in Boundaries
    BY <1>2 DEF Boundaries
<1>4. ASSUME NEW p \in DOMAIN text PROVE p \in Boundaries
    <2> DEFINE Gaps == {q \in DOMAIN text : q \notin Boundaries}
    <2>1. SUFFICES Gaps = {}
        OBVIOUS
    <2>2. SUFFICES ASSUME Gaps # {} PROVE FALSE
        OBVIOUS
    <2>3. PICK q \in Gaps : \A r \in Gaps : q <= r
        <3>1. Gaps \in SUBSET Nat
            BY <1>1
        <3> HIDE DEF Gaps
        <3> QED BY <2>2, <3>1, LeastNumber
    <2> DEFINE Before == {r \in DOMAIN text : r < q}
    <2>4. q \in Nat /\ q # 0 /\ 0 \in Before
        BY <1>1, <1>3, <2>3
    <2>5. PICK r \in Before : \A t \in Before : t <= r
        <3>1. Before \in SUBSET (0 .. q) /\ Before # {}
            BY <1>1, <2>4
        <3> HIDE DEF Before
        <3> QED BY <2>4, <3>1, LargestNumber
    <2>6. r \in Nat /\ q \in DOMAIN text /\ r \in DOMAIN text /\ r < q /\ text[r].to <= q
        BY <1>1, <2>3, <2>5
    <2>7. text[r].to \in DOMAIN text /\ text[r].to \in Nat /\ r < text[r].to
        BY <1>1, <1>2, <2>4, <2>6
    <2>8. text[r].to = q
        BY <2>4, <2>5, <2>6, <2>7
    <2> QED BY <1>3, <2>3, <2>6, <2>8
<1> QED BY <1>1, <1>2, <1>3, <1>4

LEMMA RangeFacts ==
    ASSUME Laid
    PROVE  /\ Len(ranges) \in Nat \ {0} /\ DOMAIN ranges = 1 .. Len(ranges)
           /\ \A i \in DOMAIN ranges :
                 /\ ranges[i].start \in Boundaries /\ ranges[i].end \in Boundaries
                 /\ ranges[i].start \in Nat /\ ranges[i].end \in Nat
                 /\ ranges[i].start <= ranges[i].end
           /\ \A i, j \in DOMAIN ranges : i < j => ranges[i].end <= ranges[j].start
<1>1. Len(ranges) \in Nat \ {0} /\ DOMAIN ranges = 1 .. Len(ranges)
      /\ \A i \in DOMAIN ranges : ranges[i] \in [start : Boundaries, end : Boundaries]
    <2> DEFINE R == [start : Boundaries, end : Boundaries]
    <2>1. ranges \in Seq(R) /\ ranges # << >>
        BY DEF Laid
    <2> HIDE DEF R
    <2>2. Len(ranges) \in Nat \ {0} /\ DOMAIN ranges = 1 .. Len(ranges)
          /\ \A i \in DOMAIN ranges : ranges[i] \in R
        BY <2>1
    <2> QED BY <2>2 DEF R
<1>2. Boundaries \in SUBSET Nat
    BY TextFacts
<1>3. \A i \in DOMAIN ranges : ranges[i].start <= ranges[i].end
    BY DEF Laid, Span
<1>4. \A i, j \in DOMAIN ranges : i < j => ranges[i].end <= ranges[j].start
    BY <1>1 DEF Laid, Disjoint
<1> QED BY <1>1, <1>2, <1>3, <1>4

\* A character starts at each boundary inside a range, and ends in the range.
LEMMA CharacterInside ==
    ASSUME Laid, NEW p \in Boundaries, NEW stop \in Boundaries, p < stop
    PROVE  p \in DOMAIN text /\ text[p].to <= stop
<1>1. p \in Nat /\ stop \in Nat /\ stop # 0
    BY TextFacts
<1>2. PICK q \in DOMAIN text : stop = text[q].to
    BY <1>1 DEF Boundaries
<1>3. p \in DOMAIN text
    <2>1. CASE p = 0
        BY <1>2, <2>1, TextFacts
    <2>2. CASE p # 0
        <3>1. PICK r \in DOMAIN text : p = text[r].to
            BY <2>2 DEF Boundaries
        <3>2. r \in Nat /\ q \in Nat /\ ~(q <= r)
            BY <1>1, <1>2, <3>1, TextFacts
        <3> QED BY <3>1, <3>2, TextFacts
    <2> QED BY <2>1, <2>2
<1>4. p \in Nat /\ q \in Nat /\ text[p].to \in Nat
    BY <1>3, TextFacts
<1>5. ~(q < p)
    BY <1>1, <1>2, <1>3, <1>4, TextFacts
<1>6. CASE q = p
    BY <1>1, <1>2, <1>3, <1>6
<1>7. CASE p < q
    <2>1. text[p].to <= q /\ q < text[q].to
        BY <1>3, <1>7, TextFacts
    <2> QED BY <1>1, <1>2, <1>3, <1>4, <2>1
<1> QED BY <1>4, <1>5, <1>6, <1>7

-----------------------------------------------------------------------------
(* Cursors: each is inside a range, or at the stop of the last.             *)

LEMMA MinIs ==
    ASSUME NEW S \in SUBSET Nat, S # {}
    PROVE  Min(S) \in S /\ \A x \in S : Min(S) <= x
BY LeastNumber DEF Min

LEMMA PairBounds ==
    ASSUME NEW a \in Nat, NEW b \in Nat
    PROVE  /\ Min({a, b}) = IF a <= b THEN a ELSE b
           /\ Max({a, b}) = IF a <= b THEN b ELSE a
<1>1. Min({a, b}) = IF a <= b THEN a ELSE b
    BY DEF Min
<1>2. Max({a, b}) = IF a <= b THEN b ELSE a
    BY DEF Max
<1> QED BY <1>1, <1>2

Cursors == [range : DOMAIN ranges, byte : Boundaries]
Stands(c) == c \in Cursors /\ (Inside(c) \/ c = EndCursor)

LEMMA StandsFacts ==
    ASSUME Laid, NEW c, Stands(c)
    PROVE  /\ c.range \in DOMAIN ranges /\ c.byte \in Boundaries /\ c.byte \in Nat
           /\ c = [range |-> c.range, byte |-> c.byte]
           /\ ranges[c.range].start <= c.byte /\ c.byte <= RangeEnd(c)
           /\ c.byte <= EndCursor.byte
<1>1. c.range \in DOMAIN ranges /\ c.byte \in Boundaries /\ c.byte \in Nat
      /\ c = [range |-> c.range, byte |-> c.byte]
    BY TextFacts DEF Stands, Cursors
<1>2. ranges[c.range].start <= c.byte /\ c.byte <= RangeEnd(c)
    BY <1>1, RangeFacts DEF Stands, Inside, RangeEnd, EndCursor, Cursor
<1>3. RangeEnd(c) <= EndCursor.byte
    BY <1>1, RangeFacts DEF RangeEnd, EndCursor, Cursor
<1>4. RangeEnd(c) \in Nat /\ EndCursor.byte \in Nat
    BY <1>1, RangeFacts DEF RangeEnd, EndCursor, Cursor
<1> QED BY <1>1, <1>2, <1>3, <1>4

LEMMA EndStands ==
    ASSUME Laid
    PROVE  Stands(EndCursor) /\ ~Inside(EndCursor)
           /\ \A i \in DOMAIN ranges : ranges[i].end <= EndCursor.byte
BY RangeFacts DEF Stands, Cursors, EndCursor, Cursor, Inside, RangeEnd

LEMMA InsideFacts ==
    ASSUME Laid, NEW c, Stands(c), Inside(c)
    PROVE  /\ c.byte \in DOMAIN text /\ text[c.byte].to \in Boundaries
           /\ c.byte < RangeEnd(c) /\ text[c.byte].to <= RangeEnd(c)
<1>1. c.byte \in Boundaries /\ RangeEnd(c) \in Boundaries /\ c.byte < RangeEnd(c)
    BY StandsFacts, RangeFacts DEF Inside, RangeEnd
<1> QED BY <1>1, CharacterInside, TextFacts

LEMMA NextRangeStands ==
    ASSUME Laid, NEW i \in DOMAIN ranges
    PROVE  \/ NextRange(i) = None
           \/ \E c : NextRange(i) = << c >> /\ Stands(c) /\ ranges[i].end <= c.byte
<1> DEFINE later == {j \in i + 1 .. Len(ranges) : ~Empty(j)}
<1>1. CASE later = {}
    BY <1>1 DEF NextRange
<1>2. CASE later # {}
    <2>1. later \in SUBSET Nat /\ later \in SUBSET DOMAIN ranges
        BY RangeFacts
    <2>2. PICK j \in later : j = Min(later)
        <3> HIDE DEF later
        <3> QED BY <1>2, <2>1, MinIs
    <2>3. NextRange(i) = << Cursor(j, ranges[j].start) >>
        BY <1>2, <2>2 DEF NextRange
    <2>4. j \in DOMAIN ranges /\ i < j /\ ranges[j].start < ranges[j].end
        BY <2>1, <2>2, RangeFacts DEF Empty
    <2>5. Stands(Cursor(j, ranges[j].start))
        BY <2>4, RangeFacts DEF Stands, Cursors, Cursor, Inside, RangeEnd
    <2>6. ranges[i].end <= Cursor(j, ranges[j].start).byte
        BY <2>4, RangeFacts DEF Cursor
    <2> QED BY <2>3, <2>5, <2>6
<1> QED BY <1>1, <1>2

LEMMA NextOrEndStands ==
    ASSUME Laid, NEW i \in DOMAIN ranges
    PROVE  \E c : NextRangeOrEnd(i) = << c >> /\ Stands(c) /\ ranges[i].end <= c.byte
BY NextRangeStands, EndStands DEF NextRangeOrEnd

\* The cursor behind a character.
LEMMA BehindStands ==
    ASSUME Laid, NEW c, Stands(c), NEW byte \in Boundaries, c.byte <= byte, byte <= RangeEnd(c)
    PROVE  \E d : Behind(c, byte) = << d >> /\ Stands(d) /\ byte <= d.byte
<1>1. CASE byte < RangeEnd(c)
    <2>1. [c EXCEPT !.byte = byte] = [range |-> c.range, byte |-> byte]
        BY StandsFacts
    <2>2. Stands([c EXCEPT !.byte = byte])
        BY <1>1, <2>1, StandsFacts, TextFacts, RangeFacts DEF Stands, Cursors, Inside, RangeEnd
    <2>3. byte \in Nat
        BY TextFacts
    <2> QED BY <1>1, <2>1, <2>2, <2>3 DEF Behind
<1>2. CASE ~(byte < RangeEnd(c))
    <2>1. byte \in Nat /\ c.range \in DOMAIN ranges /\ ranges[c.range].end = byte
        BY <1>2, TextFacts, StandsFacts, RangeFacts DEF RangeEnd
    <2> QED BY <1>2, <2>1, NextOrEndStands DEF Behind
<1> QED BY <1>1, <1>2

LEMMA CursorFromStands ==
    ASSUME Laid, NEW p \in Boundaries
    PROVE  Stands(CursorFrom(p))
<1> DEFINE open == {i \in DOMAIN ranges : ranges[i].end > p /\ ~Empty(i)}
<1>0. p \in Nat
    BY TextFacts
<1>1. CASE Len(ranges) = 1
    <2>1. 1 \in DOMAIN ranges /\ ranges[1].start \in Nat /\ ranges[1].end \in Nat
          /\ ranges[1].start <= ranges[1].end
        BY <1>1, RangeFacts
    <2> DEFINE byte == Min({ranges[1].end, Max({ranges[1].start, p})})
    <2>2. byte \in Boundaries /\ ranges[1].start <= byte /\ byte <= ranges[1].end
        <3> DEFINE low == Max({ranges[1].start, p})
        <3>1. low = IF ranges[1].start <= p THEN p ELSE ranges[1].start
            BY <1>0, <2>1, PairBounds
        <3>2. low \in Boundaries /\ low \in Nat /\ ranges[1].start <= low
            BY <1>0, <2>1, <3>1, RangeFacts
        <3> HIDE DEF low
        <3>3. Min({ranges[1].end, low}) = IF ranges[1].end <= low THEN ranges[1].end ELSE low
            BY <2>1, <3>2, PairBounds
        <3> QED BY <2>1, <3>2, <3>3, RangeFacts DEF low
    <2>3. CursorFrom(p) = Cursor(1, byte)
        BY <1>1 DEF CursorFrom
    <2> HIDE DEF byte
    <2>4. byte \in Nat
        BY <2>2, TextFacts
    <2> QED BY <1>1, <2>1, <2>2, <2>3, <2>4 DEF Stands, Cursors, Cursor, Inside, RangeEnd, EndCursor
<1>2. CASE Len(ranges) # 1 /\ open = {}
    BY <1>2, EndStands DEF CursorFrom
<1>3. CASE Len(ranges) # 1 /\ open # {}
    <2>1. open \in SUBSET Nat
        BY RangeFacts
    <2>2. PICK i \in open : i = Min(open)
        <3> HIDE DEF open
        <3> QED BY <1>3, <2>1, MinIs
    <2>3. i \in DOMAIN ranges /\ p < ranges[i].end /\ ranges[i].start < ranges[i].end
        BY <1>0, <2>2, RangeFacts DEF Empty
    <2>4. CursorFrom(p) = Cursor(i, Max({ranges[i].start, p}))
        BY <1>3, <2>2 DEF CursorFrom
    <2>5. ranges[i].start \in Nat /\ ranges[i].start \in Boundaries
        BY <2>3, RangeFacts
    <2>6. Max({ranges[i].start, p}) = IF ranges[i].start <= p THEN p ELSE ranges[i].start
        BY <1>0, <2>5, PairBounds
    <2> QED BY <1>0, <2>3, <2>4, <2>5, <2>6 DEF Stands, Cursors, Cursor, Inside, RangeEnd
<1> QED BY <1>1, <1>2, <1>3

-----------------------------------------------------------------------------
(* Streams.                                                                *)

Maybe(S) == {None} \cup {<< x >> : x \in S}
Spans == [start : Nat, end : Nat]
Assertions == {"window", "byte", "boundary", "start", "else"}

Streams ==
    [cursor : Cursors, tokenStart : Nat, accepted : Maybe([term : Nat, end : Nat]),
     chunk : Maybe(Spans), window : Maybe(Spans), windowAt : Nat,
     character : Maybe([cursor : Cursors, is : InputCharacter]),
     next : Maybe(Nat), broken : SUBSET Assertions]

\* The characters of a chunk or window are spelled as they are.
PlainSpan(span) ==
    span # None =>
        \A p \in DOMAIN text : span[1].start <= p /\ p < span[1].end => text[p].plain

\* The window lies in a selected range.
InOneRange(window) ==
    window # None =>
        \E r \in DOMAIN ranges : /\ ranges[r].start <= window[1].start
                                 /\ window[1].end <= ranges[r].end

\* A character that is kept is the one where it was found.
Remembered(character) ==
    character # None =>
        /\ Stands(character[1].cursor) /\ Inside(character[1].cursor)
        /\ character[1].is = text[character[1].cursor.byte]

\* What holds of a stream in the middle of an operation.
Intact(s) ==
    /\ s \in Streams
    /\ Stands(s.cursor) /\ s.tokenStart <= s.cursor.byte
    /\ PlainSpan(s.chunk) /\ PlainSpan(s.window) /\ InOneRange(s.window)
    /\ Remembered(s.character)
    /\ s.broken \subseteq {"else"}

\* A window that is not used up stands where the cursor stands.
InStep(s) ==
    HasWindow(s) => s.windowAt = s.cursor.byte /\ s.window[1].start <= s.cursor.byte

\* The next character is the one at the cursor.
Shown(s) ==
    s.next = IF Inside(s.cursor) THEN << text[s.cursor.byte].value >> ELSE None

\* What holds of a stream between operations.
Steady(s) == Intact(s) /\ InStep(s) /\ Shown(s)

\* Operations that change neither the place nor the token.
Keeps(s, t) ==
    /\ t.cursor = s.cursor /\ t.tokenStart = s.tokenStart /\ t.accepted = s.accepted
    /\ t.broken = s.broken

LEMMA MaybeIs ==
    ASSUME NEW S, NEW x \in Maybe(S)
    PROVE  x = None \/ (x # None /\ x = << x[1] >> /\ x[1] \in S)
BY DEF Maybe, None

LEMMA MaybeSome ==
    ASSUME NEW S, NEW x \in S
    PROVE  << x >> \in Maybe(S) /\ None \in Maybe(S) /\ << x >> # None /\ << x >>[1] = x
BY DEF Maybe, None

LEMMA LengthIs ==
    ASSUME Laid
    PROVE  Length \in Nat /\ \A b \in Boundaries : b <= Length
<1> DEFINE tos == {text[p].to : p \in DOMAIN text}
<1>1. IsFiniteSet(tos)
    <2>1. IsFiniteSet(DOMAIN text)
        BY TextFacts
    <2> DEFINE ends == [p \in DOMAIN text |-> text[p].to]
    <2>2. ends \in Surjection(DOMAIN text, tos)
        BY DEF Surjection
    <2> HIDE DEF tos, ends
    <2> QED BY <2>1, <2>2, FS_Surjection
<1>2. IsFiniteSet(Boundaries)
    <2>1. Boundaries = tos \cup {0}
        BY DEF Boundaries
    <2> HIDE DEF tos
    <2> QED BY <1>1, <2>1, FS_AddElement
<1>3. Boundaries \in SUBSET Nat /\ Boundaries # {}
    BY TextFacts
<1>4. \E b \in Boundaries : \A c \in Boundaries : c <= b
    <2> DEFINE list == InOrder(Boundaries)
    <2>1. /\ list \in Seq(Boundaries)
          /\ \A b \in Boundaries : \E k \in DOMAIN list : list[k] = b
          /\ \A k, l \in DOMAIN list : k < l => list[k] < list[l]
        <3>1. Boundaries \in SUBSET Int
            BY <1>3
        <3> QED BY <1>2, <3>1, InOrderMembers
    <2> HIDE DEF list
    <2>2. Len(list) \in Nat /\ DOMAIN list = 1 .. Len(list)
        BY <2>1
    <2>3. Len(list) # 0
        <3>1. PICK b \in Boundaries : TRUE
            BY <1>3
        <3>2. PICK k \in DOMAIN list : list[k] = b
            BY <2>1, <3>1
        <3> QED BY <2>2, <3>2
    <2>4. Len(list) \in DOMAIN list /\ list[Len(list)] \in Boundaries
        BY <2>1, <2>2, <2>3
    <2>5. ASSUME NEW c \in Boundaries PROVE c <= list[Len(list)]
        <3>1. PICK k \in DOMAIN list : list[k] = c
            BY <2>1
        <3>2. k = Len(list) \/ k < Len(list)
            BY <2>2
        <3>3. c \in Nat /\ list[Len(list)] \in Nat
            BY <1>3, <2>4
        <3> QED BY <2>1, <2>4, <3>1, <3>2, <3>3
    <2> QED BY <2>4, <2>5
<1> QED BY <1>3, <1>4 DEF Length, Max

LEMMA ChunkPlain ==
    ASSUME Laid, NEW p \in Boundaries
    PROVE  /\ IdentityChunk(p) \in Maybe(Spans) /\ PlainSpan(IdentityChunk(p))
           /\ IdentityChunk(p) # None => IdentityChunk(p)[1].start = p
<1> DEFINE translated == {q \in DOMAIN text : ~text[q].plain /\ q >= p}
           stop == IF translated = {} THEN Length ELSE Min(translated)
           chunk == [start |-> p, end |-> stop]
<1>1. p \in Nat /\ translated \in SUBSET Nat
    BY TextFacts
<1>2. stop \in Nat /\ \A q \in translated : stop <= q
    <2>1. CASE translated = {}
        BY <2>1, LengthIs
    <2>2. CASE translated # {}
        <3>1. Min(translated) \in translated /\ \A q \in translated : Min(translated) <= q
            <4> HIDE DEF translated
            <4> QED BY <1>1, <2>2, MinIs
        <3>2. stop = Min(translated)
            BY <2>2
        <3> HIDE DEF translated, stop
        <3> QED BY <1>1, <3>1, <3>2
    <2> QED BY <2>1, <2>2
<1>3. IdentityChunk(p) = None \/ IdentityChunk(p) = << chunk >>
    BY DEF IdentityChunk
<1>4. \A q \in DOMAIN text : p <= q /\ q < stop => text[q].plain
    <2> SUFFICES ASSUME NEW q \in DOMAIN text, p <= q, q < stop, ~text[q].plain PROVE FALSE
        OBVIOUS
    <2>1. q \in translated /\ q \in Nat
        BY <1>1, TextFacts
    <2> HIDE DEF translated, stop
    <2> QED BY <1>2, <2>1
<1>5. chunk \in Spans /\ chunk.start = p /\ chunk.end = stop
    <2> HIDE DEF stop
    <2> QED BY <1>1, <1>2 DEF Spans
<1> HIDE DEF chunk, stop, translated
<1>6. << chunk >> \in Maybe(Spans) /\ None \in Maybe(Spans) /\ << chunk >>[1] = chunk
    BY <1>5, MaybeSome
<1> QED BY <1>3, <1>4, <1>5, <1>6 DEF PlainSpan


-----------------------------------------------------------------------------
(* Chunk, window and cached character.                                     *)

LEMMA IntactFacts ==
    ASSUME Laid, NEW s, Intact(s)
    PROVE  /\ s.cursor \in Cursors /\ s.tokenStart \in Nat
           /\ s.accepted \in Maybe([term : Nat, end : Nat])
           /\ s.chunk \in Maybe(Spans) /\ s.window \in Maybe(Spans) /\ s.windowAt \in Nat
           /\ s.character \in Maybe([cursor : Cursors, is : InputCharacter])
           /\ s.next \in Maybe(Nat) /\ s.broken \in SUBSET Assertions
           /\ Stands(s.cursor) /\ s.tokenStart <= s.cursor.byte
           /\ PlainSpan(s.chunk) /\ PlainSpan(s.window) /\ InOneRange(s.window)
           /\ Remembered(s.character)
           /\ s.broken \subseteq {"else"}
           /\ s.cursor.byte \in Boundaries /\ s.cursor.byte \in Nat
BY StandsFacts DEF Intact, Streams

\* A chunk and a window that fit are taken.
LEMMA InstalledIntact ==
    ASSUME Laid, NEW s, Intact(s), NEW chunk \in Maybe(Spans), NEW window \in Maybe(Spans),
           PlainSpan(chunk), PlainSpan(window), InOneRange(window)
    PROVE  /\ Intact(Installed(s, chunk, window)) /\ Keeps(s, Installed(s, chunk, window))
           /\ Installed(s, chunk, window).next = s.next
           /\ Installed(s, chunk, window).character = s.character
           /\ Installed(s, chunk, window).chunk = chunk
           /\ Installed(s, chunk, window).window = window
           /\ window # None => Installed(s, chunk, window).windowAt = s.cursor.byte
<1> DEFINE t == Installed(s, chunk, window)
<1>1. s \in Streams /\ s.cursor.byte \in Nat
    BY IntactFacts DEF Intact
<1>2. /\ t \in Streams /\ Keeps(s, t) /\ t.next = s.next /\ t.character = s.character
      /\ t.chunk = chunk /\ t.window = window
      /\ window # None => t.windowAt = s.cursor.byte
    BY <1>1 DEF Streams, Installed, Keeps
<1> HIDE DEF t
<1>3. Intact(t)
    BY <1>2, IntactFacts DEF Intact, Keeps
<1> QED BY <1>2, <1>3 DEF t

\* The part of a plain chunk from the cursor to the end of its range.
LEMMA WindowFits ==
    ASSUME Laid, NEW c, Stands(c), NEW chunk \in Maybe(Spans), PlainSpan(chunk),
           chunk # None => chunk[1].start = c.byte
    PROVE  LET window == Window(chunk, c.byte, RangeEnd(c))
           IN  /\ window \in Maybe(Spans) /\ PlainSpan(window) /\ InOneRange(window)
               /\ window # None => Covers(window, c.byte)
<1> DEFINE stop == Min({chunk[1].end, RangeEnd(c)})
           span == [start |-> c.byte, end |-> stop]
<1>1. /\ c.byte \in Nat /\ RangeEnd(c) \in Nat /\ c.range \in DOMAIN ranges
      /\ ranges[c.range].start <= c.byte
    BY StandsFacts, RangeFacts DEF RangeEnd
<1>2. CASE chunk = None
    BY <1>2 DEF Window, Maybe, PlainSpan, InOneRange
<1>3. CASE chunk # None
    <2>1. chunk[1] \in Spans /\ chunk[1].end \in Nat /\ chunk[1].start = c.byte
        <3>1. chunk[1] \in Spans
            BY <1>3, MaybeIs
        <3> QED BY <1>3, <3>1 DEF Spans
    <2>2. stop = IF chunk[1].end <= RangeEnd(c) THEN chunk[1].end ELSE RangeEnd(c)
        BY <1>1, <2>1, PairBounds
    <2>3. Max({chunk[1].start, c.byte}) = c.byte
        BY <1>1, <2>1, PairBounds
    <2>4. stop \in Nat /\ stop <= chunk[1].end /\ stop <= RangeEnd(c)
        BY <1>1, <2>1, <2>2
    <2>5. Window(chunk, c.byte, RangeEnd(c)) = IF c.byte >= stop THEN None ELSE << span >>
        BY <1>3, <2>3 DEF Window
    <2> HIDE DEF stop
    <2>6. CASE c.byte >= stop
        BY <2>5, <2>6 DEF Maybe, PlainSpan, InOneRange
    <2>7. CASE ~(c.byte >= stop)
        <3>1. span \in Spans /\ span.start = c.byte /\ span.end = stop
            BY <1>1, <2>4 DEF Spans
        <3>2. << span >> \in Maybe(Spans) /\ << span >> # None /\ << span >>[1] = span
            BY <3>1, MaybeSome
        <3> HIDE DEF span
        <3>3. PlainSpan(<< span >>)
            <4> SUFFICES ASSUME NEW p \in DOMAIN text, c.byte <= p, p < stop
                         PROVE  text[p].plain
                BY <3>1, <3>2 DEF PlainSpan
            <4>1. p \in Nat /\ p < chunk[1].end
                BY <2>1, <2>4, TextFacts
            <4> QED BY <1>3, <2>1, <4>1 DEF PlainSpan
        <3>4. InOneRange(<< span >>)
            BY <1>1, <2>4, <3>1, <3>2 DEF InOneRange, RangeEnd
        <3>5. Covers(<< span >>, c.byte)
            BY <1>1, <2>4, <2>7, <3>1, <3>2 DEF Covers
        <3> QED BY <2>5, <2>7, <3>2, <3>3, <3>4, <3>5
    <2> QED BY <2>6, <2>7
<1> QED BY <1>2, <1>3

LEMMA LoadedIntact ==
    ASSUME Laid, NEW s, Intact(s)
    PROVE  /\ Intact(Loaded(s)) /\ InStep(Loaded(s)) /\ Keeps(s, Loaded(s))
           /\ Loaded(s).next = s.next /\ Loaded(s).character = s.character
           /\ Loaded(s).window # None =>
                /\ Covers(Loaded(s).window, s.cursor.byte)
                /\ Loaded(s).windowAt = s.cursor.byte
<1> DEFINE chunk == IdentityChunk(s.cursor.byte)
           part == Window(chunk, s.cursor.byte, RangeEnd(s.cursor))
           window == Covering(part, s.cursor.byte)
<1>1. /\ Stands(s.cursor) /\ s.cursor.byte \in Boundaries
      /\ chunk \in Maybe(Spans) /\ PlainSpan(chunk)
      /\ chunk # None => chunk[1].start = s.cursor.byte
    BY IntactFacts, ChunkPlain
<1>2. Loaded(s) = Installed(s, chunk, window)
    BY DEF Loaded, LoadedFrom
<1> HIDE DEF chunk
<1>3. /\ part \in Maybe(Spans) /\ PlainSpan(part) /\ InOneRange(part)
      /\ part # None => Covers(part, s.cursor.byte)
    BY <1>1, WindowFits
<1> HIDE DEF part
<1>4. window = part
    BY <1>3 DEF Covering
<1>5. /\ Intact(Loaded(s)) /\ Keeps(s, Loaded(s))
      /\ Loaded(s).next = s.next /\ Loaded(s).character = s.character
      /\ Loaded(s).window = part
      /\ part # None => Loaded(s).windowAt = s.cursor.byte
    BY <1>1, <1>2, <1>3, <1>4, InstalledIntact
<1>6. InStep(Loaded(s))
    BY <1>3, <1>5 DEF InStep, HasWindow, Covers, Keeps
<1> QED BY <1>3, <1>5, <1>6


\* The character at a cursor.
LEMMA CharacterAtIs ==
    ASSUME Laid, NEW c, Stands(c)
    PROVE  /\ CharacterAt(c) = IF Inside(c) THEN << text[c.byte] >> ELSE None
           /\ \A span : \/ InRange(ChunkCharacter(span, c.byte), c) = None
                        \/ InRange(ChunkCharacter(span, c.byte), c) = CharacterAt(c)
           /\ Inside(c) => /\ text[c.byte] \in InputCharacter /\ text[c.byte].value \in Nat
                           /\ text[c.byte].to \in Boundaries /\ text[c.byte].to \in Nat
                           /\ c.byte < text[c.byte].to /\ text[c.byte].to <= RangeEnd(c)
<1>1. ASSUME Inside(c)
      PROVE  /\ c.byte \in DOMAIN text /\ text[c.byte].to \in Boundaries
             /\ text[c.byte].to <= RangeEnd(c)
             /\ text[c.byte] \in InputCharacter /\ text[c.byte].value \in Nat
             /\ c.byte < text[c.byte].to /\ text[c.byte].to \in Nat
    BY <1>1, InsideFacts, TextFacts DEF InputCharacter
<1>2. CharacterAt(c) = IF Inside(c) THEN << text[c.byte] >> ELSE None
    BY <1>1 DEF CharacterAt, InRange, CharacterFrom, None
<1>3. ASSUME NEW span
      PROVE  \/ InRange(ChunkCharacter(span, c.byte), c) = None
             \/ InRange(ChunkCharacter(span, c.byte), c) = CharacterAt(c)
    BY DEF CharacterAt, InRange, ChunkCharacter
<1> QED BY <1>1, <1>2, <1>3

\* An ASCII byte of a window belongs to the character there.
LEMMA AsciiByteIs ==
    ASSUME Laid, NEW span, NEW p
    PROVE  \/ AsciiByte(span, p) = None
           \/ /\ Covers(span, p) /\ p \in DOMAIN text /\ Ascii(text[p].value)
              /\ AsciiByte(span, p) = << text[p].value >>
              /\ text[p].value \in Nat
<1>1. \A q \in DOMAIN text : text[q].value \in Nat
    BY TextFacts DEF InputCharacter
<1> QED BY <1>1 DEF AsciiByte, CharacterFrom, None

\* A window covers a cursor inside a range only.
LEMMA CoveredInside ==
    ASSUME Laid, NEW c, Stands(c), NEW window \in Maybe(Spans), InOneRange(window),
           Covers(window, c.byte)
    PROVE  Inside(c)
<1>1. window # None /\ window[1].start <= c.byte /\ c.byte < window[1].end
    BY DEF Covers
<1>2. window[1] \in Spans
    BY <1>1, MaybeIs
<1>3. PICK r \in DOMAIN ranges :
        ranges[r].start <= window[1].start /\ window[1].end <= ranges[r].end
    BY <1>1 DEF InOneRange
<1>4. window[1].end \in Nat /\ ranges[r].end \in Nat /\ c.byte \in Nat /\ EndCursor.byte \in Nat
    BY <1>2, <1>3, RangeFacts, StandsFacts, EndStands DEF Spans
<1>5. ranges[r].end <= EndCursor.byte
    BY EndStands
<1> QED BY <1>1, <1>3, <1>4, <1>5 DEF Stands

LEMMA CachingIntact ==
    ASSUME Laid, NEW s, Intact(s), Inside(s.cursor)
    PROVE  LET t == Caching(s, << text[s.cursor.byte] >>)
           IN  /\ Intact(t) /\ Keeps(s, t) /\ t.next = s.next
               /\ Character(t) = << text[s.cursor.byte] >>
               /\ t.window = s.window /\ t.windowAt = s.windowAt
<1> DEFINE kept == [cursor |-> s.cursor, is |-> text[s.cursor.byte]]
           t == Caching(s, << text[s.cursor.byte] >>)
<1>1. /\ s \in Streams /\ s.cursor \in Cursors /\ text[s.cursor.byte] \in InputCharacter
      /\ Stands(s.cursor)
    BY IntactFacts, CharacterAtIs DEF Intact
<1>2. t = [s EXCEPT !.character = << kept >>]
    BY DEF Caching, None
<1>3. kept \in [cursor : Cursors, is : InputCharacter] /\ kept.cursor = s.cursor
      /\ kept.is = text[s.cursor.byte]
    BY <1>1
<1> HIDE DEF kept
<1>4. << kept >> \in Maybe([cursor : Cursors, is : InputCharacter]) /\ << kept >> # None
      /\ << kept >>[1] = kept
    BY <1>3, MaybeSome
<1>5. /\ t \in Streams /\ Keeps(s, t) /\ t.next = s.next /\ t.character = << kept >>
      /\ t.chunk = s.chunk /\ t.window = s.window /\ t.windowAt = s.windowAt
    BY <1>1, <1>2, <1>4 DEF Streams, Keeps
<1> HIDE DEF t
<1>6. Remembered(t.character)
    BY <1>1, <1>3, <1>4, <1>5 DEF Remembered
<1>7. Intact(t)
    BY <1>5, <1>6, IntactFacts DEF Intact, Keeps
<1>8. Character(t) = << text[s.cursor.byte] >>
    BY <1>3, <1>4, <1>5 DEF Character, Keeps
<1> QED BY <1>5, <1>7, <1>8 DEF t

LEMMA WithCharacterIs ==
    ASSUME Laid, NEW s, Intact(s), NEW load \in BOOLEAN
    PROVE  LET t == WithCharacter(s, load)
           IN  /\ Intact(t) /\ Keeps(s, t) /\ t.next = s.next /\ (InStep(s) => InStep(t))
               /\ Character(t) = IF Inside(s.cursor) THEN << text[s.cursor.byte] >> ELSE None
<1> DEFINE c == s.cursor
           first == IF load /\ OwnChunkCharacter(s) = None THEN Loaded(s) ELSE s
<1>1. Stands(c) /\ Remembered(s.character)
      /\ s.character \in Maybe([cursor : Cursors, is : InputCharacter])
    BY IntactFacts
<1>2. CASE Character(s) # None \/ ~Inside(c)
    <2>1. Character(s) # None => Inside(c) /\ Character(s) = << text[c.byte] >>
        BY <1>1 DEF Character, Remembered
    <2>2. WithCharacter(s, load) = s
        BY <1>2 DEF WithCharacter
    <2> QED BY <1>2, <2>1, <2>2 DEF Keeps
<1>3. CASE ~(Character(s) # None \/ ~Inside(c))
    <2>1. (CHOOSE r \in {Fetched(v) : v \in {first}} : TRUE) = Fetched(first)
        <3> HIDE DEF first
        <3> QED OBVIOUS
    <2>2. WithCharacter(s, load) = Fetched(first)
        BY <1>3, <2>1 DEF WithCharacter, Then
    <2>3. /\ Intact(first) /\ Keeps(s, first) /\ first.next = s.next
          /\ (InStep(s) => InStep(first)) /\ first.cursor = c
        BY LoadedIntact DEF Keeps
    <2> HIDE DEF first
    <2>4. OrElse(OwnChunkCharacter(first), CharacterAt(first.cursor)) = << text[c.byte] >>
        BY <1>1, <1>3, <2>3, CharacterAtIs DEF OrElse, OwnChunkCharacter
    <2>5. Fetched(first) = Caching(first, << text[c.byte] >>)
        BY <2>4 DEF Fetched
    <2> DEFINE t == Caching(first, << text[c.byte] >>)
    <2>6. /\ Intact(t) /\ Keeps(first, t) /\ t.next = first.next
          /\ Character(t) = << text[c.byte] >>
          /\ t.window = first.window /\ t.windowAt = first.windowAt
        BY <1>3, <2>3, CachingIntact
    <2> HIDE DEF t
    <2>7. InStep(s) => InStep(t)
        BY <2>3, <2>6 DEF InStep, HasWindow, Keeps
    <2> QED BY <1>3, <2>2, <2>3, <2>5, <2>6, <2>7 DEF Keeps, t
<1> QED BY <1>2, <1>3


LEMMA ShowingIntact ==
    ASSUME Laid, NEW s, Intact(s), NEW next \in Maybe(Nat)
    PROVE  /\ Intact(Showing(s, next)) /\ Keeps(s, Showing(s, next))
           /\ Showing(s, next).next = next
           /\ Showing(s, next).window = s.window /\ Showing(s, next).windowAt = s.windowAt
<1> DEFINE t == Showing(s, next)
<1>1. s \in Streams
    BY DEF Intact
<1>2. /\ t \in Streams /\ Keeps(s, t) /\ t.next = next /\ t.character = s.character
      /\ t.chunk = s.chunk /\ t.window = s.window /\ t.windowAt = s.windowAt
    BY <1>1 DEF Streams, Showing, Keeps
<1> HIDE DEF t
<1>3. Intact(t)
    BY <1>2, IntactFacts DEF Intact, Keeps
<1> QED BY <1>2, <1>3 DEF t

LEMMA SyncedIntact ==
    ASSUME Laid, NEW s, Intact(s)
    PROVE  /\ Intact(Synced(s)) /\ InStep(Synced(s)) /\ Keeps(s, Synced(s))
           /\ Synced(s).window # None => /\ Covers(Synced(s).window, s.cursor.byte)
                                         /\ Synced(s).windowAt = s.cursor.byte
<1>1. CASE Covers(s.window, s.cursor.byte)
    <2> DEFINE t == [s EXCEPT !.windowAt = s.cursor.byte]
    <2>1. s \in Streams /\ s.cursor.byte \in Nat
        BY IntactFacts DEF Intact
    <2>2. /\ t \in Streams /\ Keeps(s, t) /\ t.next = s.next /\ t.character = s.character
          /\ t.chunk = s.chunk /\ t.window = s.window /\ t.windowAt = s.cursor.byte
        BY <2>1 DEF Streams, Keeps
    <2>3. Synced(s) = t
        BY <1>1 DEF Synced
    <2> HIDE DEF t
    <2>4. Intact(t)
        BY <2>2, IntactFacts DEF Intact, Keeps
    <2>5. InStep(t)
        BY <1>1, <2>2 DEF InStep, HasWindow, Covers, Keeps
    <2> QED BY <1>1, <2>2, <2>3, <2>4, <2>5
<1>2. CASE ~Covers(s.window, s.cursor.byte)
    BY <1>2, LoadedIntact DEF Synced
<1> QED BY <1>1, <1>2

\* refresh_next puts a stream in order.
LEMMA RefreshNextSteady ==
    ASSUME Laid, NEW s, Intact(s)
    PROVE  Steady(RefreshNext(s)) /\ Keeps(s, RefreshNext(s))
<1> DEFINE t == Synced(s)
           c == s.cursor
           byte == OrElse(AsciiByte(t.window, t.windowAt), ChunkAscii(t))
<1>1. /\ Intact(t) /\ InStep(t) /\ Keeps(s, t) /\ t.cursor = c
      /\ t.window # None => Covers(t.window, c.byte) /\ t.windowAt = c.byte
    BY SyncedIntact DEF Keeps
<1>2. RefreshNext(s) = ShowingByte(t, byte)
    <2> HIDE DEF t
    <2>1. (CHOOSE r \in {Refreshed(v) : v \in {t}} : TRUE) = Refreshed(t)
        OBVIOUS
    <2> QED BY <2>1 DEF RefreshNext, Then, Refreshed, t
<1> HIDE DEF t
<1>3. Stands(c) /\ t.window \in Maybe(Spans) /\ InOneRange(t.window)
    BY <1>1, IntactFacts
<1>4. byte = None \/ (Inside(c) /\ byte = << text[c.byte].value >> /\ byte \in Maybe(Nat))
    <2>1. \/ AsciiByte(t.window, t.windowAt) = None
          \/ /\ Inside(c) /\ AsciiByte(t.window, t.windowAt) = << text[c.byte].value >>
             /\ text[c.byte].value \in Nat
        <3>1. CASE t.window = None
            BY <3>1 DEF AsciiByte, Covers
        <3>2. CASE t.window # None
            <4>1. Inside(c) /\ t.windowAt = c.byte
                BY <1>1, <1>3, <3>2, CoveredInside
            <4> QED BY <4>1, AsciiByteIs
        <3> QED BY <3>1, <3>2
    <2>2. \/ ChunkAscii(t) = None
          \/ /\ Inside(c) /\ ChunkAscii(t) = << text[c.byte].value >>
             /\ text[c.byte].value \in Nat
        BY <1>1, AsciiByteIs DEF ChunkAscii
    <2> QED BY <2>1, <2>2, MaybeSome DEF OrElse
<1> HIDE DEF byte
<1>5. CASE byte # None
    <2>1. RefreshNext(s) = Showing(t, byte)
        BY <1>2, <1>5 DEF ShowingByte
    <2>2. byte \in Maybe(Nat)
        BY <1>4, <1>5
    <2> DEFINE u == Showing(t, byte)
    <2>3. /\ Intact(u) /\ Keeps(t, u) /\ u.next = byte
          /\ u.window = t.window /\ u.windowAt = t.windowAt
        BY <1>1, <2>2, ShowingIntact
    <2> HIDE DEF u
    <2>4. InStep(u) /\ Shown(u) /\ Keeps(s, u)
        BY <1>1, <1>4, <1>5, <2>3 DEF InStep, HasWindow, Shown, Keeps
    <2> QED BY <2>1, <2>3, <2>4 DEF Steady, u
<1>6. CASE byte = None
    <2> DEFINE v == WithCharacter(t, FALSE)
               next == IF Inside(c) THEN << text[c.byte].value >> ELSE None
    <2>1. /\ Intact(v) /\ Keeps(t, v) /\ InStep(v)
          /\ Character(v) = IF Inside(c) THEN << text[c.byte] >> ELSE None
        BY <1>1, WithCharacterIs
    <2>2. RefreshNext(s) = ShowingCharacter(v)
        BY <1>2, <1>6 DEF ShowingByte
    <2> HIDE DEF v
    <2>3. ShowingCharacter(v) = Showing(v, next)
        BY <2>1 DEF ShowingCharacter, None
    <2>4. next \in Maybe(Nat)
        BY <1>3, CharacterAtIs, MaybeSome
    <2> DEFINE u == Showing(v, next)
    <2>5. /\ Intact(u) /\ Keeps(v, u) /\ u.next = next
          /\ u.window = v.window /\ u.windowAt = v.windowAt
        BY <2>1, <2>4, ShowingIntact
    <2> HIDE DEF u
    <2>6. InStep(u) /\ Shown(u) /\ Keeps(s, u)
        BY <1>1, <2>1, <2>5 DEF InStep, HasWindow, Shown, Keeps
    <2> QED BY <2>2, <2>3, <2>5, <2>6 DEF Steady, u
<1> QED BY <1>5, <1>6


-----------------------------------------------------------------------------
(* Moving by characters.                                                   *)

\* Behind an ASCII byte of a plain chunk or window.
LEMMA ByteBehind ==
    ASSUME Laid, NEW span, PlainSpan(span), NEW p, AsciiByte(span, p) # None
    PROVE  p \in Nat /\ p \in DOMAIN text /\ text[p].to = p + 1 /\ p + 1 \in Boundaries
<1>1. Covers(span, p) /\ p \in DOMAIN text /\ Ascii(text[p].value)
    BY AsciiByteIs
<1>2. text[p].plain
    BY <1>1 DEF PlainSpan, Covers
<1> QED BY <1>1, <1>2, TextFacts

LEMMA OnwardIs ==
    ASSUME Laid, NEW s, Intact(s)
    PROVE  LET on == Onward(s)
           IN  /\ Intact(on.stream) /\ Keeps(s, on.stream)
               /\ \/ on.cursor = None /\ ~Inside(s.cursor) /\ on.stream = s
                  \/ \E d : on.cursor = << d >> /\ Stands(d) /\ s.cursor.byte <= d.byte
<1> DEFINE c == s.cursor
<1>1. Stands(c) /\ c.range \in DOMAIN ranges /\ c.byte \in Nat /\ RangeEnd(c) \in Nat
    BY IntactFacts, StandsFacts, RangeFacts DEF RangeEnd
<1>2. CASE ~Inside(c)
    <2>1. c.byte <= RangeEnd(c) /\ RangeEnd(c) \in Nat /\ c.range = Len(ranges)
          /\ RangeEnd(c) = c.byte
        BY <1>1, <1>2 DEF Stands, EndCursor, Cursor, RangeEnd
    <2>2. Onward(s) = [stream |-> s, cursor |-> NextRange(c.range)]
        BY <1>2 DEF Onward
    <2>3. NextRange(c.range) = None
        <3>1. {j \in c.range + 1 .. Len(ranges) : ~Empty(j)} = {}
            BY <2>1, RangeFacts
        <3> QED BY <3>1 DEF NextRange
    <2> QED BY <1>2, <2>2, <2>3 DEF Keeps
<1>3. CASE Inside(c) /\ ChunkAscii(s) # None
    <2>1. AsciiByte(s.chunk, c.byte) # None
        BY <1>3 DEF ChunkAscii
    <2>2. text[c.byte].to = c.byte + 1 /\ c.byte + 1 \in Boundaries
        BY <2>1, ByteBehind, IntactFacts
    <2>3. text[c.byte].to <= RangeEnd(c)
        BY <1>1, <1>3, CharacterAtIs
    <2>4. Onward(s) = [stream |-> s, cursor |-> Behind(c, c.byte + 1)]
        BY <1>3 DEF Onward
    <2>5. PICK d : Behind(c, c.byte + 1) = << d >> /\ Stands(d) /\ c.byte + 1 <= d.byte
        <3>1. c.byte <= c.byte + 1 /\ c.byte + 1 <= RangeEnd(c)
            BY <1>1, <2>2, <2>3
        <3> QED BY <1>1, <2>2, <3>1, BehindStands
    <2>6. c.byte <= d.byte
        BY <1>1, <2>5, StandsFacts
    <2> QED BY <2>4, <2>5, <2>6 DEF Keeps
<1>4. CASE Inside(c) /\ ChunkAscii(s) = None
    <2> DEFINE t == WithCharacter(s, TRUE)
    <2>1. /\ Intact(t) /\ Keeps(s, t) /\ t.cursor = c
          /\ Character(t) = << text[c.byte] >>
        BY <1>4, WithCharacterIs DEF Keeps
    <2>2. Onward(s) = BehindCharacter(t)
        BY <1>4 DEF Onward
    <2> HIDE DEF t
    <2>3. BehindCharacter(t) = [stream |-> t, cursor |-> Behind(c, text[c.byte].to)]
        BY <2>1 DEF BehindCharacter, None
    <2>4. /\ text[c.byte].to \in Boundaries /\ text[c.byte].to \in Nat
          /\ c.byte <= text[c.byte].to /\ text[c.byte].to <= RangeEnd(c)
        BY <1>1, <1>4, CharacterAtIs
    <2>5. PICK d : Behind(c, text[c.byte].to) = << d >> /\ Stands(d) /\ text[c.byte].to <= d.byte
        BY <1>1, <2>4, BehindStands
    <2>6. c.byte <= d.byte
        BY <1>1, <2>4, <2>5, StandsFacts
    <2> QED BY <2>1, <2>2, <2>3, <2>5, <2>6
<1> QED BY <1>2, <1>3, <1>4

\* The stream at another cursor that does not lie before it.
LEMMA PlacedIntact ==
    ASSUME Laid, NEW s, Intact(s), NEW d, Stands(d), s.cursor.byte <= d.byte
    PROVE  LET t == [s EXCEPT !.cursor = d]
           IN  /\ Intact(t) /\ t.cursor = d /\ t.tokenStart = s.tokenStart
               /\ t.accepted = s.accepted /\ t.broken = s.broken /\ t.next = s.next
               /\ t.window = s.window /\ t.windowAt = s.windowAt
<1> DEFINE t == [s EXCEPT !.cursor = d]
<1>1. s \in Streams /\ d \in Cursors
    BY DEF Intact, Stands
<1>2. /\ t \in Streams /\ t.cursor = d /\ t.tokenStart = s.tokenStart
      /\ t.accepted = s.accepted /\ t.broken = s.broken /\ t.next = s.next
      /\ t.window = s.window /\ t.windowAt = s.windowAt /\ t.character = s.character
      /\ t.chunk = s.chunk
    BY <1>1 DEF Streams
<1> HIDE DEF t
<1>3. s.tokenStart \in Nat /\ s.cursor.byte \in Nat /\ d.byte \in Nat
      /\ s.tokenStart <= s.cursor.byte
    BY IntactFacts, StandsFacts
<1>4. t.tokenStart <= t.cursor.byte
    BY <1>2, <1>3
<1>5. Intact(t)
    BY <1>2, <1>4, IntactFacts DEF Intact
<1> QED BY <1>2, <1>5 DEF t

LEMMA MovedIntact ==
    ASSUME Laid, NEW s, Intact(s)
    PROVE  LET at == Moved(Onward(s))
           IN  /\ Intact(at.stream) /\ at.over \in BOOLEAN
               /\ at.over => /\ ~Inside(s.cursor)
                             /\ at.stream = [s EXCEPT !.cursor = EndCursor, !.next = None]
<1> DEFINE on == Onward(s)
<1>1. /\ Intact(on.stream) /\ Keeps(s, on.stream)
      /\ \/ on.cursor = None /\ ~Inside(s.cursor) /\ on.stream = s
         \/ \E d : on.cursor = << d >> /\ Stands(d) /\ s.cursor.byte <= d.byte
    BY OnwardIs
<1> HIDE DEF on
<1>2. CASE on.cursor = None /\ ~Inside(s.cursor) /\ on.stream = s
    <2>1. Moved(on) = [stream |-> [s EXCEPT !.cursor = EndCursor, !.next = None], over |-> TRUE]
        BY <1>2 DEF Moved
    <2> DEFINE t == [s EXCEPT !.cursor = EndCursor]
               u == Showing(t, None)
    <2>2. Stands(EndCursor) /\ s.cursor.byte <= EndCursor.byte
        BY EndStands, IntactFacts, StandsFacts
    <2>3. Intact(t)
        BY <2>2, PlacedIntact
    <2>4. s \in Streams
        BY DEF Intact
    <2>5. u = [s EXCEPT !.cursor = EndCursor, !.next = None]
        BY <2>4 DEF Showing, Streams
    <2> HIDE DEF t
    <2>6. Intact(u)
        BY <2>3, ShowingIntact DEF Maybe
    <2> QED BY <1>2, <2>1, <2>5, <2>6 DEF on
<1>3. CASE \E d : on.cursor = << d >> /\ Stands(d) /\ s.cursor.byte <= d.byte
    <2>1. PICK d : on.cursor = << d >> /\ Stands(d) /\ s.cursor.byte <= d.byte
        BY <1>3
    <2>2. Moved(on) = [stream |-> [on.stream EXCEPT !.cursor = d], over |-> FALSE]
        BY <2>1 DEF Moved, None
    <2>3. Intact([on.stream EXCEPT !.cursor = d])
        BY <1>1, <2>1, PlacedIntact DEF Keeps
    <2> QED BY <2>2, <2>3 DEF on
<1> QED BY <1>1, <1>2, <1>3


-----------------------------------------------------------------------------
(* Rounds.                                                                 *)

\* What holds at the start and through each round holds in the end.
LEMMA RoundsStay ==
    ASSUME NEW S, NEW n \in Nat, NEW f, f[0] \in S,
           \A k \in 1 .. n : f[k - 1] \in S => f[k] \in S
    PROVE  \A k \in 0 .. n : f[k] \in S
<1> DEFINE Bad == {k \in 0 .. n : f[k] \notin S}
<1> SUFFICES ASSUME Bad # {} PROVE FALSE
    OBVIOUS
<1>1. Bad \in SUBSET Nat /\ \A k \in Bad : k \in 0 .. n /\ f[k] \notin S
    OBVIOUS
<1>2. \A k \in 0 .. n : f[k] \notin S => k \in Bad
    OBVIOUS
<1> HIDE DEF Bad
<1>3. PICK k \in Bad : \A j \in Bad : k <= j
    BY <1>1, LeastNumber
<1>4. k \in 1 .. n /\ k - 1 \in 0 .. n /\ ~(k <= k - 1)
    BY <1>1
<1>5. f[k - 1] \in S
    BY <1>2, <1>3, <1>4
<1> QED BY <1>1, <1>4, <1>5

Repeats(f, start, round, n, S) ==
    /\ f = [k \in 0 .. n |-> f[k]] /\ f[0] = start
    /\ \A k \in 1 .. n : f[k - 1] \in S /\ f[k] = round[f[k - 1]]

\* A round that stays in a set can be repeated.
LEMMA RoundsExist ==
    ASSUME NEW S, NEW start \in S, NEW n \in Nat, NEW round, \A x \in S : round[x] \in S
    PROVE  \E f : Repeats(f, start, round, n, S)
<1> DEFINE T == [k \in 0 .. n |-> S]
           step == [k \in 1 .. n |-> round]
<1>1. /\ start \in T[0] /\ \A k \in 0 .. n : T[k] = S
      /\ \A k \in 1 .. n : step[k] = round
      /\ \A k \in 1 .. n : k \in 0 .. n /\ k - 1 \in 0 .. n
    OBVIOUS
<1> HIDE DEF T, step
<1>2. Steps(step, n, T)
    BY <1>1 DEF Steps
<1>3. PICK f : Walk(f, start, step, n, T)
    BY <1>1, <1>2, StepByStep
<1>4. /\ f = [k \in 0 .. n |-> f[k]] /\ f[0] = start
      /\ \A k \in 0 .. n : f[k] \in T[k]
      /\ \A k \in 1 .. n : f[k] = step[k][f[k - 1]]
    BY <1>3 DEF Walk
<1>5. ASSUME NEW k \in 1 .. n PROVE f[k - 1] \in S /\ f[k] = round[f[k - 1]]
    <2>1. k - 1 \in 0 .. n /\ step[k] = round /\ T[k - 1] = S
        BY <1>1
    <2> QED BY <1>4, <2>1
<1> QED BY <1>4, <1>5 DEF Repeats

MovedStates == {at \in [stream : Streams, over : BOOLEAN] : Intact(at.stream)}

LEMMA MoveRoundStays ==
    ASSUME Laid, NEW at \in MovedStates
    PROVE  MoveRound(at) \in MovedStates
           /\ MoveRound(at) = IF at.over THEN at ELSE Moved(Onward(at.stream))
<1>1. (CHOOSE r \in {Moved(v) : v \in {Onward(at.stream)}} : TRUE) = Moved(Onward(at.stream))
    OBVIOUS
<1>2. MoveRound(at) = IF at.over THEN at ELSE Moved(Onward(at.stream))
    BY <1>1 DEF MoveRound, Then
<1> DEFINE next == Moved(Onward(at.stream))
<1>3. Intact(at.stream)
    BY DEF MovedStates
<1>4. Intact(next.stream) /\ next.over \in BOOLEAN
    BY <1>3, MovedIntact
<1>5. next = [stream |-> next.stream, over |-> next.over]
    BY DEF Moved
<1> HIDE DEF next
<1>6. next.stream \in Streams
    BY <1>4 DEF Intact
<1>7. next \in MovedStates
    BY <1>4, <1>5, <1>6 DEF MovedStates
<1> QED BY <1>2, <1>7 DEF next

\* The rounds of advance_general.
LEMMA MovedByIs ==
    ASSUME Laid, NEW s, Intact(s), NEW n \in Nat
    PROVE  \E f : /\ f[0] = [stream |-> s, over |-> FALSE] /\ MovedBy(s, n) = f[n]
                  /\ \A k \in 1 .. n : f[k] = MoveRound(f[k - 1])
                  /\ \A k \in 0 .. n : f[k] \in MovedStates
<1> DEFINE start == [stream |-> s, over |-> FALSE]
           Chosen(f) == f = [k \in 0 .. n |-> IF k = 0 THEN start ELSE
                                CHOOSE r \in {MoveRound(v) : v \in {f[k - 1]}} : TRUE]
<1>1. start \in MovedStates
    BY DEF Intact, MovedStates
<1>2. ASSUME NEW x PROVE (CHOOSE r \in {MoveRound(v) : v \in {x}} : TRUE) = MoveRound(x)
    OBVIOUS
<1>3. MovedBy(s, n) = (CHOOSE f : Chosen(f))[n]
    BY DEF MovedBy, After, Then
<1>4. \E f : Chosen(f)
    <2> DEFINE round == [x \in MovedStates |-> MoveRound(x)]
    <2>1. \A x \in MovedStates : round[x] \in MovedStates /\ round[x] = MoveRound(x)
        BY MoveRoundStays
    <2> HIDE DEF round, start
    <2>a. \A x \in MovedStates : round[x] \in MovedStates
        BY <2>1
    <2>b. PICK f : Repeats(f, start, round, n, MovedStates)
        BY <1>1, <2>a, RoundsExist
    <2>2. /\ f = [k \in 0 .. n |-> f[k]] /\ f[0] = start
          /\ \A k \in 1 .. n : f[k - 1] \in MovedStates /\ f[k] = round[f[k - 1]]
        BY <2>b DEF Repeats
    <2>3. \A k \in 0 .. n : k = 0 \/ k \in 1 .. n
        OBVIOUS
    <2>4. \A k \in 0 .. n :
            f[k] = IF k = 0 THEN start ELSE
                      CHOOSE r \in {MoveRound(v) : v \in {f[k - 1]}} : TRUE
        BY <1>2, <2>1, <2>2, <2>3
    <2> QED BY <2>2, <2>4, Zenon
<1>5. PICK f : f = (CHOOSE g : Chosen(g)) /\ Chosen(f)
    <2> HIDE DEF Chosen
    <2> QED BY <1>4
<1>6. /\ f[0] = start /\ \A k \in 1 .. n : f[k] = MoveRound(f[k - 1])
    <2>1. \A k \in 0 .. n : f[k] = IF k = 0 THEN start ELSE
                                CHOOSE r \in {MoveRound(v) : v \in {f[k - 1]}} : TRUE
        BY <1>5
    <2> HIDE DEF start
    <2>2. 0 \in 0 .. n /\ \A k \in 1 .. n : k \in 0 .. n /\ k # 0
        OBVIOUS
    <2> QED BY <1>2, <2>1, <2>2
<1>7. \A k \in 0 .. n : f[k] \in MovedStates
    <2> HIDE DEF start, Chosen
    <2>1. \A k \in 1 .. n : f[k - 1] \in MovedStates => f[k] \in MovedStates
        BY <1>6, MoveRoundStays
    <2> QED BY <1>1, <1>6, <2>1, RoundsStay
<1> QED BY <1>3, <1>5, <1>6, <1>7

\* advance_general, one character or as many as there are.
LEMMA AdvanceGeneralSteady ==
    ASSUME Laid, NEW s, Steady(s), NEW n \in Nat, n = 1 \/ ~MovedBy(s, n).over
    PROVE  Steady(AdvanceGeneral(s, n))
<1> DEFINE at == MovedBy(s, n)
<1>1. Intact(s)
    BY DEF Steady
<1>2. PICK f : /\ f[0] = [stream |-> s, over |-> FALSE] /\ at = f[n]
               /\ \A k \in 1 .. n : f[k] = MoveRound(f[k - 1])
               /\ \A k \in 0 .. n : f[k] \in MovedStates
    BY <1>1, MovedByIs
<1>3. at \in MovedStates
    BY <1>2
<1>4. (CHOOSE r \in {Settled(v) : v \in {at}} : TRUE) = Settled(at)
    OBVIOUS
<1>5. AdvanceGeneral(s, n) = Settled(at)
    BY <1>4 DEF AdvanceGeneral, Then
<1>6. CASE ~at.over
    <2> HIDE DEF at
    <2>1. Settled(at) = RefreshNext(at.stream) /\ Intact(at.stream)
        BY <1>3, <1>6 DEF Settled, MovedStates
    <2> QED BY <1>5, <2>1, RefreshNextSteady
<1>7. CASE at.over
    <2>1. n = 1
        BY <1>7
    <2>2. at = MoveRound(f[0]) /\ f[0] \in MovedStates /\ ~f[0].over /\ f[0].stream = s
        <3>1. 1 \in 1 .. n /\ 0 \in 0 .. n /\ 1 - 1 = 0
            BY <2>1
        <3> QED BY <1>2, <2>1, <3>1
    <2>3. at = Moved(Onward(s))
        BY <2>2, MoveRoundStays
    <2>4. /\ ~Inside(s.cursor) /\ Intact(at.stream)
          /\ at.stream = [s EXCEPT !.cursor = EndCursor, !.next = None]
        BY <1>1, <1>7, <2>3, MovedIntact
    <2>5. s.cursor = EndCursor /\ s.next = None /\ s \in Streams
        BY <2>4 DEF Steady, Intact, Stands, Shown
    <2>6. at.stream = s
        BY <2>4, <2>5 DEF Streams
    <2>7. Settled(at) = at.stream
        BY <1>7 DEF Settled
    <2> QED BY <1>5, <2>6, <2>7
<1> QED BY <1>6, <1>7


-----------------------------------------------------------------------------
(* Moving by bytes of a window.                                            *)

\* A stretch of ASCII of a window from the cursor on.
Stretch(s, n) ==
    /\ s.windowAt = s.cursor.byte
    /\ \A p \in s.cursor.byte .. s.cursor.byte + n - 1 : AsciiByte(s.window, p) # None

\* The range of the cursor holds the whole window that covers it.
LEMMA WindowInRange ==
    ASSUME Laid, NEW c, Stands(c), NEW window \in Maybe(Spans), InOneRange(window),
           Covers(window, c.byte)
    PROVE  /\ window # None /\ window[1].end \in Nat /\ c.byte < window[1].end
           /\ window[1].end <= RangeEnd(c)
<1>1. Inside(c)
    BY CoveredInside
<1>2. window # None /\ window[1].start <= c.byte /\ c.byte < window[1].end
    BY DEF Covers
<1>3. window[1] \in Spans
    BY <1>2, MaybeIs
<1>4. PICK r \in DOMAIN ranges :
        ranges[r].start <= window[1].start /\ window[1].end <= ranges[r].end
    BY <1>2 DEF InOneRange
<1>5. /\ window[1].end \in Nat /\ window[1].start \in Nat /\ c.byte \in Nat
      /\ c.range \in DOMAIN ranges /\ ranges[c.range].start <= c.byte
      /\ c.byte < ranges[c.range].end
    BY <1>1, <1>3, StandsFacts, RangeFacts DEF Spans, Inside, RangeEnd
<1>6. /\ r \in Nat /\ c.range \in Nat
      /\ ranges[r].start \in Nat /\ ranges[r].end \in Nat
      /\ ranges[c.range].start \in Nat /\ ranges[c.range].end \in Nat
    BY <1>4, <1>5, RangeFacts
<1>7. ~(r < c.range)
    <2>1. r < c.range => ranges[r].end <= ranges[c.range].start
        BY <1>4, <1>5, RangeFacts
    <2> QED BY <1>2, <1>4, <1>5, <1>6, <2>1
<1>8. ~(c.range < r)
    <2>1. c.range < r => ranges[c.range].end <= ranges[r].start
        BY <1>4, <1>5, RangeFacts
    <2> QED BY <1>2, <1>4, <1>5, <1>6, <2>1
<1>9. r = c.range
    BY <1>6, <1>7, <1>8
<1> QED BY <1>2, <1>4, <1>5, <1>9 DEF RangeEnd

\* Each byte of such a stretch is a character.
LEMMA StretchBoundaries ==
    ASSUME Laid, NEW s, Intact(s), NEW n \in Nat, Stretch(s, n)
    PROVE  s.cursor.byte + n \in Boundaries
<1> DEFINE b == s.cursor.byte
           f == [k \in 0 .. n |-> b + k]
<1>1. b \in Boundaries /\ b \in Nat /\ PlainSpan(s.window)
    BY IntactFacts
<1>2. f[0] \in Boundaries
    BY <1>1
<1>3. ASSUME NEW k \in 1 .. n, f[k - 1] \in Boundaries PROVE f[k] \in Boundaries
    <2>1. b + (k - 1) \in b .. b + n - 1
        BY <1>1
    <2>2. AsciiByte(s.window, b + (k - 1)) # None
        BY <2>1 DEF Stretch
    <2>3. b + (k - 1) + 1 \in Boundaries
        BY <1>1, <2>2, ByteBehind
    <2>4. b + (k - 1) + 1 = b + k /\ f[k] = b + k
        BY <1>1
    <2> QED BY <2>3, <2>4
<1> HIDE DEF f
<1>4. \A k \in 0 .. n : f[k] \in Boundaries
    BY <1>2, <1>3, RoundsStay
<1>5. n \in 0 .. n
    OBVIOUS
<1> QED BY <1>4, <1>5 DEF f

\* The stream behind a stretch, where a range may end.
LEMMA BehindStretch ==
    ASSUME Laid, NEW s, Intact(s), NEW n \in Nat \ {0}, Stretch(s, n)
    PROVE  LET t == [s EXCEPT !.cursor.byte = @ + n, !.windowAt = @ + n, !.character = None]
               d == [range |-> s.cursor.range, byte |-> s.cursor.byte + n]
           IN  /\ t \in Streams /\ t.cursor = d /\ t.windowAt = d.byte
               /\ t.tokenStart = s.tokenStart /\ t.accepted = s.accepted
               /\ t.broken = s.broken /\ t.chunk = s.chunk /\ t.window = s.window
               /\ t.character = None
               /\ d.byte \in Boundaries /\ d.byte \in Nat /\ s.cursor.byte <= d.byte
               /\ ranges[s.cursor.range].start <= d.byte
               /\ s.window # None /\ s.window[1].start <= d.byte
               /\ d.byte <= s.window[1].end /\ s.window[1].end <= RangeEnd(d)
               /\ RangeEnd(d) = RangeEnd(s.cursor)
<1> DEFINE c == s.cursor
           d == [range |-> c.range, byte |-> c.byte + n]
           t == [s EXCEPT !.cursor.byte = @ + n, !.windowAt = @ + n, !.character = None]
<1>1. /\ s \in Streams /\ Stands(c) /\ c.byte \in Nat /\ c.range \in DOMAIN ranges
      /\ ranges[c.range].start <= c.byte /\ c = [range |-> c.range, byte |-> c.byte]
      /\ s.window \in Maybe(Spans) /\ InOneRange(s.window) /\ s.windowAt = c.byte
    BY IntactFacts, StandsFacts DEF Intact, Stretch
<1>2. c.byte + n \in Boundaries /\ c.byte + n \in Nat
    BY <1>1, StretchBoundaries
<1>3. AsciiByte(s.window, c.byte) # None /\ AsciiByte(s.window, c.byte + n - 1) # None
    <2>1. /\ c.byte \in c.byte .. c.byte + n - 1
          /\ c.byte + n - 1 \in c.byte .. c.byte + n - 1
        BY <1>1
    <2> QED BY <2>1 DEF Stretch
<1>4. Covers(s.window, c.byte) /\ Covers(s.window, c.byte + n - 1)
    BY <1>3, AsciiByteIs
<1>5. /\ s.window # None /\ s.window[1].end \in Nat /\ s.window[1].end <= RangeEnd(c)
    BY <1>1, <1>4, WindowInRange
<1>6. s.window[1] \in Spans
    BY <1>1, <1>5, MaybeIs
<1>7. /\ s.window[1].start \in Nat /\ s.window[1].start <= c.byte
      /\ c.byte + n - 1 < s.window[1].end
    BY <1>4, <1>6 DEF Covers, Spans
<1>8. d \in Cursors /\ RangeEnd(d) = RangeEnd(c)
    BY <1>1, <1>2 DEF Cursors, RangeEnd
<1>9. [c EXCEPT !.byte = c.byte + n] = d
    BY <1>1
<1>10. /\ t \in Streams /\ t.cursor = d /\ t.windowAt = c.byte + n
       /\ t.tokenStart = s.tokenStart /\ t.accepted = s.accepted
       /\ t.broken = s.broken /\ t.chunk = s.chunk /\ t.window = s.window
       /\ t.character = None
    <2>1. t = [s EXCEPT !.cursor = d, !.windowAt = c.byte + n, !.character = None]
        BY <1>1, <1>9 DEF Streams
    <2> HIDE DEF t, d
    <2> QED BY <1>1, <1>2, <1>8, <2>1 DEF Streams, Maybe
<1>11. ranges[c.range].start \in Nat
    BY <1>1, RangeFacts
<1> HIDE DEF t
<1> QED BY <1>1, <1>2, <1>5, <1>7, <1>8, <1>10, <1>11 DEF t


LEMMA InWindowSteady ==
    ASSUME Laid, NEW s, Intact(s), NEW n \in Nat \ {0}, Stretch(s, n)
    PROVE  Steady(InWindow(s, n))
<1> DEFINE t == [s EXCEPT !.cursor.byte = @ + n, !.windowAt = @ + n, !.character = None]
           d == [range |-> s.cursor.range, byte |-> s.cursor.byte + n]
<1>1. /\ t \in Streams /\ t.cursor = d /\ t.windowAt = d.byte
      /\ t.tokenStart = s.tokenStart /\ t.accepted = s.accepted
      /\ t.broken = s.broken /\ t.chunk = s.chunk /\ t.window = s.window
      /\ t.character = None
      /\ d.byte \in Boundaries /\ d.byte \in Nat /\ s.cursor.byte <= d.byte
      /\ ranges[s.cursor.range].start <= d.byte
      /\ s.window # None /\ s.window[1].start <= d.byte
      /\ d.byte <= s.window[1].end /\ s.window[1].end <= RangeEnd(d)
      /\ RangeEnd(d) = RangeEnd(s.cursor)
    BY BehindStretch
<1>2. /\ d \in Cursors /\ s.tokenStart \in Nat /\ s.cursor.byte \in Nat
      /\ s.tokenStart <= s.cursor.byte /\ d.range \in DOMAIN ranges
      /\ ranges[d.range].start <= d.byte /\ RangeEnd(d) \in Nat
    BY <1>1, IntactFacts, StandsFacts, RangeFacts DEF Cursors, RangeEnd
<1>3. s.window[1].end \in Nat
    <2>1. s.window \in Maybe(Spans)
        BY IntactFacts
    <2>2. s.window[1] \in Spans
        BY <1>1, <2>1, MaybeIs
    <2> QED BY <2>2 DEF Spans
<1>4. InWindow(s, n) = MovedInWindow(t)
    BY DEF InWindow
<1> HIDE DEF t
<1>5. ASSUME NEW u, u \in Streams, Stands(u.cursor), d.byte <= u.cursor.byte,
             u.tokenStart = t.tokenStart, u.broken = t.broken, u.chunk = t.chunk,
             u.window = t.window, u.character = None
      PROVE  Intact(u)
    <2>1. u.cursor.byte \in Nat
        BY <1>5, StandsFacts
    <2>2. u.tokenStart <= u.cursor.byte
        BY <1>1, <1>2, <1>5, <2>1
    <2> QED BY <1>1, <1>5, <2>2, IntactFacts DEF Intact, Remembered
<1>6. d.byte < RangeEnd(d) => Inside(d) /\ Intact(t)
    <2> SUFFICES ASSUME d.byte < RangeEnd(d) PROVE Inside(d) /\ Intact(t)
        OBVIOUS
    <2>1. Inside(d)
        BY <1>2 DEF Inside
    <2>2. Stands(t.cursor) /\ d.byte <= t.cursor.byte
        BY <1>1, <1>2, <2>1 DEF Stands
    <2> QED BY <1>1, <1>5, <2>1, <2>2
<1> DEFINE next == AsciiByte(t.window, t.windowAt)
<1>7. CASE next # None
    <2>1. /\ Covers(t.window, d.byte) /\ next = << text[d.byte].value >>
          /\ text[d.byte].value \in Nat
        BY <1>1, <1>7, AsciiByteIs
    <2>2. d.byte < RangeEnd(d)
        BY <1>1, <1>2, <1>3, <2>1 DEF Covers
    <2>3. Inside(d) /\ Intact(t) /\ next \in Maybe(Nat)
        BY <1>6, <2>1, <2>2, MaybeSome
    <2>4. MovedInWindow(t) = Showing(t, next)
        BY <1>7 DEF MovedInWindow
    <2> DEFINE u == Showing(t, next)
    <2> HIDE DEF next
    <2>5. /\ Intact(u) /\ Keeps(t, u) /\ u.next = next
          /\ u.window = t.window /\ u.windowAt = t.windowAt
        BY <2>3, ShowingIntact
    <2> HIDE DEF u
    <2>6. u.cursor = d
        BY <1>1, <2>5 DEF Keeps
    <2>7. InStep(u) /\ Shown(u)
        BY <1>1, <2>1, <2>3, <2>5, <2>6 DEF InStep, Shown
    <2> QED BY <1>4, <2>4, <2>5, <2>7 DEF Steady, u
<1>8. CASE next = None
    <2> DEFINE u == IF t.cursor.byte = t.window[1].end THEN PastRangeEnd(t) ELSE t
    <2>1. MovedInWindow(t) = RefreshNext(u)
        BY <1>8 DEF MovedInWindow
    <2>2. CASE d.byte < RangeEnd(d)
        <3>1. u = t
            BY <1>1, <2>2 DEF PastRangeEnd
        <3> QED BY <1>4, <1>6, <2>1, <2>2, <3>1, RefreshNextSteady
    <2>3. CASE ~(d.byte < RangeEnd(d))
        <3>1. d.byte = s.window[1].end /\ d.byte = RangeEnd(d)
            BY <1>1, <1>2, <1>3, <2>3
        <3>2. PICK e : NextRangeOrEnd(d.range) = << e >> /\ Stands(e) /\ RangeEnd(d) <= e.byte
            BY <1>2, NextOrEndStands DEF RangeEnd
        <3> DEFINE v == [t EXCEPT !.cursor = e]
        <3>3. u = v
            <4>1. u = PastRangeEnd(t)
                BY <1>1, <3>1
            <4> HIDE DEF u
            <4> QED BY <1>1, <2>3, <3>2, <4>1 DEF PastRangeEnd
        <3>4. e \in Cursors /\ d.byte <= e.byte
            BY <3>1, <3>2 DEF Stands
        <3>5. /\ v \in Streams /\ v.cursor = e /\ v.tokenStart = t.tokenStart
              /\ v.broken = t.broken /\ v.chunk = t.chunk /\ v.window = t.window
              /\ v.character = None
            BY <1>1, <3>4 DEF Streams
        <3> HIDE DEF v
        <3>6. Intact(v)
            BY <1>5, <3>2, <3>4, <3>5
        <3> QED BY <1>4, <2>1, <3>3, <3>6, RefreshNextSteady
    <2> QED BY <2>2, <2>3
<1> QED BY <1>7, <1>8

\* advance_known_ascii: the window has the byte that was shown.
LEMMA AdvanceKnownSteady ==
    ASSUME Laid, NEW s, Steady(s), s.next # None, Ascii(s.next[1])
    PROVE  Steady(AdvanceKnown(s))
<1> DEFINE b == s.cursor.byte
<1>1. /\ Intact(s) /\ Inside(s.cursor) /\ s.next = << text[b].value >> /\ Ascii(text[b].value)
      /\ b \in DOMAIN text
    BY CharacterAtIs, InsideFacts, IntactFacts DEF Steady, Shown
<1>2. CASE ~HasWindow(s)
    <2>1. AdvanceKnown(s) = AdvanceGeneral(s, 1)
        BY <1>2 DEF AdvanceKnown
    <2> QED BY <2>1, AdvanceGeneralSteady
<1>3. CASE HasWindow(s)
    <2>1. s.windowAt = b /\ Covers(s.window, b)
        BY <1>3 DEF Steady, InStep, HasWindow, Covers
    <2>2. AsciiByte(s.window, b) = s.next
        BY <1>1, <2>1 DEF AsciiByte, CharacterFrom, None
    <2>3. Expected(s) = s
        BY <2>1, <2>2 DEF Expected, Asserting
    <2>4. AdvanceKnown(s) = InWindow(s, 1)
        BY <1>3, <2>3 DEF AdvanceKnown
    <2>5. Stretch(s, 1)
        <3>1. b \in Nat
            BY <1>1, IntactFacts
        <3>2. \A p \in b .. b + 1 - 1 : p = b
            BY <3>1
        <3> QED BY <2>1, <2>2, <3>2 DEF Stretch
    <2> QED BY <1>1, <2>4, <2>5, InWindowSteady
<1> QED BY <1>2, <1>3

LEMMA AdvanceBySteady ==
    ASSUME Laid, NEW s, Steady(s), NEW n \in Nat, n = 1 \/ ~MovedBy(s, n).over
    PROVE  Steady(AdvanceBy(s, n))
BY AdvanceKnownSteady, AdvanceGeneralSteady DEF AdvanceBy


\* The ASCII run of a window that stands at the cursor.
LEMMA RunLengthIs ==
    ASSUME Laid, NEW s, Intact(s), Covers(s.window, s.cursor.byte), s.windowAt = s.cursor.byte,
           NEW set
    PROVE  RunLength(s, set) \in Nat /\ Stretch(s, RunLength(s, set))
<1> DEFINE b == s.cursor.byte
           stops == {p \in b .. s.window[1].end :
                       AsciiByte(s.window, p) = None \/ AsciiByte(s.window, p)[1] \notin set}
<1>1. /\ b \in Nat /\ s.window # None /\ s.window[1].end \in Nat /\ b < s.window[1].end
    BY IntactFacts, WindowInRange
<1>2. AsciiByte(s.window, s.window[1].end) = None
    BY <1>1 DEF AsciiByte, Covers
<1>3. stops \in SUBSET Nat /\ s.window[1].end \in stops
    BY <1>1, <1>2
<1>4. PICK m \in stops : m = Min(stops) /\ \A p \in stops : m <= p
    <2> HIDE DEF stops
    <2> QED BY <1>3, MinIs
<1>5. RunLength(s, set) = m - b
    BY <1>4 DEF RunLength
<1>6. m \in Nat /\ b <= m /\ m <= s.window[1].end
    BY <1>1, <1>4
<1>7. ASSUME NEW p \in b .. b + (m - b) - 1 PROVE AsciiByte(s.window, p) # None
    <2>1. p \in b .. s.window[1].end /\ ~(m <= p)
        BY <1>1, <1>6
    <2>2. p \notin stops
        <3> HIDE DEF stops
        <3> QED BY <1>4, <2>1
    <2> QED BY <2>1, <2>2
<1>8. m - b \in Nat
    BY <1>1, <1>6
<1> QED BY <1>5, <1>7, <1>8 DEF Stretch

\* Another chunk and window show the same character.
LEMMA LoadedSteady ==
    ASSUME Laid, NEW s, Steady(s)
    PROVE  Steady(Loaded(s)) /\ Loaded(s).next = s.next /\ Loaded(s).cursor = s.cursor
<1>1. Intact(s)
    BY DEF Steady
<1>2. /\ Intact(Loaded(s)) /\ InStep(Loaded(s)) /\ Keeps(s, Loaded(s)) /\ Loaded(s).next = s.next
    BY <1>1, LoadedIntact
<1> QED BY <1>2 DEF Steady, Shown, Keeps

\* advance_ascii_while: the window it takes is in step.
LEMMA AsciiWhileSteady ==
    ASSUME Laid, NEW s, Steady(s), NEW set
    PROVE  LET run == AsciiWhile(s, set)
           IN  /\ Steady(run.stream) /\ run.count \in Nat
               /\ run.count = 0 => run.stream.next = s.next
<1> DEFINE u == IF HasWindow(s) THEN s ELSE Loaded(s)
<1>1. Intact(s) /\ InStep(s)
    BY DEF Steady
<1>2. CASE ~HasWindow(s) /\ ~Inside(s.cursor)
    BY <1>2 DEF AsciiWhile, NoRun
<1>3. CASE HasWindow(s) \/ Inside(s.cursor)
    <2>1. AsciiWhile(s, set) = RunThrough(u, set)
        BY <1>1, <1>3 DEF AsciiWhile, Asserting, InStep
    <2>2. /\ Steady(u) /\ u.next = s.next /\ u.cursor = s.cursor
          /\ u.window # None => Covers(u.window, u.cursor.byte) /\ u.windowAt = u.cursor.byte
        <3>1. CASE HasWindow(s)
            BY <1>1, <3>1 DEF InStep, HasWindow, Covers
        <3>2. CASE ~HasWindow(s)
            BY <1>1, <3>2, LoadedSteady, LoadedIntact
        <3> QED BY <3>1, <3>2
    <2> HIDE DEF u
    <2>3. CASE u.window = None
        BY <2>1, <2>2, <2>3 DEF RunThrough, NoRun
    <2>4. CASE u.window # None
        <3> DEFINE n == RunLength(u, set)
        <3>1. n \in Nat /\ Stretch(u, n) /\ Intact(u)
            BY <2>2, <2>4, RunLengthIs DEF Steady
        <3>2. RunThrough(u, set) = RunOf(u, n)
            BY <2>4 DEF RunThrough
        <3> HIDE DEF n
        <3>3. CASE n = 0
            BY <2>1, <2>2, <3>2, <3>3 DEF RunOf
        <3>4. CASE n # 0
            <4>1. n \in Nat \ {0}
                BY <3>1, <3>4
            <4> QED BY <2>1, <3>1, <3>2, <3>4, <4>1, InWindowSteady DEF RunOf
        <3> QED BY <3>3, <3>4
    <2> QED BY <2>3, <2>4
<1> QED BY <1>2, <1>3

-----------------------------------------------------------------------------
(* Tokens.                                                                 *)

\* A stream with another token.
LEMMA TokenSteady ==
    ASSUME Laid, NEW s, Steady(s), NEW accepted \in Maybe([term : Nat, end : Nat]),
           NEW from \in Nat, from <= s.cursor.byte
    PROVE  LET t == [s EXCEPT !.accepted = accepted, !.tokenStart = from]
           IN  Steady(t) /\ t.next = s.next
<1> DEFINE t == [s EXCEPT !.accepted = accepted, !.tokenStart = from]
<1>1. Intact(s) /\ InStep(s) /\ Shown(s) /\ s \in Streams
    BY DEF Steady, Intact
<1>2. /\ t \in Streams /\ t.cursor = s.cursor /\ t.tokenStart = from
      /\ t.chunk = s.chunk /\ t.window = s.window /\ t.windowAt = s.windowAt
      /\ t.character = s.character /\ t.next = s.next /\ t.broken = s.broken
    BY <1>1 DEF Streams
<1> HIDE DEF t
<1>3. Intact(t)
    BY <1>1, <1>2, IntactFacts DEF Intact
<1>4. InStep(t) /\ Shown(t)
    BY <1>1, <1>2 DEF InStep, HasWindow, Shown
<1> QED BY <1>2, <1>3, <1>4 DEF Steady, t

\* reset, to a boundary.
LEMMA ResetSteady ==
    ASSUME Laid, NEW s, Steady(s), NEW p \in Boundaries
    PROVE  Steady(ResetTo(s, p))
<1> DEFINE cursor == CursorFrom(p)
           fresh == [s EXCEPT !.accepted = None, !.tokenStart = cursor.byte]
<1>1. Stands(cursor) /\ cursor.byte \in Nat /\ p \in Nat
    BY CursorFromStands, StandsFacts, TextFacts
<1>6. None \in Maybe([term : Nat, end : Nat])
    BY DEF Maybe
<1>2. Asserting(s, "boundary", p \in Boundaries) = s
    BY DEF Asserting
<1>3. CASE s.cursor.byte = p
    <2>1. ResetTo(s, p) = [s EXCEPT !.accepted = None, !.tokenStart = p]
        BY <1>3 DEF ResetTo
    <2>2. p <= s.cursor.byte /\ p \in Nat
        BY <1>1, <1>3
    <2> HIDE DEF cursor
    <2>3. Steady([s EXCEPT !.accepted = None, !.tokenStart = p])
        BY <1>6, <2>2, TokenSteady
    <2> QED BY <2>1, <2>3
<1>4. CASE s.cursor.byte # p /\ s.cursor = cursor
    <2>1. ResetTo(s, p) = fresh
        BY <1>2, <1>4 DEF ResetTo
    <2>2. cursor.byte <= s.cursor.byte
        BY <1>1, <1>4
    <2>3. cursor.byte \in Nat
        BY <1>1
    <2> HIDE DEF cursor
    <2>4. Steady([s EXCEPT !.accepted = None, !.tokenStart = cursor.byte])
        BY <1>6, <2>2, <2>3, TokenSteady
    <2> QED BY <2>1, <2>4
<1>5. CASE s.cursor.byte # p /\ s.cursor # cursor
    <2> DEFINE t == [fresh EXCEPT !.cursor = cursor]
    <2>1. ResetTo(s, p) = RefreshNext(t)
        BY <1>2, <1>5 DEF ResetTo
    <2> HIDE DEF cursor
    <2>2. s \in Streams /\ cursor \in Cursors
        BY <1>1 DEF Steady, Intact, Stands
    <2>3. /\ t \in Streams /\ t.cursor = cursor /\ t.tokenStart = cursor.byte
          /\ t.chunk = s.chunk /\ t.window = s.window /\ t.character = s.character
          /\ t.broken = s.broken
        BY <1>1, <1>6, <2>2 DEF Streams
    <2> HIDE DEF t
    <2>4. t.tokenStart <= t.cursor.byte
        BY <1>1, <2>3
    <2>5. Intact(t)
        BY <1>1, <2>3, <2>4, IntactFacts DEF Steady, Intact
    <2> QED BY <2>1, <2>5, RefreshNextSteady
<1> QED BY <1>3, <1>4, <1>5

\* next_position is a boundary where no ASCII of a selected range is translated.
LEMMA NextPositionIs ==
    ASSUME Laid, NEW s, Steady(s), ~Escaped, NextPosition(s) # None
    PROVE  NextPosition(s)[1] \in Boundaries
<1> DEFINE c == s.cursor
<1>1. Stands(c) /\ c.byte \in Nat /\ c.range \in DOMAIN ranges /\ RangeEnd(c) \in Nat
    BY IntactFacts, StandsFacts, RangeFacts DEF Steady, RangeEnd
<1>2. CASE s.next # None /\ Ascii(s.next[1])
    <2>1. Inside(c) /\ Ascii(text[c.byte].value)
        BY <1>2 DEF Steady, Shown
    <2>2. /\ c.byte \in DOMAIN text /\ text[c.byte].to <= RangeEnd(c)
          /\ ranges[c.range].start <= c.byte
        BY <1>1, <2>1, InsideFacts DEF Inside
    <2>3. text[c.byte].plain
        BY <1>1, <2>1, <2>2 DEF Escaped, RangeEnd
    <2>4. c.byte + 1 \in Boundaries /\ c.byte + 1 <= RangeEnd(c) /\ c.byte <= c.byte + 1
        BY <1>1, <2>1, <2>2, <2>3, TextFacts
    <2>5. PICK d : Behind(c, c.byte + 1) = << d >> /\ Stands(d)
        BY <1>1, <2>4, BehindStands
    <2>6. NextPosition(s) = << d.byte >>
        BY <1>2, <2>5 DEF NextPosition, None
    <2> QED BY <2>5, <2>6, StandsFacts
<1>3. CASE ~(s.next # None /\ Ascii(s.next[1]))
    <2>1. AdvanceCursor(c) # None /\ NextPosition(s) = << AdvanceCursor(c)[1].byte >>
        BY <1>3 DEF NextPosition
    <2>2. \E d : AdvanceCursor(c) = << d >> /\ Stands(d)
        <3>1. CASE ~Inside(c)
            BY <1>1, <2>1, <3>1, NextRangeStands DEF AdvanceCursor
        <3>2. CASE Inside(c)
            <4>1. AdvanceCursor(c) = Behind(c, text[c.byte].to)
                <5>1. CharacterAt(c) = << text[c.byte] >>
                    BY <1>1, <3>2, CharacterAtIs
                <5> QED BY <3>2, <5>1 DEF AdvanceCursor, None
            <4>2. /\ text[c.byte].to \in Boundaries /\ c.byte <= text[c.byte].to
                  /\ text[c.byte].to <= RangeEnd(c)
                BY <1>1, <3>2, CharacterAtIs
            <4> QED BY <1>1, <4>1, <4>2, BehindStands
        <3> QED BY <3>1, <3>2
    <2>3. PICK d : AdvanceCursor(c) = << d >> /\ Stands(d)
        BY <2>2
    <2> QED BY <2>1, <2>3, StandsFacts
<1> QED BY <1>2, <1>3


-----------------------------------------------------------------------------
(* The generated tokenizers.                                               *)

\* accept_current: no token ends before it starts.
LEMMA AcceptForSteady ==
    ASSUME Laid, NEW s, Steady(s), NEW g, IsTable(g.table), NEW q \in DOMAIN g.table.eof
    PROVE  Steady(AcceptFor(s, g, q)) /\ AcceptFor(s, g, q).next = s.next
<1> DEFINE table == g.table
           current == IF s.accepted = None THEN None ELSE << s.accepted[1].term >>
           candidates == Candidates(table, q, g.group, current, g.precedence, g.disabled)
           term == Accepted(table, q, g.group, current, g.precedence, g.disabled)
<1>1. AcceptFor(s, g, q) = IF term = None THEN s ELSE Accept(s, term[1])
    BY DEF AcceptFor
<1>2. term = None \/ (term # None /\ term[1] \in Nat)
    <2>1. CASE candidates = {}
        BY <2>1 DEF Accepted
    <2>2. CASE candidates # {}
        <3> DEFINE Entry == [term : Nat, groups : SUBSET Nat]
        <3>1. table.accepts[q] \in Seq(Entry)
            BY DEF IsTable
        <3>2. candidates \in SUBSET DOMAIN table.accepts[q]
            BY DEF Candidates
        <3>3. term = << table.accepts[q][Min(candidates)].term >>
            BY <2>2 DEF Accepted
        <3> HIDE DEF candidates, Entry
        <3>4. candidates \in SUBSET Nat /\ \A i \in candidates : table.accepts[q][i] \in Entry
            BY <3>1, <3>2
        <3>5. table.accepts[q][Min(candidates)] \in Entry
            BY <2>2, <3>4, MinIs
        <3>6. table.accepts[q][Min(candidates)].term \in Nat
            BY <3>5 DEF Entry
        <3> HIDE DEF term
        <3> QED BY <3>3, <3>6 DEF None
    <2> QED BY <2>1, <2>2
<1> HIDE DEF term
<1>3. CASE term = None
    BY <1>1, <1>3
<1>4. CASE term # None
    <2> DEFINE token == [term |-> term[1], end |-> s.cursor.byte]
    <2>1. /\ s \in Streams /\ s.cursor.byte \in Nat /\ s.tokenStart \in Nat
          /\ s.tokenStart <= s.cursor.byte
        BY IntactFacts DEF Steady, Intact
    <2>2. token \in [term : Nat, end : Nat]
        BY <1>2, <1>4, <2>1
    <2>3. Asserting(s, "start", s.cursor.byte >= s.tokenStart) = s
        BY <2>1 DEF Asserting
    <2>4. AcceptFor(s, g, q) = [s EXCEPT !.accepted = << token >>]
        BY <1>1, <1>4, <2>3 DEF Accept
    <2> HIDE DEF token
    <2>5. << token >> \in Maybe([term : Nat, end : Nat])
        BY <2>2, MaybeSome
    <2> DEFINE t == [s EXCEPT !.accepted = << token >>, !.tokenStart = s.tokenStart]
    <2>6. Steady(t) /\ t.next = s.next
        BY <2>1, <2>5, TokenSteady
    <2>7. t = [s EXCEPT !.accepted = << token >>]
        BY <2>1 DEF Streams
    <2> HIDE DEF t
    <2> QED BY <2>4, <2>6, <2>7
<1> QED BY <1>3, <1>4

ReadStates(g) ==
    {at \in [stream : Streams, state : Maybe(DOMAIN g.table.eof)] : Steady(at.stream)}

LEMMA AtReads ==
    ASSUME NEW g, NEW s, Steady(s), NEW q \in Maybe(DOMAIN g.table.eof)
    PROVE  At(s, q) \in ReadStates(g)
BY DEF At, ReadStates, Steady, Intact

LEMMA ReadEdgeStays ==
    ASSUME Laid, NEW g, IsTable(g.table), NEW s, Steady(s), s.next # None,
           NEW q \in DOMAIN g.table.eof, NEW target \in DOMAIN g.table.eof
    PROVE  ReadEdge(s, g, q, target) \in ReadStates(g)
<1>1. /\ << target >> \in Maybe(DOMAIN g.table.eof) /\ << q >> \in Maybe(DOMAIN g.table.eof)
      /\ None \in Maybe(DOMAIN g.table.eof)
    BY MaybeSome
<1>2. CASE ~Ascii(s.next[1])
    BY <1>1, <1>2, AdvanceBySteady, AtReads DEF ReadEdge
<1>3. CASE Ascii(s.next[1]) /\ target # q
    BY <1>1, <1>3, AdvanceKnownSteady, AtReads DEF ReadEdge
<1>4. CASE Ascii(s.next[1]) /\ target = q
    <2> DEFINE run == AsciiWhile(s, SelfLoop(g.table, q))
    <2>1. /\ Steady(run.stream) /\ run.count \in Nat
          /\ run.count = 0 => run.stream.next = s.next
        BY AsciiWhileSteady
    <2>2. ReadEdge(s, g, q, target) = ReadRun(run, q)
        BY <1>4 DEF ReadEdge
    <2> HIDE DEF run
    <2>3. Steady(IF run.count # 0 THEN run.stream ELSE AdvanceKnown(run.stream))
        BY <1>4, <2>1, AdvanceKnownSteady
    <2> QED BY <1>1, <2>2, <2>3, AtReads DEF ReadRun
<1> QED BY <1>2, <1>3, <1>4

LEMMA ReadRoundStays ==
    ASSUME Laid, NEW g, IsTable(g.table), NEW at \in ReadStates(g)
    PROVE  ReadRound(at, g) \in ReadStates(g)
<1> DEFINE States == DOMAIN g.table.eof
<1>1. /\ Steady(at.stream) /\ at.state \in Maybe(States) /\ None \in Maybe(States)
    BY DEF ReadStates, Maybe
<1>2. CASE at.state = None
    BY <1>2 DEF ReadRound
<1>3. CASE at.state # None /\ ~Active(g.table, at.state[1], g.group)
    <2>1. ReadRound(at, g) = At(at.stream, None)
        BY <1>3 DEF ReadRound
    <2> QED BY <1>1, <2>1, AtReads
<1>4. CASE at.state # None /\ Active(g.table, at.state[1], g.group)
    <2> DEFINE q == at.state[1]
               s == AcceptFor(at.stream, g, q)
    <2>1. q \in States
        BY <1>1, <1>4, MaybeIs
    <2>2. Steady(s)
        BY <1>1, <2>1, AcceptForSteady
    <2>3. ReadRound(at, g) = ReadOn(s, g, q)
        <3> HIDE DEF s, q
        <3>1. (CHOOSE r \in {ReadOn(v, g, q) : v \in {s}} : TRUE) = ReadOn(s, g, q)
            OBVIOUS
        <3> QED BY <1>4, <3>1 DEF ReadRound, Then, s, q
    <2> HIDE DEF s, q
    <2>4. CASE s.next = None
        <3>1. g.table.eof[q] \in Maybe(States)
            <4>1. g.table.eof \in Seq(Maybe(States))
                BY DEF IsTable, Maybe
            <4> HIDE DEF States
            <4>2. States = DOMAIN g.table.eof
                BY DEF States
            <4> QED BY <2>1, <4>1, <4>2
        <3>2. ReadOn(s, g, q) = At(s, g.table.eof[q])
            BY <2>4 DEF ReadOn
        <3> QED BY <2>2, <2>3, <3>1, <3>2, AtReads
    <2>5. CASE s.next # None /\ ~HasEdge(g.table, q, s.next[1])
        <3>1. ReadOn(s, g, q) = At(s, None)
            BY <2>5 DEF ReadOn
        <3> QED BY <1>1, <2>2, <2>3, <3>1, AtReads
    <2>6. CASE s.next # None /\ HasEdge(g.table, q, s.next[1])
        <3>1. g.table.edges[q][s.next[1]] \in States
            BY <2>1, <2>6 DEF IsTable, HasEdge
        <3>2. ReadOn(s, g, q) = ReadEdge(s, g, q, g.table.edges[q][s.next[1]])
            BY <2>6 DEF ReadOn
        <3> QED BY <2>1, <2>2, <2>3, <2>6, <3>1, <3>2, ReadEdgeStays
    <2> QED BY <2>4, <2>5, <2>6
<1> QED BY <1>2, <1>3, <1>4


\* read_token.
LEMMA ReadTokenSteady ==
    ASSUME Laid, NEW g, IsTable(g.table), NEW s, Steady(s)
    PROVE  Steady(ReadTokenWith(s, g))
<1> DEFINE S == ReadStates(g)
           n == Rounds(g)
           start == At(s, << StartState >>)
           Chosen(f) == f = [k \in 0 .. n |-> IF k = 0 THEN start ELSE
                                CHOOSE r \in {ReadRound(v, g) : v \in {f[k - 1]}} : TRUE]
<1>1. n \in Nat
    <2>1. Cardinality(DOMAIN text) \in Nat
        BY TextFacts, FS_CardinalityType
    <2>2. Len(g.table.eof) \in Nat
        BY DEF IsTable
    <2> QED BY <2>1, <2>2 DEF Rounds
<1>2. start \in S
    <2>1. << StartState >> \in Maybe(DOMAIN g.table.eof)
        BY MaybeSome DEF IsTable
    <2> QED BY <2>1, AtReads
<1>3. ASSUME NEW x PROVE (CHOOSE r \in {ReadRound(v, g) : v \in {x}} : TRUE) = ReadRound(x, g)
    OBVIOUS
<1>4. ReadTokenWith(s, g) = (CHOOSE f : Chosen(f))[n].stream
    BY DEF ReadTokenWith, After, Then
<1>5. \A x \in S : ReadRound(x, g) \in S
    BY ReadRoundStays
<1> HIDE DEF S, n, start
<1>6. \E f : Chosen(f)
    <2> DEFINE round == [x \in S |-> ReadRound(x, g)]
    <2>1. \A x \in S : round[x] \in S
        BY <1>5
    <2>2. \A x \in S : round[x] = ReadRound(x, g)
        OBVIOUS
    <2> HIDE DEF round
    <2>3. PICK f : Repeats(f, start, round, n, S)
        BY <1>1, <1>2, <2>1, RoundsExist
    <2>4. /\ f = [k \in 0 .. n |-> f[k]] /\ f[0] = start
          /\ \A k \in 1 .. n : f[k - 1] \in S /\ f[k] = round[f[k - 1]]
        BY <2>3 DEF Repeats
    <2>5. \A k \in 0 .. n : k = 0 \/ k \in 1 .. n
        BY <1>1
    <2>6. \A k \in 0 .. n :
            f[k] = IF k = 0 THEN start ELSE
                      CHOOSE r \in {ReadRound(v, g) : v \in {f[k - 1]}} : TRUE
        BY <1>3, <2>2, <2>4, <2>5
    <2> QED BY <2>4, <2>6, Zenon
<1>7. PICK f : f = (CHOOSE h : Chosen(h)) /\ Chosen(f)
    <2> HIDE DEF Chosen
    <2> QED BY <1>6
<1>8. \A k \in 0 .. n : f[k] = IF k = 0 THEN start ELSE
                            CHOOSE r \in {ReadRound(v, g) : v \in {f[k - 1]}} : TRUE
    BY <1>7
<1> HIDE DEF Chosen
<1>9. f[0] \in S /\ \A k \in 1 .. n : f[k - 1] \in S => f[k] \in S
    <2>1. 0 \in 0 .. n /\ \A k \in 1 .. n : k \in 0 .. n /\ k # 0
        BY <1>1
    <2> QED BY <1>2, <1>3, <1>5, <1>8, <2>1
<1>10. \A k \in 0 .. n : f[k] \in S
    BY <1>1, <1>9, RoundsStay
<1>11. f[n] \in S
    BY <1>1, <1>10
<1> QED BY <1>4, <1>7, <1>11 DEF S, ReadStates

LocalStates(g, start) ==
    {at \in [stream : Streams, over : BOOLEAN] :
        Steady(at.stream) /\ (at.over \/ g.else # None \/ at.stream.cursor.byte = start)}

LEMMA LocalRoundStays ==
    ASSUME Laid, InputAssumption, NEW g \in LocalGroups, g.else = None \/ ~Escaped,
           NEW start \in Boundaries, NEW at \in LocalStates(g, start)
    PROVE  LocalRound(at, g, start) \in LocalStates(g, start)
<1> DEFINE s == at.stream
           read == ReadTokenWith(s, g)
           ahead == NextPosition(s)
<1>1. CASE at.over
    BY <1>1 DEF LocalRound
<1>2. CASE ~at.over
    <2>1. Steady(s) /\ (g.else # None \/ s.cursor.byte = start) /\ start \in Nat
        BY <1>2, TextFacts DEF LocalStates
    <2>2. Steady(read)
        BY <2>1, ReadTokenSteady DEF InputAssumption
    <2>3. ahead # None /\ g.else # None => ahead[1] \in Boundaries
        BY <2>1, NextPositionIs
    <2>4. LocalRound(at, g, start) = LocalFrom(s, read, ahead, g, start)
        BY <1>2 DEF LocalRound
    <2>5. ASSUME NEW t, Steady(t), NEW over \in BOOLEAN, over \/ g.else # None
          PROVE  [stream |-> t, over |-> over] \in LocalStates(g, start)
        BY <2>5 DEF LocalStates, Steady, Intact
    <2> HIDE DEF s, read, ahead
    <2>6. CASE read.accepted = None /\ g.else # None /\ ahead # None
        <3>1. LocalFrom(s, read, ahead, g, start)
                = [stream |-> ResetTo(read, ahead[1]), over |-> FALSE]
            BY <2>6 DEF LocalFrom
        <3>2. Steady(ResetTo(read, ahead[1]))
            BY <2>2, <2>3, <2>6, ResetSteady
        <3> QED BY <2>4, <2>5, <2>6, <3>1, <3>2
    <2>7. CASE ~(read.accepted = None /\ g.else # None /\ ahead # None)
        <3> DEFINE t == IF read.accepted # None /\ s.cursor.byte > start
                        THEN ElseToken(read, g, start, ScanEnd(s, read)) ELSE read
        <3>1. LocalFrom(s, read, ahead, g, start) = [stream |-> t, over |-> TRUE]
            BY <2>7 DEF LocalFrom
        <3>2. ASSUME read.accepted # None /\ s.cursor.byte > start
              PROVE  Steady(ElseToken(read, g, start, ScanEnd(s, read)))
            <4> DEFINE u == ResetTo(read, start)
                       token == [term |-> g.else[1], end |-> s.cursor.byte]
            <4>1. s.cursor.byte \in Nat /\ g.else # None
                BY <2>1, <3>2, IntactFacts DEF Steady
            <4>2. g.else[1] \in Nat
                BY <4>1 DEF InputAssumption
            <4>3. token \in [term : Nat, end : Nat]
                BY <4>1, <4>2
            <4>4. Steady(u)
                BY <2>2, ResetSteady
            <4>5. ElseToken(read, g, start, ScanEnd(s, read)) = [u EXCEPT !.accepted = << token >>]
                BY DEF ElseToken, ScanEnd
            <4> HIDE DEF u, token
            <4>6. u \in Streams /\ u.tokenStart \in Nat /\ u.tokenStart <= u.cursor.byte
                BY <4>4, IntactFacts DEF Steady, Intact
            <4>7. << token >> \in Maybe([term : Nat, end : Nat])
                BY <4>3, MaybeSome
            <4>8. Steady([u EXCEPT !.accepted = << token >>, !.tokenStart = u.tokenStart])
                BY <4>4, <4>6, <4>7, TokenSteady
            <4>9. [u EXCEPT !.accepted = << token >>, !.tokenStart = u.tokenStart]
                    = [u EXCEPT !.accepted = << token >>]
                BY <4>6 DEF Streams
            <4> QED BY <4>5, <4>8, <4>9
        <3>3. Steady(t)
            BY <2>2, <3>2
        <3> HIDE DEF t
        <3> QED BY <2>4, <2>5, <3>1, <3>3
    <2> QED BY <2>6, <2>7
<1> QED BY <1>1, <1>2

\* read_local_token.
LEMMA ReadLocalSteady ==
    ASSUME Laid, InputAssumption, NEW g \in LocalGroups, g.else = None \/ ~Escaped,
           NEW s, Steady(s)
    PROVE  Steady(ReadLocalFrom(s, g, s.cursor.byte))
<1> DEFINE from == s.cursor.byte
           S == LocalStates(g, from)
           n == Length + 1
           start == [stream |-> s, over |-> FALSE]
           Chosen(f) == f = [k \in 0 .. n |-> IF k = 0 THEN start ELSE
                                CHOOSE r \in {LocalRound(v, g, from) : v \in {f[k - 1]}} : TRUE]
<1>1. n \in Nat /\ from \in Boundaries
    BY LengthIs, IntactFacts DEF Steady
<1>2. start \in S
    BY DEF LocalStates, Steady, Intact
<1>3. ASSUME NEW x
      PROVE  (CHOOSE r \in {LocalRound(v, g, from) : v \in {x}} : TRUE) = LocalRound(x, g, from)
    OBVIOUS
<1>4. ReadLocalFrom(s, g, s.cursor.byte) = (CHOOSE f : Chosen(f))[n].stream
    BY DEF ReadLocalFrom, After, Then
<1>5. \A x \in S : LocalRound(x, g, from) \in S
    BY <1>1, LocalRoundStays
<1> HIDE DEF S, n, start, from
<1>6. \E f : Chosen(f)
    <2> DEFINE round == [x \in S |-> LocalRound(x, g, from)]
    <2>1. \A x \in S : round[x] \in S
        BY <1>5
    <2>2. \A x \in S : round[x] = LocalRound(x, g, from)
        OBVIOUS
    <2> HIDE DEF round
    <2>3. PICK f : Repeats(f, start, round, n, S)
        BY <1>1, <1>2, <2>1, RoundsExist
    <2>4. /\ f = [k \in 0 .. n |-> f[k]] /\ f[0] = start
          /\ \A k \in 1 .. n : f[k - 1] \in S /\ f[k] = round[f[k - 1]]
        BY <2>3 DEF Repeats
    <2>5. \A k \in 0 .. n : k = 0 \/ k \in 1 .. n
        BY <1>1
    <2>6. \A k \in 0 .. n :
            f[k] = IF k = 0 THEN start ELSE
                      CHOOSE r \in {LocalRound(v, g, from) : v \in {f[k - 1]}} : TRUE
        BY <1>3, <2>2, <2>4, <2>5
    <2> QED BY <2>4, <2>6, Zenon
<1>7. PICK f : f = (CHOOSE h : Chosen(h)) /\ Chosen(f)
    <2> HIDE DEF Chosen
    <2> QED BY <1>6
<1>8. \A k \in 0 .. n : f[k] = IF k = 0 THEN start ELSE
                            CHOOSE r \in {LocalRound(v, g, from) : v \in {f[k - 1]}} : TRUE
    BY <1>7
<1> HIDE DEF Chosen
<1>9. f[0] \in S /\ \A k \in 1 .. n : f[k - 1] \in S => f[k] \in S
    <2>1. 0 \in 0 .. n /\ \A k \in 1 .. n : k \in 0 .. n /\ k # 0
        BY <1>1
    <2> QED BY <1>2, <1>3, <1>5, <1>8, <2>1
<1>10. \A k \in 0 .. n : f[k] \in S
    BY <1>1, <1>9, RoundsStay
<1>11. f[n] \in S
    BY <1>1, <1>10
<1> QED BY <1>4, <1>7, <1>11 DEF S, LocalStates


-----------------------------------------------------------------------------
(* The specification.                                                      *)

\* A stream of a text without translated ASCII, of which no more is taken than
\* there is, is in order between all operations.
InOrderStream == Laid /\ Steady(stream)

LEMMA InitLaid ==
    ASSUME InputAssumption, Init
    PROVE  Laid
<1>1. IsText(text)
    BY DEF InputAssumption, Init
<1> DEFINE most == Min({MaxRanges, MaxParts - Cardinality(DOMAIN text)})
           R == [start : Boundaries, end : Boundaries]
<1>2. PICK n \in 1 .. most : /\ ranges \in [1 .. n -> {span \in R : Span(span)}]
                             /\ Disjoint(ranges)
    BY DEF Init
<1> HIDE DEF most
<1>3. n \in Nat \ {0}
    BY <1>2
<1>4. \A i \in 1 .. n : ranges[i] \in {span \in R : Span(span)}
    BY <1>2
<1> HIDE DEF R
<1>5. ranges \in Seq(R) /\ ranges # << >> /\ DOMAIN ranges = 1 .. n
    BY <1>2, <1>3
<1>6. \A i \in DOMAIN ranges : Span(ranges[i])
    BY <1>4, <1>5
<1> QED BY <1>1, <1>2, <1>5, <1>6 DEF Laid, R

LEMMA NewStreamSteady ==
    ASSUME Laid
    PROVE  Steady(NewStream)
<1> DEFINE c == CursorFrom(0)
           s == [cursor |-> c, tokenStart |-> c.byte, accepted |-> None,
                 chunk |-> None, window |-> None, windowAt |-> 0, character |-> None,
                 next |-> None, broken |-> {}]
<1>1. Stands(c) /\ c.byte \in Nat
    BY CursorFromStands, StandsFacts, TextFacts
<1>2. NewStream = RefreshNext(s)
    BY DEF NewStream
<1> HIDE DEF c
<1>3. s \in Streams
    BY <1>1 DEF Streams, Maybe, Stands
<1>4. Intact(s)
    BY <1>1, <1>3 DEF Intact, PlainSpan, InOneRange, Remembered
<1> HIDE DEF s
<1> QED BY <1>2, <1>4, RefreshNextSteady

\* What an operation leaves in order stays in order.
LEMMA Carried ==
    ASSUME text' = text, ranges' = ranges, Laid, Steady(stream')
    PROVE  InOrderStream'
<1>1. Boundaries' = Boundaries
    BY DEF Boundaries
<1>2. Laid'
    BY <1>1 DEF Laid, Disjoint
<1>3. Cursors' = Cursors /\ EndCursor' = EndCursor
    BY <1>1 DEF Cursors, EndCursor
<1>4. Streams' = Streams
    BY <1>3 DEF Streams
<1> QED BY <1>2, <1>3, <1>4
        DEF InOrderStream, Steady, Intact, InStep, Shown, PlainSpan, InOneRange, Remembered,
            Stands, Inside, RangeEnd, HasWindow

LEMMA CheckedSteady ==
    ASSUME Laid, NEW s, Steady(s), NEW g
    PROVE  Steady(Checked(s, g))
<1> DEFINE t == [s EXCEPT !.broken = @ \cup {"else"}]
<1>1. Checked(s, g) = s \/ Checked(s, g) = t
    BY DEF Checked, Asserting
<1>2. Intact(s) /\ InStep(s) /\ Shown(s) /\ s \in Streams
    BY DEF Steady, Intact
<1>3. /\ t \in Streams /\ t.cursor = s.cursor /\ t.tokenStart = s.tokenStart
      /\ t.chunk = s.chunk /\ t.window = s.window /\ t.windowAt = s.windowAt
      /\ t.character = s.character /\ t.next = s.next /\ t.broken = s.broken \cup {"else"}
    BY <1>2 DEF Streams, Assertions
<1> HIDE DEF t
<1>4. t.broken \subseteq {"else"}
    BY <1>2, <1>3, IntactFacts
<1>5. Intact(t) /\ InStep(t) /\ Shown(t)
    BY <1>2, <1>3, <1>4, IntactFacts DEF Intact, InStep, HasWindow, Shown
<1> QED BY <1>1, <1>5 DEF Steady

LEMMA NextSteady ==
    ASSUME InputAssumption, ~Overruns, ~EscapedAscii, InOrderStream, [Next]_vars
    PROVE  InOrderStream'
<1>1. Laid /\ Steady(stream)
    BY DEF InOrderStream
<1>2. text' = text /\ ranges' = ranges
    BY DEF Next, vars
<1>3. CASE UNCHANGED vars
    <2>1. Steady(stream')
        BY <1>1, <1>3 DEF vars
    <2> QED BY <1>1, <1>2, <2>1, Carried
<1>4. CASE Reset
    <2>1. Steady(stream')
        BY <1>1, <1>4, ResetSteady DEF Reset
    <2> QED BY <1>1, <1>2, <2>1, Carried
<1>5. CASE Advance
    <2>1. PICK n \in Counts : /\ n = 1 \/ ~MovedBy(stream, n).over
                              /\ stream' = AdvanceBy(stream, n)
        BY <1>5 DEF Advance
    <2>2. n \in Nat
        BY DEF InputAssumption
    <2>3. Steady(stream')
        BY <1>1, <2>1, <2>2, AdvanceBySteady
    <2> QED BY <1>1, <1>2, <2>3, Carried
<1>6. CASE AdvanceAscii
    <2>1. PICK set \in Runs : stream' = AsciiWhile(stream, set).stream
        BY <1>6 DEF AdvanceAscii
    <2>2. Steady(stream')
        BY <1>1, <2>1, AsciiWhileSteady
    <2> QED BY <1>1, <1>2, <2>2, Carried
<1>7. CASE ReadToken
    <2>1. PICK g \in Groups : stream' = ReadTokenWith(stream, g)
        BY <1>7 DEF ReadToken
    <2>2. Steady(stream')
        BY <1>1, <2>1, ReadTokenSteady DEF InputAssumption
    <2> QED BY <1>1, <1>2, <2>2, Carried
<1>8. CASE ReadLocal
    <2>1. PICK g \in LocalGroups :
            /\ g.else = None \/ ~Escaped
            /\ stream' = Checked(ReadLocalFrom(stream, g, stream.cursor.byte), g)
        BY <1>8 DEF ReadLocal
    <2>2. Steady(ReadLocalFrom(stream, g, stream.cursor.byte))
        BY <1>1, <2>1, ReadLocalSteady
    <2>3. Steady(stream')
        BY <1>1, <2>1, <2>2, CheckedSteady
    <2> QED BY <1>1, <1>2, <2>3, Carried
<1> QED BY <1>3, <1>4, <1>5, <1>6, <1>7, <1>8 DEF Next

THEOREM StreamInOrder ==
    ASSUME ~Overruns, ~EscapedAscii
    PROVE  Spec => []InOrderStream
<1>1. Init => InOrderStream
    BY InputAssumption, InitLaid, NewStreamSteady DEF InOrderStream, Init
<1>2. InOrderStream /\ [Next]_vars => InOrderStream'
    BY InputAssumption, NextSteady
<1> QED BY <1>1, <1>2, PTL DEF Spec

THEOREM AssertionsTheorem ==
    ASSUME ~Overruns, ~EscapedAscii
    PROVE  Spec => []AssertionsHold
<1>1. InOrderStream => AssertionsHold
    BY IntactFacts DEF InOrderStream, Steady, AssertionsHold
<1> QED BY <1>1, StreamInOrder, PTL
=============================================================================
