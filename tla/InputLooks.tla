------------------------------ MODULE InputLooks ------------------------------
(***************************************************************************)
(* What an InputStream shows: the iterators over the characters ahead and   *)
(* behind, peek and previous with their fast paths, the positions a caller  *)
(* has clipped and the text it reads between two of them.  None of them     *)
(* changes the stream.                                                      *)
(***************************************************************************)
EXTENDS InputStream

CONSTANT Positions  \* raw positions, those of every text among them

-----------------------------------------------------------------------------
(* Positions.                                                              *)

\* LexicalInput::character_before.
CharacterBefore(position) ==
    LET before == {p \in DOMAIN text : text[p].to = position}
    IN  IF before = {} THEN None ELSE << text[CHOOSE p \in before : TRUE] >>

ClipPosition(position) == CursorFrom(position).byte
NextPositionFrom(position) == AdvanceCursor(CursorFrom(position))

\* retreat_cursor_with_character.
RetreatCursor(cursor) ==
    LET earlier == {i \in 1 .. cursor.range - 1 : ~Empty(i)}
        stays == cursor.byte > ranges[cursor.range].start
        range == IF stays THEN cursor.range ELSE Max(earlier)
        limit == IF stays THEN cursor.byte ELSE ranges[range].end
        before == CharacterBefore(limit)
    IN  IF (~stays /\ earlier = {}) \/ before = None \/ before[1].from < ranges[range].start
        THEN None
        ELSE << [cursor |-> Cursor(range, before[1].from), value |-> before[1].value] >>

-----------------------------------------------------------------------------
(* Looking.                                                                *)

\* InputLookahead: the ASCII run of the window first, then one character at a
\* time through the stream's chunk or one the iterator loads.
RECURSIVE AheadFrom(_, _, _)
AheadFrom(s, cursor, loaded) ==
    LET chunk == IF Covers(loaded, cursor[1].byte) \/ Covers(s.chunk, cursor[1].byte)
                 THEN loaded ELSE IdentityChunk(cursor[1].byte)
        from == IF Covers(chunk, cursor[1].byte) THEN chunk ELSE s.chunk
        ascii == IF AsciiByte(s.window, cursor[1].byte) # None
                 THEN AsciiByte(s.window, cursor[1].byte) ELSE AsciiByte(from, cursor[1].byte)
        read == IF ChunkCharacter(from, cursor[1].byte) # None
                THEN ChunkCharacter(from, cursor[1].byte) ELSE CharacterAt(cursor[1])
        behind(byte) == IF byte < RangeEnd(cursor[1]) THEN << [cursor[1] EXCEPT !.byte = byte] >>
                        ELSE NextRange(cursor[1].range)
    IN  IF cursor = None THEN << >>
        ELSE IF ~Inside(cursor[1]) THEN AheadFrom(s, NextRange(cursor[1].range), loaded)
        ELSE IF ascii # None
        THEN ascii \o AheadFrom(s, behind(cursor[1].byte + 1), chunk)
        ELSE IF read = None \/ read[1].to > RangeEnd(cursor[1]) THEN << >>
        ELSE << read[1].value >> \o AheadFrom(s, behind(read[1].to), chunk)

\* identity_lookahead_chunk, as far as it is ASCII.
WindowRun(s) ==
    LET from == s.cursor.byte
        known == s.window # None /\ s.window[1].start <= from /\ from <= s.window[1].end
        stop == Min({p \in from .. s.window[1].end : AsciiByte(s.window, p) = None})
    IN  IF ~known THEN << >> ELSE [i \in 1 .. stop - from |-> AsciiByte(s.window, from + i - 1)[1]]

Lookahead(s) ==
    LET run == WindowRun(s)
    IN  run \o AheadFrom(s, << [s.cursor EXCEPT !.byte = @ + Len(run)] >>, None)

RECURSIVE BehindFrom(_)
BehindFrom(cursor) ==
    LET step == RetreatCursor(cursor)
    IN  IF step = None THEN << >> ELSE << step[1].value >> \o BehindFrom(step[1].cursor)
Lookbehind(s) == BehindFrom(s.cursor)

Nth(values, n) == IF n \in DOMAIN values THEN << values[n] >> ELSE None

Peek(s, offset) ==
    IF offset = 0 THEN s.next
    ELSE IF offset < 0 THEN Nth(Lookbehind(s), -offset)
    ELSE IF offset < Len(WindowRun(s)) THEN << WindowRun(s)[offset + 1] >>
    ELSE Nth(Lookahead(s), offset + 1)

\* previous: the byte before the cursor when the window covers it.
Previous(s) ==
    LET before == AsciiByte(s.window, s.cursor.byte - 1)
    IN  IF /\ s.cursor.byte > ranges[s.cursor.range].start /\ s.window # None
           /\ s.cursor.byte > s.window[1].start /\ s.cursor.byte <= s.window[1].end
           /\ before # None
        THEN before ELSE Nth(Lookbehind(s), 1)

\* read_scalar: the text of the selected ranges between two positions.
ReadScalar(from, to) ==
    LET clipped(r) == [start |-> Max({r.start, from}), end |-> Min({r.end, to})]
        touched == SelectSeq(ranges, LAMBDA r : r.start < to /\ r.end > from)
        text1(r) == SelectSeq(Characters(text), LAMBDA c : /\ clipped(r).start <= c.from
                                               /\ c.to <= clipped(r).end)
    IN  FoldLeft(LAMBDA read, r : read \o text1(r), << >>, touched)

-----------------------------------------------------------------------------
(* Properties.                                                             *)

\* The characters in front of the cursor.
Place == 1 + Cardinality({i \in DOMAIN selected :
                 \/ selected[i].range < stream.cursor.range
                 \/ /\ selected[i].range = stream.cursor.range
                    /\ selected[i].from < stream.cursor.byte})

Plain == INSTANCE CharacterStream WITH
    place <- Place, tokenStart <- stream.tokenStart, accepted <- stream.accepted

\* Every move and every generated tokenizer, through chunks, windows, cached
\* characters, gaps and translations, does what it would do on the plain
\* sequence of the selected characters.
StreamSpec == Plain!StreamSpec

Values(characters) == [i \in DOMAIN characters |-> characters[i].value]

\* Whatever the moves before, the stream shows the same characters in front of it
\* and behind it by every way of looking: next, previous, peek and the two
\* iterators, each of which has a fast path of its own.
LooksAgree ==
    LET ahead == Values(SubSeq(selected, Place, Len(selected)))
        behind == Reverse(Values(SubSeq(selected, 1, Place - 1)))
    IN  /\ Lookahead(stream) = ahead
        /\ Lookbehind(stream) = behind
        /\ Previous(stream) = Nth(behind, 1)
        /\ \A k \in 0 .. 2 : Peek(stream, k) = Nth(ahead, k + 1)
        /\ \A k \in 1 .. 2 : Peek(stream, -k) = Nth(behind, k)

\* A position inside a gap, at the edge of one or beyond the end belongs to the
\* character behind it, whoever clips it: a token, a skip or a deletion that
\* ends at a gap goes on behind it.  The text read between two positions is that
\* of the selected characters.
PositionsAgree ==
    LET following(i) == IF i <= Len(selected) THEN << Plain!Position(i + 1) >> ELSE None
        byte(cursor) == IF cursor = None THEN None ELSE << cursor[1].byte >>
        between(p, q) == SelectSeq(selected, LAMBDA c : p <= c.from /\ c.from < q)
    IN  /\ \A p \in Boundaries :
              /\ ClipPosition(p) = Plain!Position(Plain!PlaceOf(p))
              /\ byte(NextPositionFrom(p)) = following(Plain!PlaceOf(p))
              /\ \A q \in Boundaries : Values(ReadScalar(p, q)) = Values(between(p, q))
        /\ \/ NextPosition(stream) = following(Place)
           \/ /\ Place \in DOMAIN selected
              /\ ~selected[Place].plain /\ Ascii(selected[Place].value)
=============================================================================
