-------------------------- MODULE ParseStackProofs --------------------------
(***************************************************************************)
(* What the operations of a parse stack return, for every table: a stack   *)
(* again, at the position it was or at the end of the token it took.       *)
(***************************************************************************)
EXTENDS ParseStack, GrammarProofs

\* A stack as the operations find it: the frozen prefix lies in its buffer.
Whole(s) == s \in Stack /\ s.base <= Top(s)

\* What an operation that does not move the stack returns.
Stays(s, t) == Whole(t) /\ t.position = s.position

LEMMA StackFields ==
    ASSUME NEW s, Whole(s)
    PROVE  /\ s.frames \in Seq(Frame) /\ Depth(s) \in Nat
           /\ s.state \in State
           /\ s.reducePosition \in Nat /\ s.position \in Nat
           /\ s.score \in Int
           /\ s.buffer \in Seq(Record) /\ Top(s) \in Nat
           /\ s.base \in Nat /\ s.base <= Top(s)
           /\ s.branch \in Nat
           /\ s.err \in StackError
BY DEF Whole, Stack, Depth, Top

LEMMA SetFrames ==
    ASSUME NEW s, Whole(s), NEW f \in Seq(Frame), NEW q \in State
    PROVE  Stays(s, [s EXCEPT !.frames = f, !.state = q])
BY DEF Whole, Stack, Stays, Top

LEMMA SetBuffer ==
    ASSUME NEW s, Whole(s), NEW b \in Seq(Record), s.base <= Len(b)
    PROVE  Stays(s, [s EXCEPT !.buffer = b])
BY DEF Whole, Stack, Stays, Top

LEMMA SetReducePosition ==
    ASSUME NEW s, Whole(s), NEW p \in Nat
    PROVE  Stays(s, [s EXCEPT !.reducePosition = p])
BY DEF Whole, Stack, Stays, Top

LEMMA SetScore ==
    ASSUME NEW s, Whole(s), NEW n \in Int
    PROVE  Stays(s, [s EXCEPT !.score = n])
BY DEF Whole, Stack, Stays, Top

LEMMA FailStays == ASSUME NEW s, Whole(s), NEW e \in StackError PROVE Stays(s, Fail(s, e))
BY DEF Whole, Stack, Stays, Top, Fail

LEMMA StaysTransitive ==
    ASSUME NEW s, NEW t, NEW u, Stays(s, t), Stays(t, u)
    PROVE  Stays(s, u)
BY DEF Stays

LEMMA StaysReflexive == ASSUME NEW s, Whole(s) PROVE Stays(s, s)
BY DEF Stays
-----------------------------------------------------------------------------
(* The steps that the operations are made of.                              *)

LEMMA PushStateStays ==
    ASSUME NEW s, Whole(s), NEW state \in State, NEW start \in Nat
    PROVE  Stays(s, PushState(s, state, start))
<1>. DEFINE frame == [state |-> s.state, start |-> start, offset |-> Top(s)]
<1>1. frame \in Frame
  BY StackFields DEF Frame
<1>. HIDE DEF frame
<1>2. Append(s.frames, frame) \in Seq(Frame)
  BY <1>1, StackFields
<1>3. PushState(s, state, start) \in
        {s, Fail(s, "depth"), [s EXCEPT !.frames = Append(s.frames, frame), !.state = state]}
  BY DEF PushState, frame
<1>4. Stays(s, [s EXCEPT !.frames = Append(s.frames, frame), !.state = state])
  BY <1>2, SetFrames
<1>5. Stays(s, Fail(s, "depth"))
  BY FailStays DEF StackError
<1>. QED  BY <1>3, <1>4, <1>5, StaysReflexive

LEMMA PushRecordStays ==
    ASSUME NEW s, Whole(s), NEW term \in Nat, NEW start \in Nat, NEW end \in Nat, NEW size \in Nat
    PROVE  Stays(s, PushRecord(s, term, start, end, size))
<1>. DEFINE record == [term |-> term, start |-> start, end |-> end, size |-> size]
<1>1. record \in Record
  BY DEF Record
<1>2. PushRecord(s, term, start, end, size) = [s EXCEPT !.buffer = Append(s.buffer, record)]
  BY DEF PushRecord
<1>. HIDE DEF record
<1>3. /\ Append(s.buffer, record) \in Seq(Record)
      /\ Len(Append(s.buffer, record)) = Top(s) + 1
  BY <1>1, StackFields DEF Top
<1>4. s.base <= Len(Append(s.buffer, record))
  BY <1>3, StackFields
<1>. QED  BY <1>2, <1>3, <1>4, SetBuffer

\* The records that move for a node that sinks are some of the local tail.
LEMMA TrailingType ==
    ASSUME NEW s, Whole(s), NEW end
    PROVE  Trailing(s, end) \in 0 .. Top(s) - s.base
<1>. DEFINE run == {k \in 0 .. Top(s) - s.base :
                      \A i \in Top(s) - k + 1 .. Top(s) : s.buffer[i].end > end}
<1>1. Top(s) - s.base \in Nat
  BY StackFields
<1>2. 0 \in run
  BY <1>1, StackFields
<1>3. run \in SUBSET (0 .. Top(s) - s.base)
  OBVIOUS
<1>4. Trailing(s, end) = CHOOSE k \in run : \A j \in run : j <= k
  BY DEF Trailing
<1>. HIDE DEF run
<1>5. \E k \in run : \A j \in run : j <= k
  BY <1>1, <1>2, <1>3, LargestNumber
<1>. QED  BY <1>3, <1>4, <1>5

LEMMA StoreNodeStays ==
    ASSUME NEW s, Whole(s), NEW term \in Nat, NEW start \in Nat, NEW end \in Nat,
           NEW size \in Nat, NEW mustSink
    PROVE  Stays(s, StoreNode(s, term, start, end, size, mustSink))
<1>. DEFINE top == Top(s)
            moved == Trailing(s, end)
            record == [term |-> term, start |-> start, end |-> end,
                       size |-> SunkSize(size, moved)]
            joined == [s.buffer EXCEPT ![top].end = end]
            sunk == SubSeq(s.buffer, 1, top - moved) \o <<record>>
                        \o SubSeq(s.buffer, top - moved + 1, top)
<1>1. moved \in 0 .. top - s.base
  BY TrailingType
<1>2. record \in Record
  BY <1>1, StackFields DEF Record, SunkSize
<1>3. StoreNode(s, term, start, end, size, mustSink) \in
        {s, Fail(s, "records"), [s EXCEPT !.buffer = joined], [s EXCEPT !.buffer = sunk],
         PushRecord(s, term, start, end, size)}
  BY DEF StoreNode
<1>4. joined \in Seq(Record) /\ Len(joined) = top
  <2>1. \A r \in Record : [r EXCEPT !.end = end] \in Record
    BY DEF Record
  <2>2. s.buffer \in Seq(Record) /\ Len(s.buffer) = top
    BY StackFields DEF Top
  <2>3. DOMAIN joined = DOMAIN s.buffer
    OBVIOUS
  <2>4. \A i \in DOMAIN s.buffer : joined[i] = s.buffer[i] \/ joined[i] = [s.buffer[i] EXCEPT !.end = end]
    OBVIOUS
  <2>5. \A i \in DOMAIN s.buffer : joined[i] \in Record
    BY <2>1, <2>2, <2>4
  <2>6. DOMAIN s.buffer = 1 .. top /\ top \in Nat
    BY <2>2
  <2>7. joined = [i \in 1 .. top |-> joined[i]]
    BY <2>6
  <2>. HIDE DEF joined, top
  <2>8. \A i \in 1 .. top : joined[i] \in Record
    BY <2>5, <2>6
  <2>9. [i \in 1 .. top |-> joined[i]] \in Seq(Record) /\ Len([i \in 1 .. top |-> joined[i]]) = top
    BY <2>6, <2>8
  <2>. QED  BY <2>7, <2>9, Zenon
<1>. HIDE DEF record, moved
<1>5. sunk \in Seq(Record) /\ Len(sunk) = top + 1
  <2>1. s.buffer \in Seq(Record) /\ Len(s.buffer) = top /\ top \in Nat
    BY StackFields DEF Top
  <2>2. moved \in 0 .. top
    BY <1>1, StackFields
  <2>. HIDE DEF top
  <2>3. /\ SubSeq(s.buffer, 1, top - moved) \in Seq(Record)
        /\ Len(SubSeq(s.buffer, 1, top - moved)) = top - moved
        /\ SubSeq(s.buffer, top - moved + 1, top) \in Seq(Record)
        /\ Len(SubSeq(s.buffer, top - moved + 1, top)) = moved
    BY <2>1, <2>2
  <2>. QED  BY <1>2, <2>1, <2>2, <2>3
<1>6. Stays(s, [s EXCEPT !.buffer = joined])
  <2>. HIDE DEF joined
  <2>. QED  BY <1>4, StackFields, SetBuffer
<1>7. Stays(s, [s EXCEPT !.buffer = sunk])
  <2>1. s.base <= top + 1
    BY StackFields
  <2>. HIDE DEF sunk
  <2>. QED  BY <1>5, <2>1, SetBuffer
<1>. HIDE DEF joined, sunk
<1>8. Stays(s, Fail(s, "records"))
  BY FailStays DEF StackError
<1>. QED  BY <1>3, <1>6, <1>7, <1>8, PushRecordStays, StaysReflexive

LEMMA PenalizeStays ==
    ASSUME NEW s, Whole(s), NEW penalty \in Int PROVE Stays(s, Penalize(s, penalty))
<1>1. s.score - penalty \in Int
  BY StackFields
<1>. QED  BY <1>1, SetScore, StaysReflexive DEF Penalize

LEMMA StoreErrorStays == ASSUME NEW s, Whole(s) PROVE Stays(s, StoreError(s))
BY StackFields, StoreNodeStays DEF StoreError, Error

LEMMA ScoreStays == ASSUME NEW s, Whole(s), NEW term PROVE Stays(s, Score(s, term))
<1>1. CASE term \in DOMAIN DynamicPrecedence
  <2>1. s.score + DynamicPrecedence[term] \in Int
    BY <1>1, StackFields, GrammarAssumption DEF GrammarAssumption
  <2>. QED  BY <1>1, <2>1, SetScore DEF Score
<1>2. CASE term \notin DOMAIN DynamicPrecedence
  BY <1>2, StaysReflexive DEF Score
<1>. QED  BY <1>1, <1>2
-----------------------------------------------------------------------------
(* The operations.                                                         *)

LEMMA ReduceEmptyStays ==
    ASSUME NEW s, Whole(s), NEW term \in Nat
    PROVE  Stays(s, ReduceEmpty(s, term))
<1>. DEFINE at == IF IsNode(term) /\ s.reducePosition < s.position
                  THEN s.position ELSE s.reducePosition
            goto == GetGoto(s.state, term, TRUE)
            ready == [Score(s, term) EXCEPT !.reducePosition = at]
            pushed == PushState(ready, goto, at)
            stored == StoreNode(pushed, term, at, at, 1, TRUE)
<1>1. ReduceEmpty(s, term) = IF goto = NoState THEN Fail(s, "config")
                             ELSE IF IsNode(term) THEN stored ELSE pushed
  BY DEF ReduceEmpty
<1>2. at \in Nat
  BY StackFields
<1>3. goto \in State \cup {NoState}
  BY StackFields, GotoType
<1>. HIDE DEF at, goto
<1>4. Stays(s, ready)
  BY <1>2, ScoreStays, SetReducePosition, StaysTransitive DEF Stays
<1>. HIDE DEF ready
<1>5. ASSUME goto # NoState PROVE Stays(s, pushed)
  BY <1>2, <1>3, <1>4, <1>5, PushStateStays, StaysTransitive DEF Stays
<1>. HIDE DEF pushed
<1>6. ASSUME goto # NoState PROVE Stays(s, stored)
  <2>1. Whole(pushed)
    BY <1>5, <1>6 DEF Stays
  <2>2. Stays(pushed, stored)
    BY <1>2, <2>1, StoreNodeStays
  <2>. QED  BY <1>5, <1>6, <2>2, StaysTransitive
<1>. HIDE DEF stored
<1>7. Stays(s, Fail(s, "config"))
  BY FailStays DEF StackError
<1>. QED  BY <1>1, <1>5, <1>6, <1>7

\* What a reduction keeps and where its node starts, unless it takes more
\* frames than there are.
LEMMA ReductionFields ==
    ASSUME NEW s, Whole(s), NEW a \in Action, a.depth # 0, KeptFrames(s, a) >= 0
    PROVE  /\ KeptFrames(s, a) \in 0 .. Depth(s)
           /\ ReductionStart(s, a) \in Nat
           /\ ReductionOffset(s, a) \in Nat
           /\ ReductionPosition(s, a) \in Nat
           /\ ReductionState(s, a) \in State \cup {NoState}
<1>. DEFINE kept == KeptFrames(s, a)
<1>1. a.depth \in Nat /\ a.depth >= 1 /\ a.value \in Nat
  BY DEF Action
<1>2. StayDepth(a) \in {0, 2}
  BY DEF StayDepth
<1>3. kept \in 0 .. Depth(s)
  BY <1>1, <1>2, StackFields DEF KeptFrames
<1>. HIDE DEF kept
<1>4. \A i \in 1 .. Depth(s) : s.frames[i] \in Frame
  BY StackFields DEF Depth
<1>5. \A i \in 1 .. Depth(s) : /\ s.frames[i].state \in State
                                /\ s.frames[i].start \in Nat /\ s.frames[i].offset \in Nat
  BY <1>4 DEF Frame
<1>6. kept # 0 => kept \in 1 .. Depth(s)
  BY <1>3
<1>7. kept < Depth(s) => kept + 1 \in 1 .. Depth(s)
  BY <1>3, StackFields
<1>8. ReductionStart(s, a) \in Nat /\ ReductionOffset(s, a) \in Nat
  BY <1>5, <1>6 DEF ReductionStart, ReductionOffset, ParseStart, kept
<1>9. ReductionPosition(s, a) \in Nat
  BY StackFields DEF ReductionPosition
<1>10. ReductionState(s, a) \in State \cup {NoState}
  <2>1. ReductionState(s, a) = IF a.kind = "stayReduce"
                               THEN IF kept < Depth(s) THEN s.frames[kept + 1].state ELSE NoState
                               ELSE IF kept = 0 THEN NoState
                               ELSE GetGoto(s.frames[kept].state, a.value, TRUE)
    BY DEF ReductionState, kept
  <2>. QED  BY <1>5, <1>6, <1>7, <2>1, GotoType
<1>. QED  BY <1>3, <1>8, <1>9, <1>10 DEF kept

LEMMA SettleStays ==
    ASSUME NEW s, Whole(s), NEW state \in State \cup {NoState}, NEW kept \in Nat,
           kept <= Depth(s)
    PROVE  Stays(s, Settle(s, state, kept))
<1>1. SubSeq(s.frames, 1, kept) \in Seq(Frame)
  BY StackFields DEF Depth
<1>2. Settle(s, state, kept) = IF Failed(s) THEN s
          ELSE IF state = NoState THEN Fail(s, "config")
          ELSE [s EXCEPT !.frames = SubSeq(s.frames, 1, kept), !.state = state]
  BY DEF Settle
<1>3. state # NoState =>
        Stays(s, [s EXCEPT !.frames = SubSeq(s.frames, 1, kept), !.state = state])
  BY <1>1, SetFrames
<1>4. Stays(s, Fail(s, "config"))
  BY FailStays DEF StackError
<1>. QED  BY <1>2, <1>3, <1>4, StaysReflexive

\* Nothing but a push or the end of a reduction touches the frames.
LEMMA StoreNodeFrames ==
    ASSUME NEW s, Whole(s), NEW term \in Nat, NEW start \in Nat, NEW end \in Nat,
           NEW size \in Nat, NEW mustSink
    PROVE  Depth(StoreNode(s, term, start, end, size, mustSink)) = Depth(s)
<1>1. s \in Stack
  BY DEF Whole
<1>2. StoreNode(s, term, start, end, size, mustSink).frames = s.frames
  BY <1>1 DEF StoreNode, PushRecord, Fail, Stack
<1>. QED  BY <1>2 DEF Depth

LEMMA ScoreFrames ==
    ASSUME NEW s, Whole(s), NEW term, NEW p
    PROVE  Depth([Score(s, term) EXCEPT !.reducePosition = p]) = Depth(s)
BY DEF Score, Whole, Stack, Depth

LEMMA ReduceNodeStays ==
    ASSUME NEW s, Whole(s), NEW a \in Action, a.depth # 0
    PROVE  Stays(s, ReduceNode(s, a))
<1>. DEFINE kept == KeptFrames(s, a)
            count == Top(s) - ReductionOffset(s, a)
            moved == [Score(s, a.value) EXCEPT !.reducePosition = ReductionPosition(s, a)]
            end == IF s.state \in SkippedState THEN s.position ELSE moved.reducePosition
            node == StoreNode(moved, a.value, ReductionStart(s, a), end, count + 1, TRUE)
            stored == IF IsNode(a.value) \/ a.kind = "repeat" THEN node ELSE moved
<1>1. ReduceNode(s, a) = IF kept < 0 \/ count < 0 THEN Fail(s, "config")
                         ELSE Settle(stored, ReductionState(s, a), kept)
  BY DEF ReduceNode
<1>2. Stays(s, Fail(s, "config"))
  BY FailStays DEF StackError
<1>3. ASSUME ~(kept < 0 \/ count < 0) PROVE Stays(s, Settle(stored, ReductionState(s, a), kept))
  <2>1. kept \in Int /\ a.value \in Nat
    BY StackFields DEF KeptFrames, StayDepth, Action
  <2>2. /\ kept \in 0 .. Depth(s)
        /\ ReductionStart(s, a) \in Nat /\ ReductionOffset(s, a) \in Nat
        /\ ReductionPosition(s, a) \in Nat
        /\ ReductionState(s, a) \in State \cup {NoState}
    BY <1>3, <2>1, ReductionFields
  <2>3. count + 1 \in Nat
    BY <1>3, <2>2, StackFields
  <2>4. Stays(s, moved)
    BY <2>2, ScoreStays, SetReducePosition, StaysTransitive DEF Stays
  <2>5. end \in Nat
    BY <2>4, StackFields DEF Stays
  <2>6. Depth(moved) = Depth(s)
    BY ScoreFrames
  <2>. HIDE DEF moved, count, end
  <2>11. Whole(moved)
    BY <2>4 DEF Stays
  <2>12. Depth(node) = Depth(moved)
    <3>1. \A mustSink :
            Depth(StoreNode(moved, a.value, ReductionStart(s, a), end, count + 1, mustSink))
                = Depth(moved)
      BY <2>1, <2>2, <2>3, <2>5, <2>11, StoreNodeFrames
    <3>. QED  BY <3>1, Zenon
  <2>13. Stays(moved, node)
    BY <2>1, <2>2, <2>3, <2>5, <2>11, StoreNodeStays
  <2>7. Stays(s, node)
    BY <2>4, <2>13, StaysTransitive
  <2>. HIDE DEF node
  <2>8. Stays(s, stored) /\ Depth(stored) = Depth(s)
    BY <2>4, <2>6, <2>7, <2>12
  <2>. HIDE DEF stored, kept
  <2>9. Whole(stored) /\ kept \in Nat /\ kept <= Depth(stored)
    BY <2>2, <2>8, StackFields DEF Stays
  <2>10. Stays(stored, Settle(stored, ReductionState(s, a), kept))
    BY <2>2, <2>9, SettleStays
  <2>. QED  BY <2>8, <2>10, StaysTransitive
<1>. QED  BY <1>1, <1>2, <1>3

LEMMA ReduceStays ==
    ASSUME NEW s, Whole(s), NEW a \in Action PROVE Stays(s, Reduce(s, a))
<1>1. a.value \in Nat
  BY DEF Action
<1>. QED  BY <1>1, ReduceEmptyStays, ReduceNodeStays, StaysReflexive DEF Reduce

\* What taking a token returns: the stack moves to its end or stays.
LEMMA ShiftMoves ==
    ASSUME NEW s, Whole(s), NEW a \in Action, a.value \in State,
           NEW term \in Nat, NEW start \in Nat, NEW end \in Nat
    PROVE  /\ Whole(Shift(s, a, term, start, end))
           /\ Shift(s, a, term, start, end).position \in {s.position, end}
<1>. DEFINE skipped == a.value \in SkippedState
            reduced == IF ~skipped /\ (end > start \/ term <= MaxNode)
                       THEN end ELSE s.reducePosition
            moved == [s EXCEPT !.position = end, !.reducePosition = reduced]
            from == IF skipped \/ start <= moved.reducePosition
                    THEN start ELSE moved.reducePosition
            entered == CASE a.kind = "goto" -> PushState(s, a.value, s.position)
                         [] a.kind = "stay" -> [s EXCEPT !.position = end]
                         [] OTHER -> PushState(moved, a.value, from)
            shifted == PushRecord(entered, term, start, end, 1)
<1>1. Shift(s, a, term, start, end) =
        IF a.kind = "goto" \/ Failed(entered) \/ term > MaxNode THEN entered ELSE shifted
  BY DEF Shift
<1>2. reduced \in Nat
  BY StackFields
<1>. HIDE DEF reduced
<1>3. Whole(moved) /\ moved.position = end /\ moved.reducePosition = reduced
  BY <1>2 DEF Whole, Stack, Top
<1>4. from \in Nat
  BY <1>2, <1>3
<1>. HIDE DEF moved, from
<1>5. Whole(entered) /\ entered.position \in {s.position, end}
  <2>1. Whole(PushState(s, a.value, s.position)) /\ PushState(s, a.value, s.position).position = s.position
    BY StackFields, PushStateStays DEF Stays
  <2>2. Whole([s EXCEPT !.position = end]) /\ [s EXCEPT !.position = end].position = end
    BY DEF Whole, Stack, Top
  <2>3. Whole(PushState(moved, a.value, from)) /\ PushState(moved, a.value, from).position = end
    BY <1>3, <1>4, PushStateStays DEF Stays
  <2>. QED  BY <2>1, <2>2, <2>3
<1>. HIDE DEF entered
<1>6. Stays(entered, shifted)
  BY <1>5, PushRecordStays
<1>. HIDE DEF shifted
<1>. QED  BY <1>1, <1>5, <1>6 DEF Stays

LEMMA ApplyMoves ==
    ASSUME NEW s, Whole(s), NEW a \in Action, Proper(a),
           NEW term \in Nat, NEW start \in Nat, NEW end \in Nat
    PROVE  /\ Whole(Apply(s, a, term, start, end))
           /\ Apply(s, a, term, start, end).position \in {s.position, end}
BY ReduceStays, ShiftMoves DEF Apply, Proper, Stays

LEMMA SplitStays == ASSUME NEW s, Whole(s) PROVE Stays(s, Split(s))
<1>. DEFINE last == IF LastIsError(s) THEN Top(s) - 1 ELSE Top(s)
            frozen == {k \in s.base .. last :
                          k = s.base \/ s.buffer[k].end <= s.reducePosition}
            base == CHOOSE k \in frozen : \A j \in frozen : j <= k
<1>1. last \in Nat /\ s.base <= last /\ last <= Top(s)
  BY StackFields DEF LastIsError
<1>. HIDE DEF last
<1>2. s.base \in frozen /\ frozen \in SUBSET (0 .. last)
  BY <1>1, StackFields
<1>. HIDE DEF frozen
<1>3. \E k \in frozen : \A j \in frozen : j <= k
  BY <1>1, <1>2, LargestNumber
<1>4. base \in 0 .. last
  BY <1>2, <1>3
<1>5. base \in Nat /\ base <= Top(s)
  BY <1>1, <1>4, StackFields
<1>6. Split(s) = [s EXCEPT !.base = base, !.branch = Top(s)]
  BY DEF Split, frozen, last
<1>. HIDE DEF base
<1>. QED  BY <1>5, <1>6, StackFields DEF Stays, Whole, Stack, Top

LEMMA SplitFailed == ASSUME NEW s, Whole(s) PROVE Failed(Split(s)) <=> Failed(s)
BY DEF Split, Failed, Whole, Stack

LEMMA RecoverByDeleteMoves ==
    ASSUME NEW s, Whole(s), NEW term \in Nat, NEW end \in Nat
    PROVE  Whole(RecoverByDelete(s, term, end)) /\ RecoverByDelete(s, term, end).position = end
<1>. DEFINE isNode == term <= MaxNode
            stored == StoreNode(s, term, s.position, end, 1, FALSE)
            node == IF isNode THEN stored ELSE s
            size == IF isNode THEN 2 ELSE 1
            marked == StoreNode(node, Error, s.position, end, size, FALSE)
            moved == [marked EXCEPT !.position = end, !.reducePosition = end]
<1>1. RecoverByDelete(s, term, end) = Penalize(moved, DeletePenalty)
  BY DEF RecoverByDelete
<1>2. Whole(stored)
  BY StackFields, StoreNodeStays DEF Stays
<1>. HIDE DEF stored
<1>3. Whole(node) /\ size \in Nat
  BY <1>2
<1>. HIDE DEF node, size
<1>4. Whole(marked)
  BY <1>3, StackFields, StoreNodeStays DEF Stays, Error
<1>. HIDE DEF marked
<1>5. Whole(moved) /\ moved.position = end
  BY <1>4 DEF Whole, Stack, Top
<1>. HIDE DEF moved
<1>. QED  BY <1>1, <1>5, PenalizeStays DEF Stays, DeletePenalty

LEMMA InsertStateStays ==
    ASSUME NEW s, Whole(s), NEW state \in State
    PROVE  Stays(s, InsertState(s, state))
<1>. DEFINE entered == PushState(Split(s), state, s.position)
            marked == StoreError(entered)
            ready == [marked EXCEPT !.reducePosition = s.position]
<1>1. InsertState(s, state) = Penalize(ready, InsertPenalty)
  BY DEF InsertState
<1>2. Stays(s, entered)
  <2>1. Stays(s, Split(s)) /\ s.position \in Nat
    BY StackFields, SplitStays
  <2>2. Stays(Split(s), entered)
    BY <2>1, PushStateStays DEF Stays
  <2>. QED  BY <2>1, <2>2, StaysTransitive
<1>. HIDE DEF entered
<1>3. Stays(s, marked)
  BY <1>2, StoreErrorStays, StaysTransitive DEF Stays
<1>. HIDE DEF marked
<1>4. Stays(s, ready)
  BY <1>3, StackFields, SetReducePosition, StaysTransitive DEF Stays
<1>. HIDE DEF ready
<1>. QED  BY <1>1, <1>4, PenalizeStays, StaysTransitive DEF Stays, InsertPenalty

LEMMA RestartStays ==
    ASSUME NEW s, Whole(s), Depth(s) = 1
    PROVE  Stays(s, Restart(s))
<1>. DEFINE marked == StoreError(s)
<1>1. Stays(s, marked)
  BY StoreErrorStays
<1>2. s.frames[1].state \in State
  <2>1. s.frames \in Seq(Frame) /\ 1 \in 1 .. Len(s.frames)
    BY StackFields DEF Depth
  <2>2. s.frames[1] \in Frame
    BY <2>1
  <2>. QED  BY <2>2 DEF Frame
<1>3. Restart(s) = [marked EXCEPT !.frames = << >>, !.state = s.frames[1].state]
  BY <1>1 DEF Restart, Stays, Whole, Stack
<1>4. << >> \in Seq(Frame)
  OBVIOUS
<1>. HIDE DEF marked
<1>5. Stays(marked, [marked EXCEPT !.frames = << >>, !.state = s.frames[1].state])
  BY <1>1, <1>2, <1>4, SetFrames DEF Stays
<1>. QED  BY <1>1, <1>3, <1>5, StaysTransitive

\* recover_by_insert only pushes states that the tables shift to.
LEMMA InsertCandidatesType ==
    ASSUME NEW s, Whole(s), NEW next
    PROVE  InsertCandidates(s, next) \in Seq(Nat \X State)
<1>. DEFINE all == NextStates[s.state]
            acting == {i \in DOMAIN all : all[i][2] # s.state /\ HasAction(all[i][2], next)}
            best == Picked(all, acting)
            rest == Picked(all, DOMAIN all \ acting)
            room == 2 * MaxNext - Len(best)
            few == IF room < Len(rest) THEN room ELSE Len(rest)
            fill == IF Depth(s) >= DampenInsertDepth \/ room <= 0 THEN << >>
                    ELSE SubSeq(rest, 1, few)
            chosen == IF Len(all) > 2 * MaxNext \/ Depth(s) >= DampenInsertDepth
                      THEN best \o fill ELSE all
            elsewhere == {i \in DOMAIN chosen : chosen[i][2] # s.state}
            other == Picked(chosen, elsewhere)
            most == IF Len(other) < MaxNext THEN Len(other) ELSE MaxNext
            T == Nat \X State
<1>1. InsertCandidates(s, next) = IF Depth(s) >= MaxInsertDepth THEN << >>
                                  ELSE SubSeq(other, 1, most)
  BY DEF InsertCandidates
<1>2. all \in Seq(T)
  BY StackFields, NextStatesType
<1>3. acting \in SUBSET DOMAIN all /\ DOMAIN all \ acting \in SUBSET DOMAIN all
  OBVIOUS
<1>4. << >> \in Seq(T) /\ MaxNext \in Nat
  BY StackAssumption DEF StackAssumption
<1>. HIDE DEF T, all, acting
<1>5. best \in Seq(T) /\ rest \in Seq(T)
  BY <1>2, <1>3, PickedMembers
<1>. HIDE DEF best, rest
<1>6. fill \in Seq(T)
  <2>1. room > 0 => few \in 0 .. Len(rest)
    BY <1>4, <1>5
  <2>. HIDE DEF few
  <2>2. room > 0 => SubSeq(rest, 1, few) \in Seq(T)
    BY <1>5, <2>1
  <2>3. room > 0 \/ room <= 0
    BY <1>4, <1>5
  <2>. QED  BY <1>4, <2>2, <2>3
<1>. HIDE DEF fill
<1>7. chosen \in Seq(T)
  BY <1>2, <1>5, <1>6
<1>. HIDE DEF chosen
<1>8. elsewhere \in SUBSET DOMAIN chosen
  OBVIOUS
<1>. HIDE DEF elsewhere
<1>9. other \in Seq(T)
  BY <1>7, <1>8, PickedMembers
<1>. HIDE DEF other
<1>10. most \in 0 .. Len(other)
  BY <1>4, <1>9
<1>. HIDE DEF most
<1>11. SubSeq(other, 1, most) \in Seq(T)
  BY <1>9, <1>10
<1>. QED  BY <1>1, <1>4, <1>11 DEF T

LEMMA RecoverByInsertStays ==
    ASSUME NEW s, Whole(s), NEW next
    PROVE  \E n \in Nat : /\ DOMAIN RecoverByInsert(s, next) = 1 .. n
                          /\ RecoverByInsert(s, next) =
                                [i \in 1 .. n |-> RecoverByInsert(s, next)[i]]
                          /\ \A i \in 1 .. n : Stays(s, RecoverByInsert(s, next)[i])
<1>. DEFINE candidates == InsertCandidates(s, next)
            stacks == RecoverByInsert(s, next)
            n == Len(candidates)
<1>1. candidates \in Seq(Nat \X State)
  BY InsertCandidatesType
<1>2. stacks = [i \in DOMAIN candidates |-> InsertState(s, candidates[i][2])]
  BY DEF RecoverByInsert, InsertAll
<1>. HIDE DEF candidates
<1>3. n \in Nat /\ DOMAIN candidates = 1 .. n
  BY <1>1
<1>4. \A i \in 1 .. n : candidates[i][2] \in State
  BY <1>1, <1>3
<1>5. \A i \in 1 .. n : Stays(s, InsertState(s, candidates[i][2]))
  BY <1>4, InsertStateStays
<1>. HIDE DEF stacks, n
<1>6. stacks = [i \in 1 .. n |-> InsertState(s, candidates[i][2])]
  BY <1>2, <1>3
<1>7. /\ DOMAIN stacks = 1 .. n
      /\ stacks = [i \in 1 .. n |-> stacks[i]]
      /\ \A i \in 1 .. n : Stays(s, stacks[i])
  BY <1>5, <1>6
<1>. QED  BY <1>3, <1>7 DEF stacks
-----------------------------------------------------------------------------
(* find_forced_reduction ends for every table, with a reduction or none.   *)

LEMMA AllActionsType ==
    ASSUME NEW state \in State, NEW depth \in Nat
    PROVE  ActionsAt(state, depth) \in Seq({a \in Action : Proper(a)} \X Nat)
<1>. DEFINE row == ActionRow[state]
            listed == [i \in DOMAIN row |-> row[i][2]]
            T == {a \in Action : Proper(a)}
            all == AllActions(state)
<1>1. /\ row \in Seq(Nat \X Action) /\ \A i \in DOMAIN row : Proper(row[i][2])
      /\ DefaultReduce[state] \in Action
      /\ DefaultReduce[state] # NoAction => Proper(DefaultReduce[state])
  BY GrammarAssumption DEF GrammarAssumption, Proper
<1>. HIDE DEF row
<1>2. \A i \in DOMAIN row : row[i][2] \in T
  BY <1>1
<1>3. DefaultReduce[state] # NoAction => DefaultReduce[state] \in T
  BY <1>1
<1>4. all = IF DefaultReduce[state] = NoAction THEN listed ELSE <<DefaultReduce[state]>> \o listed
  BY DEF AllActions, row
<1>5. DOMAIN row = 1 .. Len(row) /\ Len(row) \in Nat
  BY <1>1
<1>. HIDE DEF T, all
<1>6. listed \in Seq(T)
  BY <1>2, <1>5
<1>. HIDE DEF listed
<1>7. all \in Seq(T)
  BY <1>3, <1>4, <1>6
<1>8. ActionsAt(state, depth) = [i \in 1 .. Len(all) |-> <<all[i], depth>>]
  BY <1>7 DEF ActionsAt, all
<1>9. \A i \in 1 .. Len(all) : <<all[i], depth>> \in T \X Nat
  BY <1>7
<1>. QED  BY <1>7, <1>8, <1>9 DEF T

\* A turn of the search visits a state for the first time or leaves it fewer
\* actions to look at.
LEMMA ExploredSteps ==
    ASSUME NEW s, Whole(s), NEW e \in Exploration, e.todo # << >>
    PROVE  /\ Explored(s, e) \in Exploration
           /\ \/ \E q \in State \ e.seen : Explored(s, e).seen = e.seen \cup {q}
              \/ Explored(s, e).seen = e.seen /\ Len(Explored(s, e).todo) < Len(e.todo)
<1>. DEFINE T == {a \in Action : Proper(a)}
            a == Head(e.todo)[1]
            depth == Head(e.todo)[2]
            rest == [e EXCEPT !.todo = Tail(@)]
            found == ReduceTo(a.value, a.depth - depth)
            more == ActionsAt(a.value, depth + 1) \o Tail(e.todo)
<1>1. e.todo \in Seq(T \X Nat) /\ e.seen \in SUBSET State /\ e.found \in Action
  BY DEF Exploration
<1>2. Head(e.todo) \in T \X Nat /\ Tail(e.todo) \in Seq(T \X Nat)
      /\ Len(Tail(e.todo)) < Len(e.todo)
  BY <1>1
<1>3. a \in Action /\ Proper(a) /\ depth \in Nat
  BY <1>2
<1>4. Explored(s, e) =
        IF a.kind \in {"reduce", "repeat"} /\ Reducible(s, a.value, a.depth - depth)
        THEN [rest EXCEPT !.found = found]
        ELSE IF a.kind = "shift" /\ a.value \notin e.seen
        THEN [rest EXCEPT !.todo = more, !.seen = e.seen \cup {a.value}]
        ELSE rest
  BY DEF Explored, Exploration
<1>5. Exploration = [todo : Seq(T \X Nat), seen : SUBSET State, found : Action]
  BY DEF Exploration
<1>. HIDE DEF T, a, depth, found, more
<1>6. rest \in Exploration /\ rest.seen = e.seen /\ rest.todo = Tail(e.todo)
  BY <1>1, <1>2, <1>5
<1>7. CASE a.kind \in {"reduce", "repeat"} /\ Reducible(s, a.value, a.depth - depth)
  <2>1. a.depth - depth \in Nat /\ a.value \in Nat
    BY <1>3, <1>7 DEF Reducible, Action
  <2>2. found \in Action
    BY <2>1 DEF found, ReduceTo, Action, ActionKind
  <2>3. [rest EXCEPT !.found = found] \in Exploration
        /\ [rest EXCEPT !.found = found].seen = e.seen
        /\ [rest EXCEPT !.found = found].todo = Tail(e.todo)
    BY <1>1, <1>2, <1>5, <2>2
  <2>. HIDE DEF rest
  <2>. QED  BY <1>2, <1>4, <1>7, <2>3
<1>8. CASE /\ ~(a.kind \in {"reduce", "repeat"} /\ Reducible(s, a.value, a.depth - depth))
           /\ a.kind = "shift" /\ a.value \notin e.seen
  <2>1. a.value \in State
    BY <1>3, <1>8 DEF Proper, IsReduce
  <2>2. ActionsAt(a.value, depth + 1) \in Seq(T \X Nat)
    BY <1>3, <2>1, AllActionsType DEF T
  <2>3. more \in Seq(T \X Nat)
    BY <1>2, <2>2 DEF more
  <2>. DEFINE next == [rest EXCEPT !.todo = more, !.seen = e.seen \cup {a.value}]
  <2>4. next \in Exploration /\ next.seen = e.seen \cup {a.value}
    BY <1>1, <1>2, <1>5, <2>1, <2>3
  <2>. HIDE DEF next
  <2>5. Explored(s, e) = next
    BY <1>4, <1>8 DEF next
  <2>. QED  BY <1>8, <2>1, <2>4, <2>5
<1>9. CASE /\ ~(a.kind \in {"reduce", "repeat"} /\ Reducible(s, a.value, a.depth - depth))
           /\ ~(a.kind = "shift" /\ a.value \notin e.seen)
  <2>. HIDE DEF rest
  <2>. QED  BY <1>2, <1>4, <1>6, <1>9
<1>. QED  BY <1>7, <1>8, <1>9

\* The equations of the search have a solution: what the explorations can
\* come to is the least relation that the equations allow, and an exploration
\* and the one that follows it come to the same.
Settled == {e \in Exploration : e.todo = << >> \/ e.found # NoAction}

LEMMA Outcomes ==
    ASSUME NEW s, Whole(s)
    PROVE  \E value \in [Exploration -> SUBSET Action] :
               /\ \A e \in Settled : value[e] = {e.found}
               /\ \A e \in Exploration \ Settled : value[e] = value[Explored(s, e)]
<1>. DEFINE E == Exploration
            R == Action
            Closed(X) == /\ \A e \in Settled : <<e, e.found>> \in X
                         /\ \A e \in E \ Settled, r \in R :
                               <<Explored(s, e), r>> \in X => <<e, r>> \in X
            Least == {p \in E \X R : \A X \in SUBSET (E \X R) : Closed(X) => p \in X}
            value == [e \in E |-> {r \in R : <<e, r>> \in Least}]
<1>1. \A e \in Settled : e \in E /\ e.found \in R
  BY DEF Settled, Exploration
<1>2. \A e \in E \ Settled : Explored(s, e) \in E
  BY ExploredSteps DEF Settled
<1>. HIDE DEF E, R
<1>3. Closed(Least)
  BY <1>1
<1>4. \A X \in SUBSET (E \X R) : Closed(X) => Least \subseteq X
  OBVIOUS
<1>5. Least \in SUBSET (E \X R)
  OBVIOUS
<1>. HIDE DEF Least
<1>6. ASSUME NEW e \in Settled, NEW r \in R, <<e, r>> \in Least PROVE r = e.found
  <2>. SUFFICES ASSUME r # e.found PROVE FALSE
    OBVIOUS
  <2>1. Closed(Least \ {<<e, r>>})
    BY <1>3, <1>6
  <2>. QED  BY <1>4, <1>5, <1>6, <2>1
<1>7. ASSUME NEW e \in E \ Settled, NEW r \in R, <<e, r>> \in Least
      PROVE  <<Explored(s, e), r>> \in Least
  <2>. SUFFICES ASSUME <<Explored(s, e), r>> \notin Least PROVE FALSE
    OBVIOUS
  <2>1. Closed(Least \ {<<e, r>>})
    BY <1>3
  <2>. QED  BY <1>4, <1>5, <1>7, <2>1
<1>8. \A e \in Settled : value[e] = {e.found}
  BY <1>1, <1>3, <1>6
<1>9. \A e \in E \ Settled : value[e] = value[Explored(s, e)]
  BY <1>2, <1>3, <1>7
<1>10. value \in [E -> SUBSET R]
  OBVIOUS
<1>. HIDE DEF value
<1>. QED  BY <1>8, <1>9, <1>10 DEF E, R

\* The search has a result for every table and every stack: an exploration
\* that had none and has visited as many states as such a one can, with as few
\* actions left as it can, would be followed by another one.
LEMMA FindForcedReductionType ==
    ASSUME NEW s, Whole(s)
    PROVE  FindForcedReduction(s) \in Action
<1>. DEFINE IsExplore(f) == f = [e \in Exploration |->
                                   IF e.todo = << >> \/ e.found # NoAction THEN e.found
                                   ELSE f[Explored(s, e)]]
            explore == CHOOSE f : IsExplore(f)
            start == [todo |-> ActionsAt(s.state, 0), seen |-> {s.state}, found |-> NoAction]
<1>1. \E f : IsExplore(f)
  <2>1. PICK value \in [Exploration -> SUBSET Action] :
           /\ \A e \in Settled : value[e] = {e.found}
           /\ \A e \in Exploration \ Settled : value[e] = value[Explored(s, e)]
    BY Outcomes
  <2>. DEFINE f == [e \in Exploration |-> CHOOSE a : a \in value[e]]
  <2>2. \A e \in Exploration \ Settled : Explored(s, e) \in Exploration
    BY ExploredSteps DEF Settled
  <2>3. \A e \in Settled : e \in Exploration /\ f[e] = e.found
    BY <2>1 DEF Settled
  <2>4. \A e \in Exploration \ Settled : f[e] = f[Explored(s, e)]
    BY <2>1, <2>2
  <2>5. f = [e \in Exploration |-> f[e]]
    OBVIOUS
  <2>. HIDE DEF f
  <2>6. \A e \in Exploration : f[e] = IF e.todo = << >> \/ e.found # NoAction THEN e.found
                                     ELSE f[Explored(s, e)]
    BY <2>3, <2>4 DEF Settled
  <2>7. IsExplore(f)
    BY <2>5, <2>6
  <2>. QED  BY <2>7
<1>2. IsExplore(explore)
  BY <1>1
<1>. HIDE DEF explore
<1>3. \A e \in Settled : explore[e] \in Action
  BY <1>2 DEF Settled, Exploration
<1>4. \A e \in Exploration \ Settled : explore[e] = explore[Explored(s, e)]
  BY <1>2 DEF Settled
<1>. HIDE DEF IsExplore
<1>5. \A e \in Exploration : explore[e] \in Action
  <2>. DEFINE Bad == {e \in Exploration : explore[e] \notin Action}
              unseen == [e \in Exploration |-> Cardinality(State \ e.seen)]
  <2>. SUFFICES ASSUME Bad # {} PROVE FALSE
    OBVIOUS
  <2>1. ASSUME NEW e \in Bad
        PROVE  /\ Explored(s, e) \in Bad
               /\ \/ unseen[Explored(s, e)] < unseen[e]
                  \/ /\ unseen[Explored(s, e)] = unseen[e]
                     /\ Len(Explored(s, e).todo) < Len(e.todo)
    <3>1. e \in Exploration /\ e \notin Settled /\ e.todo # << >>
      BY <1>3 DEF Settled
    <3>2. /\ Explored(s, e) \in Exploration
          /\ \/ \E q \in State \ e.seen : Explored(s, e).seen = e.seen \cup {q}
             \/ Explored(s, e).seen = e.seen /\ Len(Explored(s, e).todo) < Len(e.todo)
      BY <3>1, ExploredSteps
    <3>3. Explored(s, e) \in Bad
      BY <1>4, <3>1, <3>2
    <3>4. ASSUME NEW q \in State \ e.seen, Explored(s, e).seen = e.seen \cup {q}
          PROVE  unseen[Explored(s, e)] < unseen[e]
      <4>1. IsFiniteSet(State \ e.seen)
        BY GrammarAssumption, FS_Difference DEF GrammarAssumption
      <4>2. State \ Explored(s, e).seen = (State \ e.seen) \ {q}
        BY <3>4
      <4>3. /\ Cardinality((State \ e.seen) \ {q}) = Cardinality(State \ e.seen) - 1
            /\ Cardinality(State \ e.seen) \in Nat
        BY <3>4, <4>1, FS_RemoveElement, FS_CardinalityType
      <4>4. /\ unseen[Explored(s, e)] = Cardinality(State \ Explored(s, e).seen)
            /\ unseen[e] = Cardinality(State \ e.seen)
        BY <3>1, <3>2
      <4>5. Cardinality(State \ Explored(s, e).seen) = Cardinality((State \ e.seen) \ {q})
        BY <4>2, Zenon
      <4>. HIDE DEF unseen
      <4>. QED  BY <4>3, <4>4, <4>5
    <3>5. Explored(s, e).seen = e.seen => unseen[Explored(s, e)] = unseen[e]
      BY <3>1, <3>2
    <3>. QED  BY <3>2, <3>3, <3>4, <3>5
  <2>2. \A e \in Bad : unseen[e] \in Nat
    BY GrammarAssumption, FS_Difference, FS_CardinalityType DEF GrammarAssumption
  <2>3. \A e \in Bad : Len(e.todo) \in Nat
    BY DEF Exploration
  <2>. HIDE DEF Bad, unseen
  <2>4. PICK e \in Bad : \A d \in Bad : unseen[e] <= unseen[d]
    <3>. DEFINE counts == {unseen[d] : d \in Bad}
    <3>1. counts \in SUBSET Nat /\ counts # {}
      BY <2>2
    <3>2. PICK n \in counts : \A m \in counts : n <= m
      BY <3>1, LeastNumber
    <3>. QED  BY <3>2
  <2>. DEFINE Level == {d \in Bad : unseen[d] = unseen[e]}
  <2>5. PICK d \in Level : \A c \in Level : Len(d.todo) <= Len(c.todo)
    <3>. DEFINE lengths == {Len(c.todo) : c \in Level}
    <3>1. lengths \in SUBSET Nat /\ lengths # {}
      BY <2>3, <2>4
    <3>2. PICK n \in lengths : \A m \in lengths : n <= m
      BY <3>1, LeastNumber
    <3>. QED  BY <3>2
  <2>6. Explored(s, d) \in Level
    BY <2>1, <2>2, <2>4, <2>5
  <2>. QED  BY <2>1, <2>2, <2>3, <2>5, <2>6
<1>6. start \in Exploration
  <2>1. s.state \in State
    BY StackFields
  <2>2. ActionsAt(s.state, 0) \in Seq({a \in Action : Proper(a)} \X Nat)
    BY <2>1, AllActionsType
  <2>. QED  BY <2>1, <2>2 DEF Exploration, NoAction, Action, ActionKind
<1>7. FindForcedReduction(s) = explore[start]
  BY DEF FindForcedReduction, explore, IsExplore
<1>. QED  BY <1>5, <1>6, <1>7

LEMMA ForcedReductionType == ASSUME NEW s, Whole(s) PROVE ForcedReduction(s) \in Action
<1>1. ForcedReduce[s.state] \in Action
  BY StackFields, GrammarAssumption DEF GrammarAssumption
<1>2. NoAction \in Action
  BY DEF NoAction, Action, ActionKind
<1>. QED  BY <1>1, <1>2, FindForcedReductionType DEF ForcedReduction

LEMMA ForceMarkStays == ASSUME NEW s, Whole(s) PROVE Stays(s, ForceMark(s))
<1>1. Stays(s, StoreError(s))
  BY StoreErrorStays
<1>2. Stays(StoreError(s), Penalize(StoreError(s), ReducePenalty))
  BY <1>1, PenalizeStays DEF Stays, ReducePenalty
<1>. QED  BY <1>1, <1>2, StaysTransitive, StaysReflexive DEF ForceMark

LEMMA ForceReduceStays == ASSUME NEW s, Whole(s) PROVE Stays(s, ForceReduce(s))
<1>1. Stays(s, ForceReady(s))
  <2>1. Stays(s, ForceMark(s)) /\ s.position \in Nat
    BY ForceMarkStays, StackFields
  <2>2. Stays(ForceMark(s), ForceReady(s))
    BY <2>1, SetReducePosition DEF ForceReady, Stays
  <2>. QED  BY <2>1, <2>2, StaysTransitive
<1>2. Stays(ForceReady(s), ForceReduce(s))
  BY <1>1, ForcedReductionType, ReduceStays DEF ForceReduce, Stays
<1>. QED  BY <1>1, <1>2, StaysTransitive
=============================================================================
