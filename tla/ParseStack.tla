----------------------------- MODULE ParseStack -----------------------------
(***************************************************************************)
(* One LR/GLR parse stack (rezel-lr/src/stack.rs): a value of Stack and    *)
(* one operator for each of its methods.  A method that can fail leaves    *)
(* its error in the err field; the caller abandons the parse then.         *)
(*                                                                         *)
(* The postfix buffer is the sequence of records of the whole stack: the   *)
(* shared chunks a split froze are its first base records, the local tail  *)
(* is the rest.  Sizes and offsets count records (the code counts u32      *)
(* words, four to a record).                                               *)
(***************************************************************************)
EXTENDS Grammar

CONSTANTS
    MaxStackDepth,         \* ParseLimits::max_stack_depth
    MaxBufferRecords,      \* ParseLimits::max_buffer_records
    MaxNext,               \* RecoveryPolicy::MAX_NEXT
    MaxInsertDepth,        \* RecoveryPolicy::MAX_INSERT_DEPTH
    DampenInsertDepth,     \* RecoveryPolicy::DAMPEN_INSERT_DEPTH
    MinLargeReductionSpan  \* RecoveryPolicy::MIN_LARGE_REDUCTION_SPAN

ASSUME StackAssumption ==
    /\ MaxStackDepth \in Nat
    /\ MaxBufferRecords \in Nat
    /\ MaxNext \in Nat \ {0}
    /\ MaxInsertDepth \in Nat
    /\ DampenInsertDepth \in Nat
    /\ MinLargeReductionSpan \in Nat \ {0}

InsertPenalty == 200
DeletePenalty == 190
ReducePenalty == 100

ParseStart == 0

Frame == [state : State, start : Nat, offset : Nat]
Record == [term : Nat, start : Nat, end : Nat, size : Nat]
StackError == {"none", "depth", "records", "config"}
Stack == [frames : Seq(Frame), state : State, reducePosition : Nat,
          position : Nat, score : Int, buffer : Seq(Record), base : Nat,
          branch : Nat, err : StackError]

Start(top) == [frames |-> << >>, state |-> top.state, reducePosition |-> ParseStart,
          position |-> ParseStart, score |-> 0, buffer |-> << >>, base |-> 0,
          branch |-> 0, err |-> "none"]

Failed(s) == s.err # "none"
Fail(s, e) == IF Failed(s) THEN s ELSE [s EXCEPT !.err = e]

Depth(s) == Len(s.frames)
Top(s) == Len(s.buffer)
BufferLen(s) == Top(s) - s.branch
LastIsError(s) == Top(s) > s.base /\ s.buffer[Top(s)].term = Error

\* Mutant: a frame takes the length of the local tail for its offset.
PushStateLocal(s, state, start) ==
    IF Failed(s) THEN s
    ELSE IF Depth(s) >= MaxStackDepth THEN Fail(s, "depth")
    ELSE [s EXCEPT !.frames = Append(@, [state |-> s.state, start |-> start,
                                         offset |-> Top(s) - s.base]),
                   !.state = state]
PushState(s, state, start) ==
    IF Failed(s) THEN s
    ELSE IF Depth(s) >= MaxStackDepth THEN Fail(s, "depth")
    ELSE [s EXCEPT !.frames = Append(@, [state |-> s.state, start |-> start,
                                         offset |-> Top(s)]),
                   !.state = state]

PushRecord(s, term, start, end, size) ==
    [s EXCEPT !.buffer = Append(@, [term |-> term, start |-> start,
                                    end |-> end, size |-> size])]

\* The number of trailing local records that end after `end`.
\* Mutant: records that end with the node move as well.
TrailingClosed(s, end) ==
    LET run == {k \in 0 .. Top(s) - s.base :
                   \A i \in Top(s) - k + 1 .. Top(s) : s.buffer[i].end >= end}
    IN  CHOOSE k \in run : \A j \in run : j <= k
Trailing(s, end) ==
    LET run == {k \in 0 .. Top(s) - s.base :
                   \A i \in Top(s) - k + 1 .. Top(s) : s.buffer[i].end > end}
    IN  CHOOSE k \in run : \A j \in run : j <= k

\* The size of a node that sinks below moved records.
\* Mutant: it still counts the records above it.
SunkSizeWhole(size, moved) == size
SunkSize(size, moved) == IF size > moved THEN size - moved ELSE 1

\* store_node: an Error joins the Error it follows; a node that must sink goes
\* below the skipped records that lie after its end.
StoreNode(s, term, start, end, size, mustSink) ==
    LET top == Top(s)
        joins == /\ term = Error
                 /\ Depth(s) = 0 \/ s.frames[Depth(s)].offset < top
                 /\ LastIsError(s)
        moved == Trailing(s, end)
        record == [term |-> term, start |-> start, end |-> end,
                   size |-> SunkSize(size, moved)]
    IN  IF Failed(s) THEN s
        ELSE IF top >= MaxBufferRecords THEN Fail(s, "records")
        ELSE IF joins /\ start = end THEN s
        ELSE IF joins /\ s.buffer[top].end >= start
             THEN [s EXCEPT !.buffer[top].end = end]
        ELSE IF mustSink /\ s.position # end /\ ~LastIsError(s) /\ moved > 0
             THEN [s EXCEPT !.buffer = SubSeq(@, 1, top - moved) \o <<record>>
                                         \o SubSeq(@, top - moved + 1, top)]
        ELSE PushRecord(s, term, start, end, size)

\* What recovery costs, where it did not fail.
Penalize(s, penalty) == IF Failed(s) THEN s ELSE [s EXCEPT !.score = @ - penalty]

\* A zero-length error at the stack's position.
StoreError(s) == StoreNode(s, Error, s.position, s.position, 1, TRUE)

\* Mutant: dynamic precedence is not scored.
ScoreNothing(s, term) == s
Score(s, term) ==
    IF term \in DOMAIN DynamicPrecedence
    THEN [s EXCEPT !.score = @ + DynamicPrecedence[term]] ELSE s

IsNode(term) == term < MinRepeatTerm

\* reduce with depth 0: an empty production enters a new frame.
ReduceEmpty(s, term) ==
    LET at == IF IsNode(term) /\ s.reducePosition < s.position
              THEN s.position ELSE s.reducePosition
        goto == GetGoto(s.state, term, TRUE)
        pushed == PushState([Score(s, term) EXCEPT !.reducePosition = at], goto, at)
    IN  IF goto = NoState THEN Fail(s, "config")
        ELSE IF IsNode(term) THEN StoreNode(pushed, term, at, at, 1, TRUE)
        ELSE pushed

\* The frames a reduction keeps, and the start and first record of its node.
StayDepth(a) == IF a.kind = "stayReduce" THEN 2 ELSE 0
KeptFrames(s, a) == Depth(s) - (a.depth - 1) - StayDepth(a)
ReductionStart(s, a) ==
    IF KeptFrames(s, a) = 0 THEN ParseStart ELSE s.frames[KeptFrames(s, a)].start
ReductionOffset(s, a) ==
    IF KeptFrames(s, a) = 0 THEN 0 ELSE s.frames[KeptFrames(s, a)].offset
\* A node that would be empty extends over the skipped text before it.
ReductionPosition(s, a) ==
    IF /\ IsNode(a.value)
       /\ ReductionStart(s, a) = s.reducePosition
       /\ s.reducePosition < s.position
    THEN s.position ELSE s.reducePosition

\* The state after a reduction: the retained one, or the goto of the base.
\* Mutant: the state before the skipped tokens is not restored.
ReductionStateStay(s, a) ==
    LET kept == KeptFrames(s, a)
    IN  IF a.kind = "stayReduce" THEN s.state
        ELSE IF kept = 0 THEN NoState
        ELSE GetGoto(s.frames[kept].state, a.value, TRUE)
ReductionState(s, a) ==
    LET kept == KeptFrames(s, a)
    IN  IF a.kind = "stayReduce"
        THEN IF kept < Depth(s) THEN s.frames[kept + 1].state ELSE NoState
        ELSE IF kept = 0 THEN NoState
        ELSE GetGoto(s.frames[kept].state, a.value, TRUE)

\* The end of a reduction: the frames it covers are gone.
Settle(s, state, kept) ==
    IF Failed(s) THEN s
    ELSE IF state = NoState THEN Fail(s, "config")
    ELSE [s EXCEPT !.state = state, !.frames = SubSeq(@, 1, kept)]

ReduceNode(s, a) ==
    LET kept == KeptFrames(s, a)
        count == Top(s) - ReductionOffset(s, a)
        moved == [Score(s, a.value) EXCEPT !.reducePosition = ReductionPosition(s, a)]
        end == IF s.state \in SkippedState THEN s.position ELSE moved.reducePosition
        stored == IF IsNode(a.value) \/ a.kind = "repeat"
                  THEN StoreNode(moved, a.value, ReductionStart(s, a), end, count + 1, TRUE)
                  ELSE moved
    IN  IF kept < 0 \/ count < 0 THEN Fail(s, "config")
        ELSE Settle(stored, ReductionState(s, a), kept)

Reduce(s, a) ==
    IF Failed(s) THEN s
    ELSE IF a.depth = 0 THEN ReduceEmpty(s, a.value) ELSE ReduceNode(s, a)

\* shift; note that a shifted node is pushed with no record limit.
Shift(s, a, term, start, end) ==
    LET skipped == a.value \in SkippedState
        moved == [s EXCEPT !.position = end,
                           !.reducePosition =
                               IF ~skipped /\ (end > start \/ term <= MaxNode)
                               THEN end ELSE @]
        from == IF skipped \/ start <= moved.reducePosition
                THEN start ELSE moved.reducePosition
        entered == CASE a.kind = "goto" -> PushState(s, a.value, s.position)
                     [] a.kind = "stay" -> [s EXCEPT !.position = end]
                     [] OTHER -> PushState(moved, a.value, from)
    IN  IF a.kind = "goto" \/ Failed(entered) \/ term > MaxNode THEN entered
        ELSE PushRecord(entered, term, start, end, 1)

Apply(s, a, term, start, end) ==
    IF IsReduce(a) THEN Reduce(s, a) ELSE Shift(s, a, term, start, end)

\* split: freeze the records that no later sink or merge may touch.  The value
\* is both the original after the call and the new sibling.
\* Mutant: everything is frozen.
SplitAll(s) == [s EXCEPT !.base = Top(s), !.branch = Top(s)]
Split(s) ==
    LET last == IF LastIsError(s) THEN Top(s) - 1 ELSE Top(s)
        frozen == {k \in s.base .. last :
                      k = s.base \/ s.buffer[k].end <= s.reducePosition}
    IN  [s EXCEPT !.base = CHOOSE k \in frozen : \A j \in frozen : j <= k,
                  !.branch = Top(s)]

RecoverByDelete(s, term, end) ==
    LET isNode == term <= MaxNode
        node == IF isNode THEN StoreNode(s, term, s.position, end, 1, FALSE) ELSE s
        marked == StoreNode(node, Error, s.position, end, IF isNode THEN 2 ELSE 1, FALSE)
    IN  Penalize([marked EXCEPT !.position = end, !.reducePosition = end], DeletePenalty)

\* The <<term, state>> pairs recover_by_insert tries, preferring the states
\* that act on the next token when there are many or the stack is deep.
InsertCandidates(s, next) ==
    LET all == NextStates[s.state]
        acting == {i \in DOMAIN all : all[i][2] # s.state /\ HasAction(all[i][2], next)}
        best == Picked(all, acting)
        rest == Picked(all, DOMAIN all \ acting)
        room == 2 * MaxNext - Len(best)
        fill == IF Depth(s) >= DampenInsertDepth \/ room <= 0 THEN << >>
                ELSE SubSeq(rest, 1, IF room < Len(rest) THEN room ELSE Len(rest))
        chosen == IF Len(all) > 2 * MaxNext \/ Depth(s) >= DampenInsertDepth
                  THEN best \o fill ELSE all
        other == Picked(chosen, {i \in DOMAIN chosen : chosen[i][2] # s.state})
    IN  IF Depth(s) >= MaxInsertDepth THEN << >>
        ELSE SubSeq(other, 1, IF Len(other) < MaxNext THEN Len(other) ELSE MaxNext)

InsertState(s, state) ==
    LET marked == StoreError(PushState(Split(s), state, s.position))
    IN  Penalize([marked EXCEPT !.reducePosition = s.position], InsertPenalty)

\* recover_by_insert: one new stack for each candidate.
InsertAll(s, candidates) ==
    [i \in DOMAIN candidates |-> InsertState(s, candidates[i][2])]
RecoverByInsert(s, next) == InsertAll(s, InsertCandidates(s, next))

\* find_forced_reduction: a depth-first search through the shifts of the state
\* for a reduction that the frames below can take.
Exploration == [todo : Seq({a \in Action : Proper(a)} \X Nat), seen : SUBSET State,
                found : Action]
ActionsAt(state, depth) ==
    [i \in DOMAIN AllActions(state) |-> <<AllActions(state)[i], depth>>]
Reducible(s, term, depth) ==
    /\ depth > 1
    /\ depth <= Depth(s)
    /\ GetGoto(s.frames[Depth(s) - depth + 1].state, term, FALSE) # NoState
Explored(s, e) ==
    LET a == Head(e.todo)[1]
        depth == Head(e.todo)[2]
        rest == [e EXCEPT !.todo = Tail(@)]
    IN  IF a.kind \in {"reduce", "repeat"} /\ Reducible(s, a.value, a.depth - depth)
        THEN [rest EXCEPT !.found = ReduceTo(a.value, a.depth - depth)]
        ELSE IF a.kind = "shift" /\ a.value \notin e.seen
        THEN [rest EXCEPT !.todo = ActionsAt(a.value, depth + 1) \o @,
                          !.seen = @ \cup {a.value}]
        ELSE rest
FindForcedReduction(s) ==
    LET explore[e \in Exploration] ==
          IF e.todo = << >> \/ e.found # NoAction THEN e.found ELSE explore[Explored(s, e)]
    IN  explore[[todo |-> ActionsAt(s.state, 0), seen |-> {s.state}, found |-> NoAction]]

\* The reduction force_reduce takes; NoAction where it returns false.
ForcedIsValid(s) == ValidAction(s.state, ForcedReduce[s.state])
ForcedReduction(s) ==
    LET forced == ForcedReduce[s.state]
        fits == /\ forced.depth \in 1 .. Depth(s)
                /\ GetGoto(s.frames[Depth(s) - forced.depth + 1].state,
                           forced.value, FALSE) # NoState
    IN  IF ~IsReduce(forced) THEN NoAction
        ELSE IF ForcedIsValid(s) \/ fits THEN forced
        ELSE FindForcedReduction(s)

\* What force_reduce does before it counts the action: an error node when the
\* reduction is not one the state allows.
\* Mutant: the penalty without the error node.
ForceMarkSilent(s) ==
    IF ForcedIsValid(s) THEN s ELSE [s EXCEPT !.score = @ - ReducePenalty]
ForceMark(s) ==
    IF ForcedIsValid(s) THEN s
    ELSE Penalize(StoreError(s), ReducePenalty)

\* The stack just before the forced reduction, and after it.
ForceReady(s) == [ForceMark(s) EXCEPT !.reducePosition = s.position]
ForceReduce(s) == Reduce(ForceReady(s), ForcedReduction(s))

DeadEnd(s) ==
    /\ Depth(s) = 1
    /\ ActionRow[s.state] = << >>
    /\ DefaultReduce[s.state] = NoAction

Restart(s) ==
    LET marked == StoreError(s)
    IN  [marked EXCEPT !.state = s.frames[1].state, !.frames = << >>]

SameState(s, t) ==
    /\ s.state = t.state
    /\ Depth(s) = Depth(t)
    /\ \A i \in 1 .. Depth(s) : s.frames[i].state = t.frames[i].state

\* LargeReductionTracker: consecutive large reductions with the same start.
NoLargeReduction == [start |-> -1, size |-> 0, count |-> 0]
ObserveSpan(large, start, size) ==
    IF large.start = start THEN [large EXCEPT !.count = @ + 1, !.size = size]
    ELSE IF large.size < size THEN [start |-> start, size |-> size, count |-> 1]
    ELSE large
Observe(large, s, a) ==
    IF ~IsReduce(a) \/ a.depth = 0 \/ KeptFrames(s, a) < 0 THEN large
    ELSE LET start == ReductionStart(s, a)
             size == ReductionPosition(s, a) - start
         IN  IF size >= MinLargeReductionSpan /\ ~Anonymous(a.value)
             THEN ObserveSpan(large, start, size) ELSE large
=============================================================================
