------------------------------- MODULE Parse -------------------------------
(***************************************************************************)
(* The parse scheduler (rezel-lr/src/parse.rs, struct Parse): a partial    *)
(* parse that a caller drives with advance() and may cut short with        *)
(* stop_at().                                                              *)
(*                                                                         *)
(* One advance() runs Parse::step.  It is split here into one action for   *)
(* each iteration of each of its loops; pc says which loop runs.  The      *)
(* caller acts only between two calls, when pc = "idle".                   *)
(*                                                                         *)
(* Tokenization is what one ordinary token group does on a single selected *)
(* range: every character is one position wide, Lex gives the term of its  *)
(* token (Error where the group declines) and TokenCache is transparent.   *)
(***************************************************************************)
EXTENDS ParseStack

CONSTANTS
    Inputs,              \* the texts a parse may be created for, each with its top rule
    Lex,                 \* Lex[c]: the term of the token c starts, or Error
    MaxStacks,           \* ParseLimits::max_stacks
    MaxActions,          \* ParseLimits::max_actions
    MaxRecoveryActions,  \* ParseLimits::max_recovery_actions
    RecoveryDistance,    \* ParsePolicy::RECOVERY_DISTANCE
    MaxRemaining,        \* ParsePolicy::MAX_REMAINING_STACKS_PER_STEP
    MinBranchLength,     \* ParsePolicy::MIN_BRANCH_BUFFER_LENGTH, in records
    ForceReduceLimit,    \* ParsePolicy::FORCE_REDUCE_LIMIT
    CutDepth, CutToDepth,
    MaxLeftReductions,   \* ParsePolicy::MAX_LEFT_ASSOCIATIVE_REDUCTIONS
    StopPoints,          \* the positions the caller may pass to stop_at
    MaxResults           \* bound: final results the caller asks for

ASSUME ParseAssumption ==
    /\ Inputs \subseteq [text : Seq(DOMAIN Lex), top : TopRule]
    /\ \A c \in DOMAIN Lex : Lex[c] \in Nat
    /\ {RecoveryDistance, MaxRemaining, ForceReduceLimit} \subseteq Nat \ {0}
    /\ {MaxStacks, MaxActions, MaxRecoveryActions, MinBranchLength, MaxLeftReductions} \subseteq Nat
    /\ {CutDepth, CutToDepth, MaxResults} \subseteq Nat
    /\ StopPoints \subseteq Nat

VARIABLES
    input,       \* the text, a sequence of characters, and the top rule of the parser
    stacks,      \* live stacks between two calls
    pending, advanced, stopped,  \* the work lists of one step
    cur,         \* the stack the running loop works on
    mode,        \* whose loop drives cur: a caller of advance_stack
    from,        \* the position that loop must move cur beyond
    choice,      \* the actions of cur's token already given to siblings
    work,        \* locals of the current iteration of run_recovery
    finished,    \* run_recovery's best stack at the end of the input
    restarted,   \* run_recovery has restarted a dead end
    pair,        \* left and right of the loops of prune_equivalent
    pc,
    recovering, stoppedAt, minPosition, actions, recoveryActions, large,
    results,     \* what the calls that ended the parse returned
    tree         \* the stack a tree was built from

call == <<stacks, recovering, stoppedAt, minPosition, actions, recoveryActions, large>>
lists == <<pending, advanced, stopped>>
walk == <<cur, mode, from, choice>>
recovery == <<work, finished, restarted>>
vars == <<input, pc, results, tree, pair, call, lists, walk, recovery>>

\* bump_action and bump_recovery: the first action beyond the limit fails.
\* Mutant: one action too many.
OverBudgetLate(n) == n > MaxActions + 1
OverBudget(n) == n > MaxActions
OverRecovery(n) == n > MaxRecoveryActions

None == << >>  \* no stop point, no stack
End == Len(input.text)
Strict == input.top.strict
FirstStack == Start(input.top)
NoWork == [stack |-> FirstStack, token |-> Error, end |-> 0, forced |-> FirstStack,
           inserts |-> << >>, tries |-> 0]

\* What get_actions finds for a stack: the main token and its actions.
Fallback(s) == IF s.position >= End THEN [value |-> Eof, end |-> s.position]
               ELSE [value |-> Error, end |-> s.position + 1]
TokenAt(s) ==
    IF s.state \in LexingState /\ s.position < End /\ Lex[input.text[s.position + 1]] # Error
    THEN [value |-> Lex[input.text[s.position + 1]], end |-> s.position + 1]
    ELSE Fallback(s)
Choices(s) ==
    IF TokenAt(s).value = Error THEN << >> ELSE ActionsFor(s.state, TokenAt(s).value)

PastStop(s) == stoppedAt # None /\ s.position > stoppedAt[1]

\* push_stack_dedup, prune_equivalent and prune_by_score.
PushDedup(list, s) ==
    LET same == {i \in DOMAIN list : list[i].position = s.position /\ SameState(list[i], s)}
    IN  IF same = {} THEN Append(list, s)
        ELSE LET i == CHOOSE i \in same : \A j \in same : i <= j
             IN  IF list[i].score < s.score THEN [list EXCEPT ![i] = s] ELSE list

FirstPair == [left |-> 1, right |-> 2]
Without(list, i) == SubSeq(list, 1, i - 1) \o SubSeq(list, i + 1, Len(list))
\* Mutant: the LR states are not compared.
RivalsByLengthOnly(s, t) ==
    BufferLen(s) > MinBranchLength /\ BufferLen(t) > MinBranchLength
Rivals(s, t) == \/ SameState(s, t)
                \/ BufferLen(s) > MinBranchLength /\ BufferLen(t) > MinBranchLength
Beats(s, t) == \/ s.score > t.score
               \/ s.score = t.score /\ BufferLen(s) > BufferLen(t)

\* A stable sort by descending score, cut to the maximum.
Rank(list, i) ==
    Cardinality({j \in DOMAIN list : \/ list[j].score > list[i].score
                                     \/ list[j].score = list[i].score /\ j <= i})
PruneByScore(list, maximum) ==
    IF Len(list) <= maximum THEN list
    ELSE [k \in 1 .. maximum |-> list[CHOOSE i \in DOMAIN list : Rank(list, i) = k]]

\* find_finished: the best accepting stack at the end or beyond the stop point.
\* Mutant: the position is not checked.
FinishedAnywhere(s) == s.state \in AcceptingState
Finished(s) == (s.position = End \/ PastStop(s)) /\ s.state \in AcceptingState
FinishedIndices == {i \in DOMAIN stopped : Finished(stopped[i].stack)}
BestFinished ==
    CHOOSE i \in FinishedIndices : \A j \in FinishedIndices :
        \/ stopped[i].stack.score > stopped[j].stack.score
        \/ stopped[i].stack.score = stopped[j].stack.score /\ i <= j
-----------------------------------------------------------------------------
Init ==
    /\ input \in Inputs
    /\ stacks = <<FirstStack>>
    /\ pending = << >> /\ advanced = << >> /\ stopped = << >>
    /\ cur = FirstStack /\ mode = "step" /\ from = 0 /\ choice = 0
    /\ work = NoWork /\ finished = None /\ restarted = FALSE
    /\ pair = FirstPair
    /\ pc = "idle"
    /\ recovering = 0
    /\ stoppedAt = None
    /\ minPosition = ParseStart
    /\ actions = 0
    /\ recoveryActions = 0
    /\ large = NoLargeReduction
    /\ results = << >>
    /\ tree = None

\* A call returns for good: the locals of step are dropped, and the stacks it
\* took are gone.
\* Mutant: the stacks of the step stay live.
ReturnKeepsStacks(result) ==
    /\ results' = Append(results, result)
    /\ pc' = "idle"
    /\ stacks' = [i \in DOMAIN stopped |-> stopped[i].stack]
    /\ pending' = << >> /\ advanced' = << >> /\ stopped' = << >>
    /\ cur' = FirstStack /\ mode' = "step" /\ from' = minPosition /\ choice' = 0
    /\ work' = NoWork /\ finished' = None /\ restarted' = FALSE /\ pair' = FirstPair
    /\ UNCHANGED <<stoppedAt, minPosition>>
Return(result) ==
    /\ results' = Append(results, result)
    /\ pc' = "idle"
    /\ stacks' = << >>
    /\ pending' = << >> /\ advanced' = << >> /\ stopped' = << >>
    /\ cur' = FirstStack /\ mode' = "step" /\ from' = minPosition /\ choice' = 0
    /\ work' = NoWork /\ finished' = None /\ restarted' = FALSE /\ pair' = FirstPair
    /\ UNCHANGED <<stoppedAt, minPosition>>

Abort(result) == Return(result) /\ UNCHANGED tree

\* One counted LR action gives s.  The call is abandoned where that fails and
\* goes on with Then otherwise.
Counted(s, observed, Then) ==
    /\ actions' = actions + 1
    /\ large' = observed
    /\ UNCHANGED <<input, recovering, recoveryActions>>
    /\ IF OverBudget(actions') THEN Abort("budget")
       ELSE IF Failed(s) THEN Abort(s.err)
       ELSE Then

\* cur becomes s, and its loop goes on at label.
Continue(s, label) ==
    /\ cur' = s /\ choice' = 0
    /\ pc' = label
    /\ UNCHANGED <<stacks, stoppedAt, minPosition, results, tree, pair, lists, mode, from, recovery>>
Acted(s, observed, label) == Counted(s, observed, Continue(s, label))

\* force_reduce on s: an error node may fail before the action is counted.
CountedForce(s, Then) ==
    IF Failed(ForceMark(s))
    THEN /\ Abort(ForceMark(s).err)
         /\ UNCHANGED <<input, recovering, recoveryActions, actions, large>>
    ELSE Counted(ForceReduce(s), Observe(large, ForceReady(s), ForcedReduction(s)), Then)

CanForce == ForcedReduction(cur) # NoAction
ForceCur(label) == CountedForce(cur, Continue(ForceReduce(cur), label))

Jump(label) ==
    /\ pc' = label
    /\ UNCHANGED <<input, results, tree, pair, call, lists, walk, recovery>>
-----------------------------------------------------------------------------
(* The caller. *)

\* stop_at accepts an earlier or equal point inside the input; a call it
\* rejects changes nothing.
StopAt(p) ==
    /\ pc = "idle" /\ results = << >>
    /\ stoppedAt # None => p <= stoppedAt[1]
    /\ p <= End
    /\ stoppedAt' = <<p>>
    /\ UNCHANGED <<input, pc, results, tree, pair, stacks, recovering, minPosition,
                   actions, recoveryActions, large, lists, walk, recovery>>

\* advance: a single stack with too many large reductions is forced first.
Advance ==
    /\ pc = "idle" /\ Len(results) < MaxResults
    /\ IF Len(stacks) = 1 /\ large.count > MaxLeftReductions
       THEN /\ pc' = "forceLarge"
            /\ cur' = stacks[1]
            /\ UNCHANGED lists
       ELSE /\ pc' = "pending"
            /\ pending' = stacks
            /\ UNCHANGED <<advanced, stopped, cur>>
    /\ from' = minPosition /\ mode' = "step" /\ choice' = 0
    /\ stacks' = << >>
    /\ UNCHANGED <<input, results, tree, pair, recovering, stoppedAt, minPosition,
                   actions, recoveryActions, large, recovery>>
-----------------------------------------------------------------------------
(* force_large_left_associative_reduction. *)

ForceLarge ==
    /\ pc = "forceLarge" /\ CanForce
    /\ ForceCur("forceLargeCheck")

\* The loop ends at the first frame that starts before the large reduction.
ForceLargeAgain ==
    /\ pc = "forceLargeCheck"
    /\ Depth(cur) > 0 /\ cur.frames[Depth(cur)].start >= large.start
    /\ Jump("forceLarge")

ForceLargeDone ==
    /\ \/ pc = "forceLarge" /\ ~CanForce
       \/ /\ pc = "forceLargeCheck"
          /\ Depth(cur) = 0 \/ cur.frames[Depth(cur)].start < large.start
    /\ large' = [large EXCEPT !.size = 0, !.count = 0]
    /\ pending' = <<cur>>
    /\ pc' = "pending"
    /\ UNCHANGED <<input, results, tree, pair, stacks, recovering, stoppedAt, minPosition,
                   actions, recoveryActions, advanced, stopped, walk, recovery>>
-----------------------------------------------------------------------------
(* The loop of step over pending, and advance_stack. *)

NextPending ==
    /\ pc = "pending" /\ pending # << >>
    /\ cur' = Head(pending)
    /\ pending' = Tail(pending)
    /\ pc' = "advance"
    /\ UNCHANGED <<input, results, tree, pair, call, advanced, stopped, mode, from, choice,
                   recovery>>

\* Mutant: a stack that did not move passes for one that did.
MovedOrLevel ==
    /\ pc = "advance" /\ cur.position >= from
    /\ Jump("moved")
Moved ==
    /\ pc = "advance" /\ cur.position > from
    /\ Jump("moved")

\* Beyond the stop point a stack is only reduced.
\* Mutant: the loop goes on when nothing can be forced.
StopForceSpins ==
    /\ pc = "advance" /\ cur.position <= from /\ PastStop(cur)
    /\ IF CanForce THEN ForceCur("advance") ELSE Jump("advance")
StopForce ==
    /\ pc = "advance" /\ cur.position <= from /\ PastStop(cur)
    /\ IF CanForce THEN ForceCur("advance") ELSE Jump("stuck")

ReduceByDefault ==
    /\ pc = "advance" /\ cur.position <= from /\ ~PastStop(cur)
    /\ LET a == DefaultReduce[cur.state]
       IN  /\ a # NoAction
           /\ Acted(Reduce(cur, a), Observe(large, cur, a), "advance")

\* A stack that is too deep is forced down before its token is read.
\* Mutant: never cut.
StartCutNever ==
    /\ pc = "advance" /\ cur.position <= from /\ ~PastStop(cur)
    /\ DefaultReduce[cur.state] = NoAction
    /\ Jump("choose")
StartCut ==
    /\ pc = "advance" /\ cur.position <= from /\ ~PastStop(cur)
    /\ DefaultReduce[cur.state] = NoAction
    /\ Jump(IF Depth(cur) >= CutDepth THEN "cut" ELSE "choose")

Cut ==
    /\ pc = "cut"
    /\ IF Depth(cur) > CutToDepth /\ CanForce THEN ForceCur("cut") ELSE Jump("choose")

\* No action, or one action, or the last of several: cur itself takes it.  The
\* callers that collect no siblings take the first.
Stuck ==
    /\ pc = "choose" /\ Choices(cur) = << >>
    /\ Jump("stuck")

TakeChoice(i) ==
    LET a == Choices(cur)[i]
        token == TokenAt(cur)
    IN  Acted(Apply(cur, a, token.value, cur.position, token.end),
              Observe(large, cur, a), "advance")

ActAlone ==
    /\ pc = "choose" /\ mode # "step" /\ Choices(cur) # << >>
    /\ TakeChoice(1)

ActLast ==
    /\ pc = "choose" /\ mode = "step" /\ choice + 1 = Len(Choices(cur))
    /\ TakeChoice(choice + 1)

\* Every action but the last goes to a sibling split off cur.
SplitAction ==
    /\ pc = "choose" /\ mode = "step" /\ choice + 1 < Len(Choices(cur))
    /\ LET a == Choices(cur)[choice + 1]
           token == TokenAt(cur)
           whole == Split(cur)
           sibling == Apply(whole, a, token.value, cur.position, token.end)
           ahead == sibling.position > cur.position
       IN  Counted(sibling, Observe(large, whole, a),
                   /\ advanced' = IF ahead THEN Append(advanced, sibling) ELSE advanced
                   /\ pending' = IF ahead THEN pending ELSE Append(pending, sibling)
                   /\ cur' = whole /\ choice' = choice + 1
                   /\ UNCHANGED <<pc, results, tree, pair, stacks, stoppedAt, minPosition,
                                  stopped, mode, from, recovery>>)

\* The two ends of a stack's turn in step.
KeepAdvanced ==
    /\ pc = "moved" /\ mode = "step"
    /\ advanced' = Append(advanced, cur)
    /\ pc' = "pending"
    /\ UNCHANGED <<input, results, tree, pair, call, pending, stopped, walk, recovery>>

KeepStopped ==
    /\ pc = "stuck" /\ mode = "step"
    /\ LET token == IF PastStop(cur) THEN Fallback(cur) ELSE TokenAt(cur)
       IN  stopped' = Append(stopped, [stack |-> cur, token |-> token.value, end |-> token.end])
    /\ pc' = "pending"
    /\ UNCHANGED <<input, results, tree, pair, call, pending, advanced, walk, recovery>>
-----------------------------------------------------------------------------
(* The end of the loop: a finished tree, a strict rejection, recovery. *)

Finish ==
    /\ pc = "pending" /\ pending = << >> /\ advanced = << >>
    /\ FinishedIndices # {}
    /\ tree' = <<stopped[BestFinished].stack>>
    /\ Return("tree")
    /\ UNCHANGED <<input, recovering, actions, recoveryActions, large>>

Reject ==
    /\ pc = "pending" /\ pending = << >> /\ advanced = << >>
    /\ FinishedIndices = {}
    /\ Strict
    /\ Abort("syntax")
    /\ UNCHANGED <<input, recovering, actions, recoveryActions, large>>

\* Mutant: every dry step restarts the recovery window on top of the last.
DecideAdds ==
    /\ pc = "pending" /\ pending = << >>
    /\ advanced = << >> => FinishedIndices = {} /\ ~Strict
    /\ recovering' = IF advanced = << >> THEN recovering + RecoveryDistance ELSE recovering
    /\ pc' = IF recovering' # 0 /\ stopped # << >> THEN "recover" ELSE "prune"
    /\ UNCHANGED <<input, results, tree, pair, stacks, stoppedAt, minPosition, actions,
                   recoveryActions, large, lists, walk, recovery>>
\* Mutant: strict mode is forgotten.
DecideLenient ==
    /\ pc = "pending" /\ pending = << >>
    /\ advanced = << >> => FinishedIndices = {}
    /\ recovering' = IF advanced = << >> /\ recovering = 0
                     THEN RecoveryDistance ELSE recovering
    /\ pc' = IF recovering' # 0 /\ stopped # << >> THEN "recover" ELSE "prune"
    /\ UNCHANGED <<input, results, tree, pair, stacks, stoppedAt, minPosition, actions,
                   recoveryActions, large, lists, walk, recovery>>
Decide ==
    /\ pc = "pending" /\ pending = << >>
    /\ advanced = << >> => FinishedIndices = {} /\ ~Strict
    /\ recovering' = IF advanced = << >> /\ recovering = 0
                     THEN RecoveryDistance ELSE recovering
    /\ pc' = IF recovering' # 0 /\ stopped # << >> THEN "recover" ELSE "prune"
    /\ UNCHANGED <<input, results, tree, pair, stacks, stoppedAt, minPosition, actions,
                   recoveryActions, large, lists, walk, recovery>>
-----------------------------------------------------------------------------
(* run_recovery, one stopped stack at a time. *)

CountRecovery == recoveryActions' = recoveryActions + 1

\* bump_recovery, then a dead end: restarted once, dropped afterwards.
RecoverNext ==
    /\ pc = "recover" /\ stopped # << >>
    /\ CountRecovery
    /\ UNCHANGED <<input, recovering, actions, large>>
    /\ LET entry == Head(stopped)
           again == Restart(entry.stack)
           local == [NoWork EXCEPT !.token = entry.token, !.end = entry.end]
       IN  IF OverRecovery(recoveryActions') THEN Abort("recovery")
           ELSE IF ~DeadEnd(entry.stack)
           THEN /\ work' = [local EXCEPT !.stack = Split(entry.stack),
                                         !.forced = Split(entry.stack)]
                /\ pc' = "force"
                /\ stopped' = Tail(stopped)
                /\ UNCHANGED <<results, tree, pair, stacks, stoppedAt, minPosition, pending,
                               advanced, walk, finished, restarted>>
           ELSE IF restarted
           THEN /\ stopped' = Tail(stopped)
                /\ UNCHANGED <<results, tree, pair, pc, stacks, stoppedAt, minPosition, pending,
                               advanced, walk, recovery>>
           ELSE IF Failed(again) THEN Abort(again.err)
           ELSE /\ restarted' = TRUE
                /\ work' = local
                /\ cur' = again /\ mode' = "restart" /\ from' = again.position
                /\ pc' = "advance"
                /\ stopped' = Tail(stopped)
                /\ UNCHANGED <<choice, results, tree, pair, stacks, stoppedAt, minPosition, pending,
                               advanced, finished>>

\* advance_fully: a stack that moved joins advanced, and the caller goes on.
FullyAdvanced ==
    /\ pc = "moved" /\ mode # "step"
    /\ advanced' = PushDedup(advanced, cur)
    /\ pc' = CASE mode = "restart" -> "recover"
               [] mode = "force" -> "insert"
               [] mode = "insert" -> "inserted"
    /\ work' = IF mode = "force" THEN [work EXCEPT !.forced = cur] ELSE work
    /\ UNCHANGED <<input, results, tree, pair, call, pending, stopped, walk, finished, restarted>>

\* advance_fully got stuck: a restarted stack is recovered like any other, a
\* forced one is forced again, an inserted one is given up.
FullyStuck ==
    /\ pc = "stuck" /\ mode # "step"
    /\ pc' = IF mode = "insert" THEN "inserted" ELSE "force"
    /\ work' = CASE mode = "restart" -> [work EXCEPT !.stack = Split(cur), !.forced = Split(cur)]
                 [] mode = "force" -> [work EXCEPT !.forced = cur]
                 [] mode = "insert" -> work
    /\ UNCHANGED <<input, results, tree, pair, call, lists, walk, finished, restarted>>

\* The forced copy is reduced and advanced, ForceReduceLimit times at most.
ForceStopped ==
    /\ pc = "force" /\ work.tries < ForceReduceLimit
    /\ ForcedReduction(work.forced) # NoAction
    /\ LET s == work.forced
       IN  CountedForce(s,
               /\ cur' = ForceReduce(s) /\ mode' = "force" /\ from' = s.position
               /\ work' = [work EXCEPT !.forced = ForceReduce(s), !.tries = @ + 1]
               /\ pc' = "advance"
               /\ UNCHANGED <<choice, results, tree, pair, stacks, stoppedAt, minPosition, lists,
                              finished, restarted>>)

ForceEnough ==
    /\ pc = "force"
    /\ work.tries = ForceReduceLimit \/ ForcedReduction(work.forced) = NoAction
    /\ Jump("insert")

\* recover_by_insert builds every candidate before the first one is advanced.
TryInserts(inserts) ==
    LET failing == {i \in DOMAIN inserts : Failed(inserts[i])}
        first == CHOOSE i \in failing : \A j \in failing : i <= j
    IN  IF failing # {}
        THEN /\ Abort(inserts[first].err)
             /\ UNCHANGED <<input, recovering, actions, recoveryActions, large>>
        ELSE /\ work' = [work EXCEPT !.inserts = inserts,
                           !.stack = IF inserts = << >> THEN @ ELSE Split(@)]
             /\ pc' = "inserted"
             /\ UNCHANGED <<input, results, tree, pair, call, lists, walk, finished, restarted>>
InsertStopped ==
    /\ pc = "insert"
    /\ TryInserts(RecoverByInsert(work.stack, work.token))

AdvanceInserted ==
    /\ pc = "inserted" /\ work.inserts # << >>
    /\ CountRecovery
    /\ UNCHANGED <<input, recovering, actions, large>>
    /\ IF OverRecovery(recoveryActions') THEN Abort("recovery")
       ELSE /\ cur' = Head(work.inserts) /\ mode' = "insert" /\ from' = cur'.position
            /\ work' = [work EXCEPT !.inserts = Tail(@)]
            /\ pc' = "advance"
            /\ UNCHANGED <<choice, results, tree, pair, stacks, stoppedAt, minPosition, lists,
                           finished, restarted>>

\* Before the end of the input the token is deleted; a token that would not
\* move the stack is replaced by one Error character.
DeleteToken ==
    /\ pc = "inserted" /\ work.inserts = << >> /\ work.stack.position < End
    /\ LET empty == work.end = work.stack.position
           s == RecoverByDelete(work.stack,
                    IF empty THEN Error ELSE work.token,
                    IF empty THEN work.stack.position + 1 ELSE work.end)
       IN  IF Failed(s)
           THEN /\ Abort(s.err)
                /\ UNCHANGED <<input, recovering, actions, recoveryActions, large>>
           ELSE /\ advanced' = PushDedup(advanced, s)
                /\ pc' = "recover"
                /\ UNCHANGED <<input, results, tree, pair, call, pending, stopped, walk, recovery>>

\* At the end of the input the best forced copy finishes the parse.
FinishForced ==
    /\ pc = "inserted" /\ work.inserts = << >> /\ work.stack.position >= End
    /\ finished' = IF finished = None \/ finished[1].score < work.forced.score
                   THEN <<work.forced>> ELSE finished
    /\ pc' = "recover"
    /\ UNCHANGED <<input, results, tree, pair, call, lists, walk, work, restarted>>

RecoverDone ==
    /\ pc = "recover" /\ stopped = << >>
    /\ IF finished = None THEN pc' = "prune" /\ UNCHANGED cur
       ELSE pc' = "forceAll" /\ cur' = finished[1]
    /\ UNCHANGED <<input, results, tree, pair, call, lists, mode, from, choice, recovery>>

\* force_all: down to an accepting state, or an error node where nothing can
\* be forced.
ForceAll ==
    /\ pc = "forceAll" /\ cur.state \notin AcceptingState /\ CanForce
    /\ ForceCur("forceAll")

ForcedTree ==
    /\ pc = "forceAll"
    /\ cur.state \in AcceptingState \/ ~CanForce
    /\ LET s == IF cur.state \in AcceptingState THEN cur ELSE StoreError(cur)
       IN  IF Failed(s) THEN Abort(s.err)
           ELSE tree' = <<s>> /\ Return("tree")
    /\ UNCHANGED <<input, recovering, actions, recoveryActions, large>>
-----------------------------------------------------------------------------
(* The end of step: the survivors become the live stacks.  The two nested  *)
(* loops of prune_equivalent compare pairs left < right in order, and the  *)
(* loser of a rival pair goes.                                             *)

StartPairs ==
    /\ pc = "prune" /\ recovering = 0 /\ Len(advanced) > 1
    /\ pair' = FirstPair
    /\ pc' = "pairs"
    /\ UNCHANGED <<input, results, tree, call, lists, walk, recovery>>

PairsLeft == pc = "pairs" /\ pair.left < Len(advanced)
Left == advanced[pair.left]
Right == advanced[pair.right]
Compared == UNCHANGED <<input, pc, results, tree, call, pending, stopped, walk, recovery>>

NextLeft ==
    /\ PairsLeft /\ pair.right > Len(advanced)
    /\ pair' = [left |-> pair.left + 1, right |-> pair.left + 2]
    /\ UNCHANGED advanced /\ Compared

KeepBoth ==
    /\ PairsLeft /\ pair.right <= Len(advanced) /\ ~Rivals(Left, Right)
    /\ pair' = [pair EXCEPT !.right = @ + 1]
    /\ UNCHANGED advanced /\ Compared

DropRight ==
    /\ PairsLeft /\ pair.right <= Len(advanced) /\ Rivals(Left, Right) /\ Beats(Left, Right)
    /\ advanced' = Without(advanced, pair.right)
    /\ UNCHANGED pair /\ Compared

DropLeft ==
    /\ PairsLeft /\ pair.right <= Len(advanced) /\ Rivals(Left, Right) /\ ~Beats(Left, Right)
    /\ advanced' = Without(advanced, pair.left)
    /\ pair' = [pair EXCEPT !.right = pair.left + 1]
    /\ Compared

Pruned == \/ pc = "prune" /\ (recovering # 0 \/ Len(advanced) <= 1)
          \/ pc = "pairs" /\ ~PairsLeft

Survivors ==
    IF recovering # 0
    THEN PruneByScore(advanced, IF recovering = 1 THEN 1 ELSE recovering * MaxRemaining)
    ELSE IF pc = "pairs" THEN PruneByScore(advanced, MaxStacks)
    ELSE advanced

Progressed == \E i \in DOMAIN Survivors : Survivors[i].reducePosition > minPosition

Prune ==
    /\ Pruned /\ Survivors # << >>
    /\ recovering' = IF recovering # 0 /\ Progressed THEN recovering - 1 ELSE recovering
    /\ stacks' = Survivors
    /\ minPosition' = CHOOSE p \in {Survivors[i].position : i \in DOMAIN Survivors} :
                          \A i \in DOMAIN Survivors : p <= Survivors[i].position
    /\ advanced' = << >> /\ stopped' = << >>
    /\ work' = NoWork /\ restarted' = FALSE /\ pair' = FirstPair
    /\ cur' = FirstStack /\ mode' = "step" /\ from' = minPosition' /\ choice' = 0
    /\ pc' = "idle"
    /\ UNCHANGED <<input, results, tree, stoppedAt, actions, recoveryActions, large,
                   pending, finished>>

NoLiveStack ==
    /\ Pruned /\ Survivors = << >>
    /\ Abort("noLiveStack")
    /\ UNCHANGED <<input, recovering, actions, recoveryActions, large>>
-----------------------------------------------------------------------------
Stop == \E p \in StopPoints : StopAt(p)

LargeReductions == ForceLarge \/ ForceLargeAgain \/ ForceLargeDone

AdvanceStack == \/ Moved \/ StopForce \/ ReduceByDefault \/ StartCut \/ Cut
                \/ Stuck \/ ActAlone \/ ActLast \/ SplitAction

Scheduling == \/ NextPending \/ KeepAdvanced \/ KeepStopped
              \/ Finish \/ Reject \/ Decide \/ Prune \/ NoLiveStack
Pairs == StartPairs \/ NextLeft \/ KeepBoth \/ DropRight \/ DropLeft

Recovery == \/ RecoverNext \/ FullyAdvanced \/ FullyStuck \/ ForceStopped \/ ForceEnough
            \/ InsertStopped \/ AdvanceInserted \/ DeleteToken \/ FinishForced
            \/ RecoverDone \/ ForceAll \/ ForcedTree

Step == LargeReductions \/ AdvanceStack \/ Scheduling \/ Pairs \/ Recovery

\* The caller stops asking after MaxResults final results.
Dropped == pc = "idle" /\ Len(results) = MaxResults /\ UNCHANGED vars

Next == Advance \/ Step \/ Stop \/ Dropped

Spec == Init /\ [][Next]_vars

\* A call runs to its end, and run_to_completion keeps calling.
FairSpec == Spec /\ WF_vars(Advance \/ Step)
=============================================================================
