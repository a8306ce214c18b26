--------------------------- MODULE ScheduleProofs ---------------------------
(***************************************************************************)
(* Theorems of the parse scheduler, for every grammar, input and limit.    *)
(*                                                                         *)
(* First those that rest on the control alone: up to the call that ends    *)
(* the parse, a step goes on or returns (ReturnStep); that call leaves      *)
(* nothing to work on, and the later ones can only find that out            *)
(* (DrainedStep).  Nothing is assumed there of what the operations on a     *)
(* stack compute.                                                          *)
(*                                                                         *)
(* Then those about the stacks it holds: each is well formed, and at a      *)
(* position that its list and the phase of the step determine.             *)
(***************************************************************************)
EXTENDS ParseProperties, ParseStackProofs

\* Nothing is left to work on, and pc can only take the way from Advance to
\* Reject or to NoLiveStack.
Drained ==
    /\ stacks = << >> /\ pending = << >> /\ advanced = << >> /\ stopped = << >>
    /\ pc \in {"idle", "pending", "prune"}
    /\ pc = "prune" => ~Strict

DrainedInv ==
    /\ recovering \in Nat
    /\ \E S : results \in Seq(S)
    /\ Completed => Drained

\* The actions within their limits while the parse goes on.
BudgetInv ==
    /\ DrainedInv
    /\ actions \in Nat /\ recoveryActions \in Nat
    /\ WithinBudget

LateResult == IF Strict THEN "syntax" ELSE "noLiveStack"

GoesOn == /\ results' = results
          /\ actions' \in {actions, actions + 1}
          /\ recoveryActions' \in {recoveryActions, recoveryActions + 1}
          /\ ~OverBudget(actions') \/ actions' = actions
          /\ ~OverRecovery(recoveryActions') \/ recoveryActions' = recoveryActions

Returns == \E r :
    /\ Return(r)
    /\ actions' \in {actions, actions + 1}
    /\ recoveryActions' \in {recoveryActions, recoveryActions + 1}
    /\ OverBudget(actions') => actions' = actions \/ r = "budget"
    /\ OverRecovery(recoveryActions') => recoveryActions' = recoveryActions \/ r = "recovery"
-----------------------------------------------------------------------------
\* A step leaves the results alone, within the limits, or returns from the
\* call; the first action beyond a limit returns with that limit's error.
LEMMA ReturnStep == Next => GoesOn \/ Returns
<1>. SUFFICES ASSUME Next PROVE GoesOn \/ Returns
  OBVIOUS
<1>. USE DEF GoesOn, Returns
<1>1. CASE Advance
  BY <1>1 DEF Advance
<1>2. CASE LargeReductions
  <2>1. CASE ForceLarge
    BY <2>1 DEF ForceLarge, ForceCur, CountedForce, Counted, Continue, Abort
  <2>2. CASE ForceLargeAgain
    BY <2>2 DEF ForceLargeAgain, Jump, call
  <2>3. CASE ForceLargeDone
    BY <2>3 DEF ForceLargeDone
  <2>. QED  BY <1>2, <2>1, <2>2, <2>3 DEF LargeReductions
<1>3. CASE AdvanceStack
  <2>1. CASE Moved \/ StartCut \/ Stuck
    BY <2>1 DEF Moved, StartCut, Stuck, Jump, call
  <2>2. CASE StopForce
    BY <2>2 DEF StopForce, ForceCur, CountedForce, Counted, Continue, Abort, Jump, call
  <2>3. CASE ReduceByDefault
    BY <2>3 DEF ReduceByDefault, Acted, Counted, Continue, Abort
  <2>4. CASE Cut
    BY <2>4 DEF Cut, ForceCur, CountedForce, Counted, Continue, Abort, Jump, call
  <2>5. CASE ActAlone \/ ActLast
    BY <2>5 DEF ActAlone, ActLast, TakeChoice, Acted, Counted, Continue, Abort
  <2>6. CASE SplitAction
    BY <2>6 DEF SplitAction, Counted, Abort
  <2>. QED  BY <1>3, <2>1, <2>2, <2>3, <2>4, <2>5, <2>6 DEF AdvanceStack
<1>4. CASE Scheduling
  <2>1. CASE NextPending \/ KeepAdvanced \/ KeepStopped \/ Decide \/ Prune
    BY <2>1 DEF NextPending, KeepAdvanced, KeepStopped, Decide, Prune, call
  <2>2. CASE Finish \/ Reject \/ NoLiveStack
    BY <2>2 DEF Finish, Reject, NoLiveStack, Abort
  <2>. QED  BY <1>4, <2>1, <2>2 DEF Scheduling
<1>5. CASE Recovery
  <2>1. CASE RecoverNext
    BY <2>1 DEF RecoverNext, CountRecovery, Abort
  <2>2. CASE FullyAdvanced \/ FullyStuck \/ ForceEnough \/ FinishForced \/ RecoverDone
    BY <2>2 DEF FullyAdvanced, FullyStuck, ForceEnough, FinishForced, RecoverDone, Jump, call
  <2>3. CASE ForceStopped
    BY <2>3 DEF ForceStopped, CountedForce, Counted, Abort
  <2>4. CASE InsertStopped \/ DeleteToken
    BY <2>4 DEF InsertStopped, TryInserts, DeleteToken, Abort, call
  <2>5. CASE AdvanceInserted
    BY <2>5 DEF AdvanceInserted, CountRecovery, Abort
  <2>6. CASE ForceAll
    BY <2>6 DEF ForceAll, ForceCur, CountedForce, Counted, Continue, Abort
  <2>7. CASE ForcedTree
    BY <2>7 DEF ForcedTree, Abort
  <2>. QED  BY <1>5, <2>1, <2>2, <2>3, <2>4, <2>5, <2>6, <2>7 DEF Recovery
<1>6. CASE Pairs
  BY <1>6 DEF Pairs, StartPairs, NextLeft, KeepBoth, DropRight, DropLeft, Compared, call
<1>7. CASE Stop
  BY <1>7 DEF Stop, StopAt
<1>8. CASE Dropped
  BY <1>8 DEF Dropped, vars, call
<1>. QED  BY <1>1, <1>2, <1>3, <1>4, <1>5, <1>6, <1>7, <1>8 DEF Next, Step

\* Only Decide and Prune change the recovery distance.
LEMMA RecoveringStep == ASSUME recovering \in Nat, Next PROVE recovering' \in Nat
<1>1. CASE Decide
  BY <1>1, ParseAssumption DEF Decide, ParseAssumption
<1>2. CASE Prune
  BY <1>2 DEF Prune
<1>3. CASE Advance \/ Stop \/ Dropped \/ LargeReductions
  BY <1>3 DEF Advance, Stop, StopAt, Dropped, vars, LargeReductions, ForceLarge,
              ForceLargeAgain, ForceLargeDone, ForceCur, CountedForce, Counted, Jump, call
<1>4. CASE AdvanceStack
  BY <1>4 DEF AdvanceStack, Moved, StopForce, ReduceByDefault, StartCut, Cut, Stuck, ActAlone,
              ActLast, TakeChoice, SplitAction, ForceCur, CountedForce, Acted, Counted, Jump, call
<1>5. CASE NextPending \/ KeepAdvanced \/ KeepStopped \/ Finish \/ Reject \/ NoLiveStack
  BY <1>5 DEF NextPending, KeepAdvanced, KeepStopped, Finish, Reject, NoLiveStack, call
<1>6. CASE Recovery
  BY <1>6 DEF Recovery, RecoverNext, FullyAdvanced, FullyStuck, ForceStopped, ForceEnough,
              InsertStopped, TryInserts, AdvanceInserted, DeleteToken, FinishForced, RecoverDone,
              ForceAll, ForcedTree, ForceCur, CountedForce, Counted, Jump, call
<1>7. CASE Pairs
  BY <1>7 DEF Pairs, StartPairs, NextLeft, KeepBoth, DropRight, DropLeft, Compared, call
<1>. QED  BY <1>1, <1>2, <1>3, <1>4, <1>5, <1>6, <1>7 DEF Next, Step, Scheduling

\* The text and the top rule of a parse are fixed when it is created.
LEMMA InputStep == Next => UNCHANGED input
<1>1. CASE Advance \/ Stop \/ Dropped \/ LargeReductions
  BY <1>1 DEF Advance, Stop, StopAt, Dropped, vars, LargeReductions, ForceLarge,
              ForceLargeAgain, ForceLargeDone, ForceCur, CountedForce, Counted, Jump
<1>2. CASE AdvanceStack
  BY <1>2 DEF AdvanceStack, Moved, StopForce, ReduceByDefault, StartCut, Cut, Stuck, ActAlone,
              ActLast, TakeChoice, SplitAction, ForceCur, CountedForce, Acted, Counted, Jump
<1>3. CASE Scheduling
  BY <1>3 DEF Scheduling, NextPending, KeepAdvanced, KeepStopped, Finish, Reject, Decide,
              Prune, NoLiveStack
<1>4. CASE Recovery
  BY <1>4 DEF Recovery, RecoverNext, FullyAdvanced, FullyStuck, ForceStopped, ForceEnough,
              InsertStopped, TryInserts, AdvanceInserted, DeleteToken, FinishForced, RecoverDone,
              ForceAll, ForcedTree, ForceCur, CountedForce, Counted, Jump
<1>5. CASE Pairs
  BY <1>5 DEF Pairs, StartPairs, NextLeft, KeepBoth, DropRight, DropLeft, Compared
<1>. QED  BY <1>1, <1>2, <1>3, <1>4, <1>5 DEF Next, Step

LEMMA StrictStep == ASSUME [Next]_vars PROVE Strict' = Strict
  BY InputStep DEF Strict, vars

\* What the calls after the one that ended the parse can do.
LEMMA DrainedStep ==
    ASSUME DrainedInv, Completed, Next
    PROVE  /\ Drained'
           /\ UNCHANGED <<actions, recoveryActions>>
           /\ results' = results \/ results' = Append(results, LateResult)
<1>. Drained
  BY DEF DrainedInv
<1>. Strict' = Strict
  BY StrictStep
<1>1. CASE Advance
  BY <1>1 DEF Advance, Drained
<1>2. CASE LargeReductions
  BY <1>2 DEF LargeReductions, ForceLarge, ForceLargeAgain, ForceLargeDone, Drained
<1>3. CASE AdvanceStack
  BY <1>3 DEF AdvanceStack, Moved, StopForce, ReduceByDefault, StartCut, Cut, Stuck, ActAlone,
              ActLast, SplitAction, Drained
<1>4. CASE Recovery
  BY <1>4 DEF Recovery, RecoverNext, FullyAdvanced, FullyStuck, ForceStopped, ForceEnough,
              InsertStopped, TryInserts, AdvanceInserted, DeleteToken, FinishForced, RecoverDone,
              ForceAll, ForcedTree, Drained
<1>5. CASE Scheduling
  <2>1. CASE NextPending \/ KeepAdvanced \/ KeepStopped
    BY <2>1 DEF NextPending, KeepAdvanced, KeepStopped, Drained
  <2>2. CASE Finish
    BY <2>2 DEF Finish, FinishedIndices, Drained
  <2>3. CASE Reject
    BY <2>3 DEF Reject, Abort, Return, Drained, LateResult
  <2>4. CASE Decide
    BY <2>4 DEF Decide, Drained, call, lists
  <2>5. CASE Prune
    <3>. Survivors = << >>
      BY ParseAssumption DEF Survivors, PruneByScore, Drained, DrainedInv, ParseAssumption
    <3>. QED  BY <2>5 DEF Prune
  <2>6. CASE NoLiveStack
    BY <2>6 DEF NoLiveStack, Pruned, Abort, Return, Drained, LateResult
  <2>. QED  BY <1>5, <2>1, <2>2, <2>3, <2>4, <2>5, <2>6 DEF Scheduling
<1>6. CASE Pairs
  BY <1>6 DEF Pairs, StartPairs, PairsLeft, NextLeft, KeepBoth, DropRight, DropLeft, Drained
<1>7. CASE Stop
  BY <1>7 DEF Stop, StopAt, Completed
<1>8. CASE Dropped
  BY <1>8 DEF Dropped, vars, call, lists, Drained
<1>. QED  BY <1>1, <1>2, <1>3, <1>4, <1>5, <1>6, <1>7, <1>8 DEF Next, Step

\* The first return: there is one result, and nothing is left.
LEMMA FirstReturn ==
    ASSUME NEW r, ~Completed, Return(r)
    PROVE  results' = <<r>> /\ Drained'
  BY DEF Completed, Return, Drained

-----------------------------------------------------------------------------
\* The invariant of the calls.
LEMMA DrainedInvariant == ASSUME DrainedInv, [Next]_vars PROVE DrainedInv'
<1>. Strict' = Strict
  BY StrictStep
<1>1. CASE UNCHANGED vars
  BY <1>1 DEF DrainedInv, Drained, Completed, vars, call, lists
<1>2. CASE Next
  <2>1. recovering' \in Nat
    BY <1>2, RecoveringStep DEF DrainedInv
  <2>2. CASE Completed
    <3>1. Drained' /\ (results' = results \/ results' = Append(results, LateResult))
      BY <1>2, <2>2, DrainedStep
    <3>2. PICK S : results \in Seq(S)
      BY DEF DrainedInv
    <3>3. results \in Seq(S \cup {LateResult}) /\ LateResult \in S \cup {LateResult}
      BY <3>2
    <3>4. results' \in Seq(S \cup {LateResult})
      BY <3>1, <3>3
    <3>. QED  BY <2>1, <3>1, <3>4 DEF DrainedInv
  <2>3. CASE ~Completed
    <3>1. CASE results' = results
      BY <2>1, <2>3, <3>1 DEF DrainedInv, Completed
    <3>2. ASSUME NEW r, Return(r) PROVE DrainedInv'
      <4>1. results' = <<r>> /\ Drained'
        BY <2>3, <3>2, FirstReturn
      <4>2. <<r>> \in Seq({r})
        OBVIOUS
      <4>. QED  BY <2>1, <4>1, <4>2 DEF DrainedInv
    <3>. QED  BY <1>2, <3>1, <3>2, ReturnStep DEF GoesOn, Returns
  <2>. QED  BY <2>2, <2>3
<1>. QED  BY <1>1, <1>2

LEMMA DrainedInit == Init => DrainedInv
<1>. SUFFICES ASSUME Init PROVE DrainedInv
  OBVIOUS
<1>1. results = << >> /\ recovering = 0
  BY DEF Init
<1>2. << >> \in Seq({0})
  OBVIOUS
<1>. QED  BY <1>1, <1>2 DEF DrainedInv, Completed

\* A parse that is over is over (step on an empty list of stacks): whatever
\* the grammar, the text and the way the parse ended, every later call returns
\* the syntax error in strict mode and "no live stack" otherwise.
THEOREM OverIsOverTheorem == Spec => []OverIsOver
<1>. DEFINE Inv == DrainedInv /\ OverIsOver
<1>1. Init => Inv
  BY DrainedInit DEF Init, OverIsOver
<1>2. Inv /\ [Next]_vars => Inv'
  <2>. SUFFICES ASSUME Inv, [Next]_vars PROVE OverIsOver'
    BY DrainedInvariant
  <2>. Strict' = Strict
    BY StrictStep
  <2>1. CASE UNCHANGED vars
    BY <2>1 DEF OverIsOver, vars
  <2>2. CASE Next /\ Completed
    <3>1. PICK S : results \in Seq(S)
      BY DEF DrainedInv
    <3>2. results' = results \/ results' = Append(results, LateResult)
      BY <2>2, DrainedStep
    <3>. QED  BY <2>2, <3>1, <3>2 DEF OverIsOver, LateResult
  <2>3. CASE Next /\ ~Completed
    <3>1. results' = << >> \/ \E r : results' = <<r>>
      BY <2>3, ReturnStep, FirstReturn DEF GoesOn, Returns, Completed
    <3>. QED  BY <3>1 DEF OverIsOver
  <2>. QED  BY <2>1, <2>2, <2>3
<1>3. Inv => OverIsOver
  OBVIOUS
<1>. QED  BY <1>1, <1>2, <1>3, PTL DEF Spec

\* The limits on actions (bump_action, bump_recovery): wherever an action is
\* counted, the first one beyond a limit ends the parse with that limit's
\* error, and no call counts another one after it.
THEOREM WithinBudgetTheorem == Spec => []WithinBudget
<1>1. Init => BudgetInv
  BY DrainedInit, ParseAssumption DEF Init, BudgetInv, WithinBudget, ParseAssumption
<1>2. BudgetInv /\ [Next]_vars => BudgetInv'
  <2>. SUFFICES ASSUME BudgetInv, [Next]_vars
                PROVE  (actions \in Nat /\ recoveryActions \in Nat /\ WithinBudget)'
    BY DrainedInvariant DEF BudgetInv
  <2>1. CASE UNCHANGED vars
    BY <2>1 DEF BudgetInv, WithinBudget, Completed, vars, call
  <2>2. CASE Next /\ Completed
    <3>1. PICK S : results \in Seq(S)
      BY DEF BudgetInv, DrainedInv
    <3>2. /\ UNCHANGED <<actions, recoveryActions>>
          /\ results' = results \/ results' = Append(results, LateResult)
      BY <2>2, DrainedStep DEF BudgetInv
    <3>3. results' # << >> /\ results'[1] = results[1]
      BY <2>2, <3>1, <3>2 DEF Completed
    <3>. QED  BY <3>2, <3>3 DEF BudgetInv, WithinBudget, Completed
  <2>3. CASE Next /\ ~Completed
    <3>. MaxActions \in Nat /\ MaxRecoveryActions \in Nat
      BY ParseAssumption DEF ParseAssumption
    <3>. actions \in Nat /\ recoveryActions \in Nat
      BY DEF BudgetInv
    <3>1. actions <= MaxActions /\ recoveryActions <= MaxRecoveryActions
      BY <2>3 DEF BudgetInv, WithinBudget
    <3>2. CASE GoesOn
      <4>1. actions' \in Nat /\ actions' <= MaxActions
        BY <3>1, <3>2 DEF GoesOn, OverBudget
      <4>2. recoveryActions' \in Nat /\ recoveryActions' <= MaxRecoveryActions
        BY <3>1, <3>2 DEF GoesOn, OverRecovery
      <4>. QED  BY <4>1, <4>2 DEF WithinBudget
    <3>3. CASE Returns
      <4>1. PICK r : /\ Return(r)
                     /\ actions' \in {actions, actions + 1}
                     /\ recoveryActions' \in {recoveryActions, recoveryActions + 1}
                     /\ OverBudget(actions') => actions' = actions \/ r = "budget"
                     /\ OverRecovery(recoveryActions') =>
                            recoveryActions' = recoveryActions \/ r = "recovery"
        BY <3>3 DEF Returns
      <4>2. results' = <<r>>
        BY <2>3, <4>1, FirstReturn
      <4>3. /\ actions' \in Nat /\ actions' <= MaxActions + 1
            /\ actions' > MaxActions => r = "budget"
        BY <3>1, <4>1 DEF OverBudget
      <4>4. /\ recoveryActions' \in Nat /\ recoveryActions' <= MaxRecoveryActions + 1
            /\ recoveryActions' > MaxRecoveryActions => r = "recovery"
        BY <3>1, <4>1 DEF OverRecovery
      <4>5. Completed' /\ results'[1] = r
        BY <4>2 DEF Completed
      <4>. QED  BY <4>3, <4>4, <4>5 DEF WithinBudget
    <3>. QED  BY <2>3, <3>2, <3>3, ReturnStep
  <2>. QED  BY <2>1, <2>2, <2>3
<1>3. BudgetInv => WithinBudget
  BY DEF BudgetInv
<1>. QED  BY <1>1, <1>2, <1>3, PTL DEF Spec

-----------------------------------------------------------------------------
(* The stacks.                                                             *)

\* The intact stacks at a position from low to high.
At(low, high) == {s \in Stack : Whole(s) /\ ~Failed(s) /\ s.position \in low .. high}

Anywhere == At(ParseStart, End)
Onward == At(minPosition, End)
Here == At(minPosition, minPosition)
Ahead == At(minPosition + 1, End)
AtEnd == At(End, End)

StoppedEntry == [stack : Here, token : Nat, end : minPosition .. End]
WorkType == [stack : Anywhere, token : Nat, end : Nat, forced : Anywhere,
             inserts : Seq(Anywhere), tries : Nat]

\* The phases: advance_stack works on cur; recovery works on a stopped stack.
Walking == pc \in {"advance", "cut", "choose", "moved", "stuck"}
OnStopped == pc \in {"force", "insert", "inserted"} \/ (Walking /\ mode \in {"force", "insert"})

ControlInv ==
    /\ input \in Inputs
    /\ mode \in {"step", "restart", "force", "insert"}
    /\ pc \in {"idle", "forceLarge", "forceLargeCheck", "pending", "advance", "cut",
               "choose", "moved", "stuck", "recover", "force", "insert", "inserted",
               "forceAll", "prune", "pairs"}
    /\ pc \in {"forceLarge", "forceLargeCheck", "pending"} => mode = "step"
    /\ recovering \in 0 .. RecoveryDistance
    /\ minPosition \in 0 .. End
    /\ from = minPosition /\ choice \in Nat
    /\ stoppedAt = None \/ stoppedAt[1] \in 0 .. End
    /\ pair \in [left : Nat \ {0}, right : Nat] /\ pair.left < pair.right

ListsInv ==
    /\ stacks \in Seq(Onward) /\ (pc # "idle" => stacks = << >>)
    /\ pending \in Seq(Onward)
    /\ pending # << >> => pc = "pending" \/ (Walking /\ mode = "step")
    /\ advanced \in Seq(Ahead)
    /\ stopped \in Seq(StoppedEntry)

CurInv ==
    /\ cur \in Anywhere
    /\ pc \in {"forceLarge", "forceLargeCheck", "advance"} => cur \in Onward
    /\ pc \in {"cut", "choose", "stuck"} => cur \in Here
    /\ pc = "moved" => cur \in Ahead
    /\ pc = "forceAll" => cur \in AtEnd

WorkInv ==
    /\ work \in WorkType
    /\ OnStopped \/ (Walking /\ mode = "restart") => work.end \in minPosition .. End
    /\ OnStopped => work.stack \in Here /\ work.forced \in Onward
    /\ pc = "force" => work.forced \in Here
    /\ pc = "inserted" \/ (Walking /\ mode = "insert") => work.inserts \in Seq(Here)

DoneInv ==
    /\ finished \in Seq(AtEnd)
    /\ tree \in Seq(Anywhere)
    /\ tree # None => Completed
    /\ TreeReachesEnd

ScheduleInv == DrainedInv /\ ControlInv /\ ListsInv /\ CurInv /\ WorkInv /\ DoneInv

\* What all steps but the last of a call leave alone.
Fixed == UNCHANGED <<input, minPosition>>
-----------------------------------------------------------------------------
LEMMA EndType == ASSUME input \in Inputs PROVE End \in Nat
BY ParseAssumption DEF ParseAssumption, End

\* A stack stays in its range where it does not move.
LEMMA AtStays ==
    ASSUME NEW low, NEW high, NEW s \in At(low, high), NEW t, Stays(s, t), ~Failed(t)
    PROVE  t \in At(low, high)
BY DEF At, Stays, Whole

LEMMA AtWhole ==
    ASSUME NEW low, NEW high, NEW s \in At(low, high)
    PROVE  Whole(s) /\ ~Failed(s) /\ s.position \in low .. high
BY DEF At

LEMMA AtPosition ==
    ASSUME NEW low, NEW high, NEW s, Whole(s), ~Failed(s), s.position \in low .. high
    PROVE  s \in At(low, high)
BY DEF At, Whole

\* The ranges are nested.
LEMMA Nested ==
    ASSUME ControlInv
    PROVE  /\ Here \subseteq Onward /\ Ahead \subseteq Onward /\ Onward \subseteq Anywhere
           /\ AtEnd \subseteq Anywhere
           /\ \A s \in Onward : s.position <= minPosition => s \in Here
           /\ \A s \in Onward : s.position > minPosition => s \in Ahead
           /\ \A s \in Here : s.position = minPosition
           /\ \A s \in Onward : minPosition >= End => s \in AtEnd
<1>1. End \in Nat /\ minPosition \in 0 .. End
  BY EndType DEF ControlInv
<1>2. minPosition \in Int
  BY <1>1
<1>. QED  BY <1>1, <1>2 DEF Here, Onward, Ahead, Anywhere, AtEnd, At, ParseStart

LEMMA FirstStackAnywhere == ASSUME input \in Inputs PROVE FirstStack \in Anywhere
<1>1. input.top \in TopRule /\ input.top.state \in State
  BY ParseAssumption, GrammarAssumption DEF ParseAssumption, GrammarAssumption
<1>2. FirstStack \in Stack /\ FirstStack.base = 0 /\ Top(FirstStack) = 0
      /\ FirstStack.position = 0 /\ FirstStack.err = "none"
  BY <1>1 DEF FirstStack, Start, Stack, StackError, ParseStart, Top
<1>. QED  BY <1>2, EndType DEF Anywhere, At, Whole, Failed, ParseStart

LEMMA NoWorkType == ASSUME input \in Inputs PROVE NoWork \in WorkType
BY FirstStackAnywhere DEF NoWork, WorkType, Error

\* The ranges move with minPosition only.
LEMMA RangesFixed ==
    ASSUME Fixed
    PROVE  /\ Anywhere' = Anywhere /\ Onward' = Onward /\ Here' = Here /\ Ahead' = Ahead
           /\ AtEnd' = AtEnd /\ StoppedEntry' = StoppedEntry /\ WorkType' = WorkType
           /\ End' = End
BY DEF Fixed, Anywhere, Onward, Here, Ahead, AtEnd, StoppedEntry, WorkType, End

-----------------------------------------------------------------------------
(* The order by score: a higher score comes first, a lower index on a tie. *)

Before(score, j, i) == \/ score[j] > score[i]
                       \/ score[j] = score[i] /\ j <= i

UpTo(S, score, i) == {j \in S : Before(score, j, i)}

LEMMA ScoreRanks ==
    ASSUME NEW S \in SUBSET Int, IsFiniteSet(S), NEW score \in [S -> Int]
    PROVE  /\ Cardinality(S) \in Nat
           /\ \A i \in S : Cardinality(UpTo(S, score, i)) \in 1 .. Cardinality(S)
           /\ \A i, j \in S :
                 Cardinality(UpTo(S, score, i)) = Cardinality(UpTo(S, score, j)) => i = j
           /\ \A k \in 1 .. Cardinality(S) :
                 \E i \in S : Cardinality(UpTo(S, score, i)) = k
<1>. DEFINE below == [i \in S |-> UpTo(S, score, i)]
<1>1. \A i \in S : i \in Int /\ score[i] \in Int
  OBVIOUS
<1>2. \A i, j \in S : Before(score, i, j) \/ Before(score, j, i)
  BY <1>1 DEF Before
<1>3. \A i, j \in S : Before(score, i, j) /\ Before(score, j, i) => i = j
  BY <1>1 DEF Before
<1>4. \A i, j, k \in S : Before(score, i, j) /\ Before(score, j, k) => Before(score, i, k)
  BY <1>1 DEF Before
<1>5. /\ \A i \in S : i \in below[i] /\ below[i] \subseteq S
      /\ \A i, j \in S : j \in below[i] <=> Before(score, j, i)
  BY <1>2 DEF UpTo
<1>9. \A i \in S : UpTo(S, score, i) = below[i]
  OBVIOUS
<1>. HIDE DEF below
<1>6. \A i, j \in S : below[i] \subseteq below[j] \/ below[j] \subseteq below[i]
  BY <1>2, <1>4, <1>5
<1>7. \A i, j \in S : below[i] = below[j] => i = j
  BY <1>2, <1>3, <1>5
<1>8. /\ Cardinality(S) \in Nat
      /\ \A i \in S : Cardinality(below[i]) \in 1 .. Cardinality(S)
      /\ \A i, j \in S : Cardinality(below[i]) = Cardinality(below[j]) => i = j
      /\ \A k \in 1 .. Cardinality(S) : \E i \in S : Cardinality(below[i]) = k
  BY <1>5, <1>6, <1>7, RankOnto
<1>. QED  BY <1>8, <1>9

\* A finite set that is not empty has a best member.
LEMMA BestExists ==
    ASSUME NEW S \in SUBSET Int, IsFiniteSet(S), S # {}, NEW score \in [S -> Int]
    PROVE  \E i \in S : \A j \in S : Before(score, i, j)
<1>1. /\ Cardinality(S) \in Nat
      /\ \A i \in S : Cardinality(UpTo(S, score, i)) \in 1 .. Cardinality(S)
      /\ \A k \in 1 .. Cardinality(S) : \E i \in S : Cardinality(UpTo(S, score, i)) = k
  BY ScoreRanks
<1>2. PICK i \in S : Cardinality(UpTo(S, score, i)) = 1
  <2>1. 1 \in 1 .. Cardinality(S)
    BY <1>1, FS_EmptySet
  <2>. QED  BY <1>1, <2>1
<1>3. IsFiniteSet(UpTo(S, score, i))
  BY FS_Subset DEF UpTo
<1>4. PICK x : UpTo(S, score, i) = {x}
  BY <1>2, <1>3, FS_Singleton
<1>5. \A j \in S : j \in Int /\ score[j] \in Int
  OBVIOUS
<1>6. Before(score, i, i)
  BY <1>5 DEF Before
<1>7. ASSUME NEW j \in S PROVE Before(score, i, j)
  <2>1. Before(score, i, j) \/ Before(score, j, i)
    BY <1>5 DEF Before
  <2>2. Before(score, j, i) => j = i
    BY <1>4, <1>6 DEF UpTo
  <2>. QED  BY <1>6, <2>1, <2>2
<1>. QED  BY <1>7
-----------------------------------------------------------------------------
(* What a stack reads and takes.                                           *)

\* The token at a stack starts there and ends inside the input.
LEMMA TokenType ==
    ASSUME input \in Inputs, NEW s, s.position \in 0 .. End
    PROVE  /\ TokenAt(s).value \in Nat /\ TokenAt(s).end \in s.position .. End
           /\ Fallback(s).value \in Nat /\ Fallback(s).end \in s.position .. End
<1>1. input.text \in Seq(DOMAIN Lex) /\ End = Len(input.text) /\ End \in Nat
  BY ParseAssumption, EndType DEF ParseAssumption, End
<1>2. MaxNode \in Nat
  BY GrammarAssumption DEF GrammarAssumption
<1>3. Fallback(s).value \in Nat /\ Fallback(s).end \in s.position .. End
  BY <1>1, <1>2 DEF Fallback, Eof, Error
<1>4. ASSUME s.position < End
      PROVE  Lex[input.text[s.position + 1]] \in Nat /\ s.position + 1 \in s.position .. End
  <2>1. s.position + 1 \in 1 .. Len(input.text)
    BY <1>1, <1>4
  <2>2. input.text[s.position + 1] \in DOMAIN Lex
    BY <1>1, <2>1
  <2>3. Lex[input.text[s.position + 1]] \in Nat
    BY <2>2, ParseAssumption DEF ParseAssumption
  <2>. QED  BY <1>1, <1>4, <2>3
<1>. QED  BY <1>3, <1>4 DEF TokenAt

LEMMA ChoicesType ==
    ASSUME NEW s, Whole(s)
    PROVE  /\ Choices(s) \in Seq(Action)
           /\ \A i \in DOMAIN Choices(s) : Choices(s)[i] \in Action /\ Proper(Choices(s)[i])
<1>1. s.state \in State
  BY StackFields
<1>2. CASE TokenAt(s).value = Error
  BY <1>2 DEF Choices
<1>3. CASE TokenAt(s).value # Error
  <2>1. Choices(s) = ActionsFor(s.state, TokenAt(s).value)
    BY <1>3 DEF Choices
  <2>2. /\ Choices(s) \in Seq(Action)
        /\ \A k \in DOMAIN Choices(s) : Choices(s)[k] \in TableActions(s.state)
    BY <1>1, <2>1, ActionsForType
  <2>3. TableActions(s.state) \subseteq {a \in Action : Proper(a)}
    BY <1>1, TableActionsProper
  <2>. QED  BY <2>2, <2>3
<1>. QED  BY <1>2, <1>3

\* A stack that takes one of the actions for its token.
LEMMA TakenAt ==
    ASSUME ControlInv, NEW s, Whole(s), s.position = minPosition,
           NEW i \in DOMAIN Choices(s), NEW from1, Stays(s, from1),
           NEW t, t = Apply(from1, Choices(s)[i], TokenAt(s).value, s.position, TokenAt(s).end),
           ~Failed(t)
    PROVE  t \in Onward
<1>1. minPosition \in 0 .. End /\ End \in Nat /\ input \in Inputs
  BY EndType DEF ControlInv
<1>2. TokenAt(s).value \in Nat /\ TokenAt(s).end \in minPosition .. End
  BY <1>1, TokenType
<1>3. Choices(s)[i] \in Action /\ Proper(Choices(s)[i])
  BY ChoicesType
<1>4. Whole(from1) /\ from1.position = minPosition
  BY DEF Stays
<1>5. TokenAt(s).end \in Nat /\ s.position \in Nat
  BY <1>1, <1>2
<1>6. Whole(t) /\ t.position \in {minPosition, TokenAt(s).end}
  BY <1>2, <1>3, <1>4, <1>5, ApplyMoves
<1>7. t.position \in minPosition .. End
  BY <1>1, <1>2, <1>6
<1>. QED  BY <1>6, <1>7, AtPosition DEF Onward

-----------------------------------------------------------------------------
(* The ways a step goes on.                                                *)

\* A call that ends the parse leaves nothing.
LEMMA ReturnKeeps ==
    ASSUME ScheduleInv, NEW r, Return(r), UNCHANGED <<input, recovering>>,
           DrainedInv',
           UNCHANGED tree
               \/ \E s \in Anywhere : tree' = <<s>> /\ (s.position = End \/ PastStop(s))
    PROVE  ScheduleInv' /\ Completed'
<1>. USE DEF ScheduleInv
<1>1. Fixed
  BY DEF Return, Fixed
<1>2. FirstStack' = FirstStack /\ NoWork' = NoWork
  BY <1>1 DEF Fixed, FirstStack, NoWork
<1>3. ControlInv'
  BY <1>1, RangesFixed DEF ControlInv, Return, Fixed, FirstPair
<1>4. ListsInv'
  BY <1>1, RangesFixed DEF ListsInv, Return
<1>5. CurInv'
  BY <1>1, <1>2, RangesFixed, FirstStackAnywhere DEF CurInv, Return, ControlInv
<1>6. WorkInv'
  BY <1>1, <1>2, RangesFixed, NoWorkType DEF WorkInv, Return, ControlInv, OnStopped, Walking
<1>7. Completed'
  <2>1. PICK S : results \in Seq(S)
    BY DEF DrainedInv
  <2>2. results' # << >>
    BY <2>1 DEF Return
  <2>. QED  BY <2>2 DEF Completed
<1>8. DoneInv'
  <2>1. finished' \in Seq(AtEnd')
    BY DEF Return, None
  <2>2. ASSUME NEW s PROVE PastStop(s)' <=> PastStop(s)
    BY DEF Return, PastStop
  <2>3. CASE UNCHANGED tree
    BY <1>1, <1>7, <2>1, <2>2, <2>3, RangesFixed DEF DoneInv, TreeReachesEnd, PastStop, Return
  <2>4. ASSUME NEW s \in Anywhere, tree' = <<s>>, s.position = End \/ PastStop(s) PROVE DoneInv'
    BY <1>1, <1>7, <2>1, <2>4, RangesFixed DEF DoneInv, TreeReachesEnd, PastStop, Return
  <2>5. CASE \E s \in Anywhere : tree' = <<s>> /\ (s.position = End \/ PastStop(s))
    <3>1. PICK s \in Anywhere : tree' = <<s>> /\ (s.position = End \/ PastStop(s))
      BY <2>5
    <3>. QED  BY <2>4, <3>1
  <2>. QED  BY <2>3, <2>5
<1>. QED  BY <1>3, <1>4, <1>5, <1>6, <1>7, <1>8

\* cur becomes s and its loop goes on, where s is in the range of that loop.
Allowed(s, label) ==
    \/ Walking /\ label = "advance" /\ s \in Onward
    \/ Walking /\ label \in {"cut", "choose", "stuck"} /\ s \in Here
    \/ Walking /\ label = "moved" /\ s \in Ahead
    \/ pc = "forceLarge" /\ label = "forceLargeCheck" /\ s \in Onward
    \/ pc = "forceLargeCheck" /\ label = "forceLarge" /\ s \in Onward
    \/ pc = "forceAll" /\ label = "forceAll" /\ s \in AtEnd

LEMMA AllowedKeeps ==
    ASSUME ScheduleInv, NEW s, NEW label, Allowed(s, label), cur' = s, pc' = label, DrainedInv',
           choice' \in {0, choice},
           UNCHANGED <<input, recovering, stacks, stoppedAt, minPosition, results, tree, pair,
                       lists, mode, from, recovery>>
    PROVE  ScheduleInv'
<1>. USE DEF ScheduleInv
<1>1. Fixed
  BY DEF Fixed
<1>2. ControlInv'
  BY <1>1, RangesFixed DEF ControlInv, Allowed
<1>3. ListsInv'
  BY <1>1, RangesFixed DEF ListsInv, lists, Allowed, Walking
<1>4. s \in Anywhere
  BY Nested DEF Allowed
<1>5. CurInv'
  BY <1>1, <1>4, RangesFixed DEF CurInv, Allowed
<1>6. WorkInv'
  BY <1>1, RangesFixed DEF WorkInv, Allowed, OnStopped, Walking, recovery
<1>7. DoneInv'
  BY <1>1, RangesFixed DEF DoneInv, TreeReachesEnd, PastStop, Completed, recovery
<1>. QED  BY <1>2, <1>3, <1>5, <1>6, <1>7

LEMMA JumpKeeps ==
    ASSUME ScheduleInv, NEW label, Jump(label), Allowed(cur, label), DrainedInv'
    PROVE  ScheduleInv'
BY AllowedKeeps DEF Jump, call, walk

LEMMA ActedKeeps ==
    ASSUME ScheduleInv, NEW s, NEW observed, NEW label, Acted(s, observed, label),
           ~Failed(s) => Allowed(s, label), DrainedInv'
    PROVE  ScheduleInv'
<1>1. UNCHANGED <<input, recovering>>
  BY DEF Acted, Counted
<1>2. CASE \E r : Abort(r)
  BY <1>1, <1>2, ReturnKeeps DEF Abort
<1>3. CASE ~\E r : Abort(r)
  <2>1. Continue(s, label) /\ ~Failed(s)
    BY <1>3 DEF Acted, Counted
  <2>. QED  BY <1>1, <2>1, AllowedKeeps DEF Continue
<1>. QED  BY <1>2, <1>3

LEMMA ForceCurKeeps ==
    ASSUME ScheduleInv, NEW label, ForceCur(label), Allowed(cur, label), DrainedInv'
    PROVE  ScheduleInv'
<1>1. UNCHANGED <<input, recovering>>
  BY DEF ForceCur, CountedForce, Counted
<1>2. CASE \E r : Abort(r)
  BY <1>1, <1>2, ReturnKeeps DEF Abort
<1>3. CASE ~\E r : Abort(r)
  <2>1. Continue(ForceReduce(cur), label) /\ ~Failed(ForceReduce(cur))
    BY <1>3 DEF ForceCur, CountedForce, Counted
  <2>2. Whole(cur) /\ Stays(cur, ForceReduce(cur))
    BY AtWhole, ForceReduceStays DEF ScheduleInv, CurInv, Anywhere
  <2>3. Allowed(ForceReduce(cur), label)
    BY <2>1, <2>2, AtStays DEF Allowed, Onward, Here, Ahead, AtEnd
  <2>. QED  BY <1>1, <2>1, <2>3, AllowedKeeps DEF Continue
<1>. QED  BY <1>2, <1>3
-----------------------------------------------------------------------------
(* The actions.                                                            *)

LEMMA AdvanceStackKeeps == ASSUME ScheduleInv, AdvanceStack, DrainedInv' PROVE ScheduleInv'
<1>. USE DEF ScheduleInv
<1>. DEFINE Level == pc = "advance" /\ cur.position <= from
<1>1. Whole(cur)
  BY AtWhole DEF CurInv, Anywhere
<1>2. Level => Allowed(cur, "advance") /\ Allowed(cur, "stuck") /\ Allowed(cur, "cut")
               /\ Allowed(cur, "choose")
  BY Nested DEF CurInv, ControlInv, Allowed, Walking
<1>3. CASE Moved
  BY <1>3, Nested, JumpKeeps DEF Moved, CurInv, ControlInv, Allowed, Walking
<1>4. CASE StopForce
  BY <1>2, <1>4, JumpKeeps, ForceCurKeeps DEF StopForce
<1>5. CASE ReduceByDefault
  <2>. DEFINE a == DefaultReduce[cur.state]
  <2>1. Acted(Reduce(cur, a), Observe(large, cur, a), "advance")
    BY <1>5 DEF ReduceByDefault
  <2>2. a \in Action
    BY <1>1, StackFields, TableActionsProper
  <2>3. Stays(cur, Reduce(cur, a))
    BY <1>1, <2>2, ReduceStays
  <2>4. pc = "advance" /\ cur \in Onward
    BY <1>5 DEF ReduceByDefault, CurInv
  <2>5. ~Failed(Reduce(cur, a)) => Allowed(Reduce(cur, a), "advance")
    BY <2>3, <2>4, AtStays DEF Allowed, Onward, Walking
  <2>. QED  BY <2>1, <2>5, ActedKeeps
<1>6. CASE StartCut
  BY <1>2, <1>6, JumpKeeps DEF StartCut
<1>7. CASE Cut
  <2>1. Allowed(cur, "cut") /\ Allowed(cur, "choose")
    BY <1>7 DEF Cut, CurInv, Allowed, Walking
  <2>. QED  BY <1>7, <2>1, JumpKeeps, ForceCurKeeps DEF Cut
<1>8. CASE Stuck
  BY <1>8, JumpKeeps DEF Stuck, CurInv, Allowed, Walking
<1>9. ASSUME pc = "choose", NEW i \in DOMAIN Choices(cur), TakeChoice(i) PROVE ScheduleInv'
  <2>. DEFINE a == Choices(cur)[i]
              t == Apply(cur, a, TokenAt(cur).value, cur.position, TokenAt(cur).end)
  <2>1. Acted(t, Observe(large, cur, a), "advance")
    BY <1>9 DEF TakeChoice
  <2>2. cur.position = minPosition
    BY <1>9, Nested DEF CurInv
  <2>3. ~Failed(t) => t \in Onward
    BY <1>1, <2>2, TakenAt, StaysReflexive
  <2>4. ~Failed(t) => Allowed(t, "advance")
    BY <1>9, <2>3 DEF Allowed, Walking
  <2>. QED  BY <2>1, <2>4, ActedKeeps
<1>10. CASE ActAlone
  <2>1. 1 \in DOMAIN Choices(cur)
    BY <1>1, <1>10, ChoicesType DEF ActAlone
  <2>. QED  BY <1>9, <1>10, <2>1 DEF ActAlone
<1>11. CASE ActLast
  <2>1. choice + 1 \in DOMAIN Choices(cur)
    BY <1>1, <1>11, ChoicesType DEF ActLast, ControlInv
  <2>. QED  BY <1>9, <1>11, <2>1 DEF ActLast
<1>12. CASE SplitAction
  <2>. DEFINE a == Choices(cur)[choice + 1]
              whole == Split(cur)
              token == TokenAt(cur)
              sibling == Apply(whole, a, token.value, cur.position, token.end)
              ahead == sibling.position > cur.position
  <2>1. UNCHANGED <<input, recovering>>
    BY <1>12 DEF SplitAction, Counted
  <2>2. CASE \E r : Abort(r)
    BY <2>1, <2>2, ReturnKeeps DEF Abort
  <2>3. CASE ~\E r : Abort(r)
    <3>1. /\ ~Failed(sibling)
          /\ advanced' = IF ahead THEN Append(advanced, sibling) ELSE advanced
          /\ pending' = IF ahead THEN pending ELSE Append(pending, sibling)
          /\ cur' = whole /\ choice' = choice + 1
          /\ UNCHANGED <<pc, results, tree, pair, stacks, stoppedAt, minPosition,
                         stopped, mode, from, recovery>>
      BY <1>12, <2>3 DEF SplitAction, Counted
    <3>2. choice + 1 \in DOMAIN Choices(cur)
      BY <1>1, <1>12, ChoicesType DEF SplitAction, ControlInv
    <3>3. pc = "choose" /\ mode = "step" /\ cur \in Here /\ cur.position = minPosition
      BY <1>12, Nested DEF SplitAction, CurInv
    <3>4. Stays(cur, whole) /\ ~Failed(whole)
      BY <1>1, <3>3, SplitStays, SplitFailed, AtWhole DEF Here
    <3>5. sibling \in Onward
      BY <1>1, <3>1, <3>2, <3>3, <3>4, TakenAt
    <3>6. whole \in Here
      BY <3>3, <3>4, AtStays DEF Here
    <3>7. ahead => sibling \in Ahead
      BY <3>3, <3>5, Nested
    <3>. HIDE DEF sibling, whole, ahead, token, a
    <3>8. Fixed
      BY <2>1, <3>1 DEF Fixed
    <3>9. ControlInv'
      BY <2>1, <3>1, <3>8, RangesFixed DEF ControlInv
    <3>10. ListsInv'
      <4>1. advanced' \in Seq(Ahead) /\ pending' \in Seq(Onward)
        BY <3>1, <3>5, <3>7 DEF ListsInv
      <4>. QED  BY <3>1, <3>3, <3>8, <4>1, RangesFixed DEF ListsInv, Walking
    <3>11. CurInv'
      <4>1. whole \in Anywhere
        BY <3>6, Nested
      <4>. QED  BY <3>1, <3>3, <3>6, <3>8, <4>1, RangesFixed DEF CurInv
    <3>12. WorkInv'
      BY <3>1, <3>8, RangesFixed DEF WorkInv, OnStopped, Walking, recovery
    <3>13. DoneInv'
      BY <3>1, <3>8, RangesFixed DEF DoneInv, TreeReachesEnd, PastStop, Completed, recovery
    <3>. QED  BY <3>9, <3>10, <3>11, <3>12, <3>13
  <2>. QED  BY <2>2, <2>3
<1>. QED  BY <1>3, <1>4, <1>5, <1>6, <1>7, <1>8, <1>10, <1>11, <1>12 DEF AdvanceStack

\* The start of a call, and the loop that forces large reductions.
LEMMA AdvanceKeeps == ASSUME ScheduleInv, Advance, DrainedInv' PROVE ScheduleInv'
<1>. USE DEF ScheduleInv
<1>1. Fixed
  BY DEF Advance, Fixed
<1>2. Len(stacks) = 1 => stacks[1] \in Onward
  <2>1. stacks \in Seq(Onward)
    BY DEF ListsInv
  <2>2. ASSUME Len(stacks) = 1 PROVE 1 \in DOMAIN stacks
    BY <2>1, <2>2
  <2>. QED  BY <2>1, <2>2
<1>3. Onward \subseteq Anywhere
  BY Nested
<1>4. ControlInv'
  BY <1>1, RangesFixed DEF Advance, ControlInv
<1>5. ListsInv'
  BY <1>1, RangesFixed DEF Advance, ListsInv, lists, Walking, walk
<1>6. CurInv'
  BY <1>1, <1>2, <1>3, RangesFixed DEF Advance, CurInv
<1>7. WorkInv'
  BY <1>1, RangesFixed DEF Advance, WorkInv, OnStopped, Walking, recovery
<1>8. DoneInv'
  BY <1>1, RangesFixed DEF Advance, DoneInv, TreeReachesEnd, PastStop, Completed, recovery
<1>. QED  BY <1>4, <1>5, <1>6, <1>7, <1>8

LEMMA LargeReductionsKeeps ==
    ASSUME ScheduleInv, LargeReductions, DrainedInv' PROVE ScheduleInv'
<1>. USE DEF ScheduleInv
<1>1. pc \in {"forceLarge", "forceLargeCheck"} => cur \in Onward
  BY DEF CurInv
<1>2. CASE ForceLarge
  BY <1>1, <1>2, ForceCurKeeps DEF ForceLarge, Allowed
<1>3. CASE ForceLargeAgain
  BY <1>1, <1>3, JumpKeeps DEF ForceLargeAgain, Allowed
<1>4. CASE ForceLargeDone
  <2>1. Fixed
    BY <1>4 DEF ForceLargeDone, Fixed
  <2>2. cur \in Onward
    BY <1>1, <1>4 DEF ForceLargeDone
  <2>3. ControlInv'
    BY <1>4, <2>1, RangesFixed DEF ForceLargeDone, ControlInv, walk
  <2>4. ListsInv'
    <3>1. <<cur>> \in Seq(Onward)
      BY <2>2
    <3>. QED  BY <1>4, <2>1, <3>1, RangesFixed DEF ForceLargeDone, ListsInv
  <2>5. CurInv'
    BY <1>4, <2>1, RangesFixed DEF ForceLargeDone, CurInv, walk
  <2>6. WorkInv'
    BY <1>4, <2>1, RangesFixed DEF ForceLargeDone, WorkInv, OnStopped, Walking, recovery, walk
  <2>7. DoneInv'
    BY <1>4, <2>1, RangesFixed DEF ForceLargeDone, DoneInv, TreeReachesEnd, PastStop,
       Completed, recovery
  <2>. QED  BY <2>3, <2>4, <2>5, <2>6, <2>7
<1>. QED  BY <1>2, <1>3, <1>4 DEF LargeReductions

\* stop_at is accepted while there is no tree.
LEMMA StopKeeps == ASSUME ScheduleInv, Stop, DrainedInv' PROVE ScheduleInv'
<1>. USE DEF ScheduleInv
<1>1. PICK p \in StopPoints : StopAt(p)
  BY DEF Stop
<1>2. Fixed
  BY <1>1 DEF StopAt, Fixed
<1>3. p \in Nat /\ p <= End /\ stoppedAt' = <<p>>
  BY <1>1, ParseAssumption DEF ParseAssumption, StopAt
<1>4. ControlInv'
  <2>1. p \in 0 .. End
    BY <1>3, EndType DEF ControlInv
  <2>. QED  BY <1>1, <1>2, <1>3, <2>1, RangesFixed DEF StopAt, ControlInv, walk
<1>5. ListsInv'
  BY <1>1, <1>2, RangesFixed DEF StopAt, ListsInv, lists, Walking, walk
<1>6. CurInv'
  BY <1>1, <1>2, RangesFixed DEF StopAt, CurInv, walk
<1>7. WorkInv'
  BY <1>1, <1>2, RangesFixed DEF StopAt, WorkInv, OnStopped, Walking, recovery, walk
<1>8. DoneInv'
  BY <1>1, <1>2, RangesFixed DEF StopAt, DoneInv, TreeReachesEnd, Completed, recovery
<1>. QED  BY <1>4, <1>5, <1>6, <1>7, <1>8

\* The loop of step over the pending stacks, and its ends.
LEMMA TurnsKeep ==
    ASSUME ScheduleInv, NextPending \/ KeepAdvanced \/ KeepStopped \/ Decide, DrainedInv'
    PROVE  ScheduleInv'
<1>. USE DEF ScheduleInv
<1>1. Fixed
  BY DEF NextPending, KeepAdvanced, KeepStopped, Decide, Fixed, call
<1>2. UNCHANGED <<stoppedAt, results, tree, recovery, mode, from, choice, stacks>>
  BY DEF NextPending, KeepAdvanced, KeepStopped, Decide, call, walk
<1>3. DoneInv'
  BY <1>1, <1>2, RangesFixed DEF DoneInv, TreeReachesEnd, PastStop, Completed, recovery
<1>4. CASE NextPending
  <2>1. Head(pending) \in Onward /\ Tail(pending) \in Seq(Onward) /\ Onward \subseteq Anywhere
    BY <1>4, Nested DEF NextPending, ListsInv
  <2>2. ControlInv'
    BY <1>1, <1>2, <1>4, RangesFixed DEF NextPending, ControlInv, call
  <2>3. ListsInv'
    BY <1>1, <1>2, <1>4, <2>1, RangesFixed DEF NextPending, ListsInv, ControlInv, Walking
  <2>4. CurInv'
    BY <1>1, <1>4, <2>1, RangesFixed DEF NextPending, CurInv
  <2>5. WorkInv'
    BY <1>1, <1>2, <1>4, RangesFixed DEF NextPending, WorkInv, OnStopped, Walking, recovery,
       ControlInv
  <2>. QED  BY <1>3, <2>2, <2>3, <2>4, <2>5
<1>5. CASE KeepAdvanced
  <2>1. Append(advanced, cur) \in Seq(Ahead)
    BY <1>5 DEF KeepAdvanced, ListsInv, CurInv
  <2>2. ControlInv'
    BY <1>1, <1>2, <1>5, RangesFixed DEF KeepAdvanced, ControlInv, call
  <2>3. ListsInv'
    BY <1>1, <1>2, <1>5, <2>1, RangesFixed DEF KeepAdvanced, ListsInv
  <2>4. CurInv'
    BY <1>1, <1>5, RangesFixed DEF KeepAdvanced, CurInv, walk
  <2>5. WorkInv'
    BY <1>1, <1>2, <1>5, RangesFixed DEF KeepAdvanced, WorkInv, OnStopped, Walking, recovery
  <2>. QED  BY <1>3, <2>2, <2>3, <2>4, <2>5
<1>6. CASE KeepStopped
  <2>. DEFINE token == IF PastStop(cur) THEN Fallback(cur) ELSE TokenAt(cur)
              entry == [stack |-> cur, token |-> token.value, end |-> token.end]
  <2>1. cur \in Here /\ cur.position = minPosition
    BY <1>6, Nested DEF KeepStopped, CurInv
  <2>2. token.value \in Nat /\ token.end \in minPosition .. End
    BY <2>1, TokenType DEF ControlInv
  <2>. HIDE DEF token
  <2>3. Append(stopped, entry) \in Seq(StoppedEntry)
    <3>1. entry \in StoppedEntry
      BY <2>1, <2>2 DEF StoppedEntry
    <3>. QED  BY <3>1 DEF ListsInv
  <2>4. stopped' = Append(stopped, entry)
    BY <1>6 DEF KeepStopped, token
  <2>5. ControlInv'
    BY <1>1, <1>2, <1>6, RangesFixed DEF KeepStopped, ControlInv, call
  <2>6. ListsInv'
    BY <1>1, <1>2, <1>6, <2>3, <2>4, RangesFixed DEF KeepStopped, ListsInv
  <2>7. CurInv'
    BY <1>1, <1>6, RangesFixed DEF KeepStopped, CurInv, walk
  <2>8. WorkInv'
    BY <1>1, <1>2, <1>6, RangesFixed DEF KeepStopped, WorkInv, OnStopped, Walking, recovery
  <2>. QED  BY <1>3, <2>5, <2>6, <2>7, <2>8
<1>7. CASE Decide
  <2>1. recovering' \in 0 .. RecoveryDistance
    BY <1>7, ParseAssumption DEF Decide, ControlInv, ParseAssumption
  <2>2. ControlInv'
    BY <1>1, <1>2, <1>7, <2>1, RangesFixed DEF Decide, ControlInv
  <2>3. ListsInv'
    BY <1>1, <1>2, <1>7, RangesFixed DEF Decide, ListsInv, lists
  <2>4. CurInv'
    BY <1>1, <1>7, RangesFixed DEF Decide, CurInv, walk
  <2>5. WorkInv'
    BY <1>1, <1>2, <1>7, RangesFixed DEF Decide, WorkInv, OnStopped, Walking, recovery
  <2>. QED  BY <1>3, <2>2, <2>3, <2>4, <2>5
<1>. QED  BY <1>4, <1>5, <1>6, <1>7

\* The ends of a parse that step finds.
LEMMA EndsKeep ==
    ASSUME ScheduleInv, Finish \/ Reject \/ NoLiveStack, DrainedInv' PROVE ScheduleInv'
<1>. USE DEF ScheduleInv
<1>1. UNCHANGED <<input, recovering>>
  BY DEF Finish, Reject, NoLiveStack
<1>2. CASE Reject \/ NoLiveStack
  BY <1>1, <1>2, ReturnKeeps DEF Reject, NoLiveStack, Abort
<1>3. CASE Finish
  <2>1. FinishedIndices # {} /\ FinishedIndices \subseteq DOMAIN stopped
    BY <1>3 DEF Finish, FinishedIndices
  <2>2. IsFiniteSet(FinishedIndices)
    <3>1. IsFiniteSet(DOMAIN stopped)
      <4>1. DOMAIN stopped = 1 .. Len(stopped) /\ Len(stopped) \in Nat
        BY DEF ListsInv
      <4>. QED  BY <4>1, FS_Interval
    <3>. QED  BY <2>1, <3>1, FS_Subset
  <2>. DEFINE score == [i \in FinishedIndices |-> stopped[i].stack.score]
  <2>3. FinishedIndices \in SUBSET Int /\ score \in [FinishedIndices -> Int]
    <3>1. \A i \in DOMAIN stopped : i \in Int /\ stopped[i] \in StoppedEntry
      BY DEF ListsInv
    <3>2. \A i \in DOMAIN stopped : stopped[i].stack \in Here
      BY <3>1 DEF StoppedEntry
    <3>3. \A s \in Here : s.score \in Int
      BY AtWhole, StackFields DEF Here
    <3>. QED  BY <2>1, <3>1, <3>2, <3>3
  <2>4. PICK i \in FinishedIndices : \A j \in FinishedIndices : Before(score, i, j)
    <3>. HIDE DEF score
    <3>. QED  BY <2>1, <2>2, <2>3, BestExists
  <2>5. BestFinished \in FinishedIndices
    <3>1. \A j \in FinishedIndices : \/ stopped[i].stack.score > stopped[j].stack.score
                                     \/ stopped[i].stack.score = stopped[j].stack.score /\ i <= j
      BY <2>4 DEF Before
    <3>. QED  BY <3>1 DEF BestFinished
  <2>6. stopped[BestFinished].stack \in Anywhere
    <3>1. stopped[BestFinished] \in StoppedEntry
      BY <2>1, <2>5 DEF ListsInv
    <3>. QED  BY <3>1, Nested DEF StoppedEntry
  <2>7. /\ Return("tree") /\ tree' = <<stopped[BestFinished].stack>>
        /\ \/ stopped[BestFinished].stack.position = End
           \/ PastStop(stopped[BestFinished].stack)
    BY <1>3, <2>5 DEF Finish, FinishedIndices, Finished
  <2>. QED  BY <1>1, <2>6, <2>7, ReturnKeeps
<1>. QED  BY <1>2, <1>3

\* The loops of prune_equivalent only drop stacks.
LEMMA PairsKeep == ASSUME ScheduleInv, Pairs, DrainedInv' PROVE ScheduleInv'
<1>. USE DEF ScheduleInv
<1>1. Fixed /\ UNCHANGED <<call, pending, stopped, walk, recovery, results, tree>>
  BY DEF Pairs, StartPairs, NextLeft, KeepBoth, DropRight, DropLeft, Compared, Fixed, call, lists
<1>2. pc' = "pairs" /\ pc \in {"prune", "pairs"}
  BY DEF Pairs, StartPairs, NextLeft, KeepBoth, DropRight, DropLeft, Compared, PairsLeft
<1>3. advanced' \in Seq(Ahead)
  <2>1. advanced \in Seq(Ahead)
    BY DEF ListsInv
  <2>2. ASSUME NEW i \in 1 .. Len(advanced) PROVE Without(advanced, i) \in Seq(Ahead)
    <3>1. SubSeq(advanced, 1, i - 1) \in Seq(Ahead)
      BY <2>1
    <3>2. SubSeq(advanced, i + 1, Len(advanced)) \in Seq(Ahead)
      BY <2>1
    <3>. QED  BY <3>1, <3>2 DEF Without
  <2>3. CASE UNCHANGED advanced
    BY <2>1, <2>3
  <2>4. CASE DropRight
    <3>1. pair.right \in 1 .. Len(advanced)
      BY <2>1, <2>4 DEF DropRight, ControlInv
    <3>. QED  BY <2>2, <2>4, <3>1 DEF DropRight
  <2>5. CASE DropLeft
    <3>1. pair.left \in 1 .. Len(advanced)
      BY <2>1, <2>5 DEF DropLeft, PairsLeft, ControlInv
    <3>. QED  BY <2>2, <2>5, <3>1 DEF DropLeft
  <2>. QED  BY <2>3, <2>4, <2>5 DEF Pairs, StartPairs, NextLeft, KeepBoth, lists
<1>4. ControlInv'
  <2>1. pair' \in [left : Nat \ {0}, right : Nat] /\ pair'.left < pair'.right
    BY DEF ControlInv, Pairs, StartPairs, NextLeft, KeepBoth, DropRight, DropLeft, FirstPair
  <2>. QED  BY <1>1, <1>2, <2>1, RangesFixed DEF ControlInv, call, walk, Fixed
<1>5. ListsInv'
  BY <1>1, <1>2, <1>3, RangesFixed DEF ListsInv, call, Walking, walk
<1>6. CurInv'
  BY <1>1, <1>2, RangesFixed DEF CurInv, walk
<1>7. WorkInv'
  BY <1>1, <1>2, RangesFixed DEF WorkInv, OnStopped, Walking, recovery, walk
<1>8. DoneInv'
  BY <1>1, RangesFixed DEF DoneInv, TreeReachesEnd, PastStop, Completed, recovery, call
<1>. QED  BY <1>4, <1>5, <1>6, <1>7, <1>8

-----------------------------------------------------------------------------
(* run_recovery.                                                           *)

LEMMA PushDedupAhead ==
    ASSUME NEW list \in Seq(Ahead), NEW s \in Ahead PROVE PushDedup(list, s) \in Seq(Ahead)
<1>. DEFINE same == {i \in DOMAIN list : list[i].position = s.position /\ SameState(list[i], s)}
            i == CHOOSE i \in same : \A j \in same : i <= j
<1>1. Append(list, s) \in Seq(Ahead)
  OBVIOUS
<1>2. ASSUME NEW k \in DOMAIN list PROVE [list EXCEPT ![k] = s] \in Seq(Ahead)
  OBVIOUS
<1>3. same # {} => i \in DOMAIN list
  <2>1. ASSUME same # {} PROVE i \in same
    <3>1. DOMAIN list = 1 .. Len(list) /\ Len(list) \in Nat
      OBVIOUS
    <3>2. same \in SUBSET Nat
      BY <3>1
    <3>. HIDE DEF same
    <3>. QED  BY <2>1, <3>2, LeastNumber
  <2>. QED  BY <2>1
<1>4. PushDedup(list, s) = IF same = {} THEN Append(list, s)
                           ELSE IF list[i].score < s.score THEN [list EXCEPT ![i] = s] ELSE list
  BY DEF PushDedup
<1>. HIDE DEF same
<1>. QED  BY <1>1, <1>2, <1>3, <1>4

\* Recovery takes the next stopped stack.
LEMMA RecoverNextKeeps == ASSUME ScheduleInv, RecoverNext, DrainedInv' PROVE ScheduleInv'
<1>. USE DEF ScheduleInv
<1>. DEFINE entry == Head(stopped)
            again == Restart(entry.stack)
            local == [NoWork EXCEPT !.token = entry.token, !.end = entry.end]
            chosen == [local EXCEPT !.stack = Split(entry.stack), !.forced = Split(entry.stack)]
<1>1. UNCHANGED <<input, recovering>>
  BY DEF RecoverNext
<1>2. CASE \E r : Abort(r)
  BY <1>1, <1>2, ReturnKeeps DEF Abort
<1>3. CASE ~\E r : Abort(r)
  <2>1. entry \in StoppedEntry /\ Tail(stopped) \in Seq(StoppedEntry)
    BY DEF ListsInv, RecoverNext
  <2>2. Whole(entry.stack) /\ ~Failed(entry.stack) /\ entry.stack \in Here
    BY <2>1, AtWhole DEF StoppedEntry, Here
  <2>3. entry.token \in Nat /\ entry.end \in minPosition .. End /\ minPosition \in Nat
    BY <2>1 DEF StoppedEntry, ControlInv
  <2>4. Split(entry.stack) \in Here
    BY <2>2, SplitStays, SplitFailed, AtStays DEF Here
  <2>5. NoWork \in WorkType
    BY NoWorkType DEF ControlInv
  <2>6. Here \subseteq Onward /\ Onward \subseteq Anywhere
    BY Nested
  <2>7. local \in WorkType /\ local.end \in minPosition .. End
    <3>1. entry.end \in Nat
      BY <2>3
    <3>. QED  BY <2>3, <2>5, <3>1 DEF WorkType
  <2>8. chosen \in WorkType /\ chosen.end \in minPosition .. End /\ chosen.stack \in Here
        /\ chosen.forced \in Here
    BY <2>4, <2>6, <2>7 DEF WorkType
  <2>9. Depth(entry.stack) = 1 => Stays(entry.stack, again)
    BY <2>2, RestartStays
  <2>. HIDE DEF local, chosen
  <2>10. /\ pc = "recover" /\ stopped' = Tail(stopped)
         /\ UNCHANGED <<results, tree, pair, stacks, stoppedAt, minPosition, pending, advanced,
                        finished, choice>>
         /\ \/ pc' = "force" /\ work' = chosen /\ UNCHANGED <<cur, mode, from>>
            \/ UNCHANGED <<pc, work, cur, mode, from>>
            \/ /\ pc' = "advance" /\ work' = local /\ cur' = again /\ mode' = "restart"
               /\ from' = again.position /\ DeadEnd(entry.stack) /\ ~Failed(again)
    BY <1>3 DEF RecoverNext, walk, recovery, local, chosen
  <2>11. Fixed
    BY <1>1, <2>10 DEF Fixed
  <2>12. CASE pc' = "force" /\ work' = chosen /\ UNCHANGED <<cur, mode, from>>
    <3>1. ControlInv'
      BY <1>1, <2>10, <2>11, <2>12, RangesFixed DEF ControlInv, Fixed
    <3>2. ListsInv'
      BY <2>1, <2>10, <2>11, <2>12, RangesFixed DEF ListsInv, Fixed, Walking, walk
    <3>3. CurInv'
      BY <2>10, <2>11, <2>12, RangesFixed DEF CurInv
    <3>4. WorkInv'
      BY <2>6, <2>8, <2>10, <2>11, <2>12, RangesFixed DEF WorkInv, OnStopped, Walking, Fixed
    <3>5. DoneInv'
      BY <2>10, <2>11, RangesFixed DEF DoneInv, TreeReachesEnd, PastStop, Completed
    <3>. QED  BY <3>1, <3>2, <3>3, <3>4, <3>5
  <2>13. CASE UNCHANGED <<pc, work, cur, mode, from>>
    <3>1. ControlInv'
      BY <1>1, <2>10, <2>11, <2>13, RangesFixed DEF ControlInv, Fixed
    <3>2. ListsInv'
      BY <2>1, <2>10, <2>11, <2>13, RangesFixed DEF ListsInv, Fixed, Walking, walk
    <3>3. CurInv'
      BY <2>10, <2>11, <2>13, RangesFixed DEF CurInv
    <3>4. WorkInv'
      BY <2>10, <2>11, <2>13, RangesFixed DEF WorkInv, OnStopped, Walking, Fixed
    <3>5. DoneInv'
      BY <2>10, <2>11, RangesFixed DEF DoneInv, TreeReachesEnd, PastStop, Completed
    <3>. QED  BY <3>1, <3>2, <3>3, <3>4, <3>5
  <2>14. CASE /\ pc' = "advance" /\ work' = local /\ cur' = again /\ mode' = "restart"
              /\ from' = again.position /\ DeadEnd(entry.stack) /\ ~Failed(again)
    <3>1. again \in Here
      BY <2>2, <2>9, <2>14, AtStays DEF DeadEnd, Here
    <3>. HIDE DEF again
    <3>2. again.position = minPosition /\ again \in Onward /\ again \in Anywhere
      BY <2>6, <3>1, Nested
    <3>3. ControlInv'
      BY <1>1, <2>10, <2>11, <2>14, <3>2, RangesFixed DEF ControlInv, Fixed
    <3>4. ListsInv'
      BY <2>1, <2>10, <2>11, <2>14, RangesFixed DEF ListsInv, Fixed, Walking, walk
    <3>5. CurInv'
      BY <2>10, <2>11, <2>14, <3>2, RangesFixed DEF CurInv
    <3>6. WorkInv'
      BY <2>7, <2>10, <2>11, <2>14, RangesFixed DEF WorkInv, OnStopped, Walking, Fixed
    <3>7. DoneInv'
      BY <2>10, <2>11, RangesFixed DEF DoneInv, TreeReachesEnd, PastStop, Completed
    <3>. QED  BY <3>3, <3>4, <3>5, <3>6, <3>7
  <2>. QED  BY <2>10, <2>12, <2>13, <2>14
<1>. QED  BY <1>2, <1>3

\* The stacks that recovery advances move or stop.
LEMMA FullyKeeps == ASSUME ScheduleInv, FullyAdvanced \/ FullyStuck, DrainedInv' PROVE ScheduleInv'
<1>. USE DEF ScheduleInv
<1>1. Fixed /\ UNCHANGED <<tree, pair, call, pending, stopped, cur, mode, from, choice, results,
                           finished>>
  BY DEF FullyAdvanced, FullyStuck, Fixed, call, walk, lists
<1>2. mode \in {"restart", "force", "insert"}
  BY DEF FullyAdvanced, FullyStuck, ControlInv
<1>3. Here \subseteq Onward /\ Ahead \subseteq Onward /\ Onward \subseteq Anywhere
  BY Nested
<1>4. DoneInv'
  BY <1>1, RangesFixed DEF DoneInv, TreeReachesEnd, PastStop, Completed, call
<1>5. CASE FullyAdvanced
  <2>1. cur \in Ahead /\ pc = "moved"
    BY <1>5 DEF FullyAdvanced, CurInv
  <2>2. /\ pc' = (IF mode = "restart" THEN "recover" ELSE IF mode = "force" THEN "insert"
                  ELSE "inserted")
        /\ work' = (IF mode = "force" THEN [work EXCEPT !.forced = cur] ELSE work)
        /\ advanced' = PushDedup(advanced, cur)
    BY <1>2, <1>5 DEF FullyAdvanced
  <2>3. advanced' \in Seq(Ahead)
    BY <2>1, <2>2, PushDedupAhead DEF ListsInv
  <2>4. ControlInv'
    BY <1>1, <1>2, <2>2, RangesFixed DEF ControlInv, Fixed, call
  <2>5. ListsInv'
    BY <1>1, <1>2, <2>1, <2>2, <2>3, RangesFixed DEF ListsInv, Fixed, call, Walking
  <2>6. CurInv'
    BY <1>1, <2>2, RangesFixed DEF CurInv
  <2>7. WorkInv'
    <3>1. work \in WorkType /\ [work EXCEPT !.forced = cur] \in WorkType
      BY <1>3, <2>1 DEF WorkInv, WorkType
    <3>2. mode = "force" => work'.forced = cur
      BY <2>2, <3>1 DEF WorkType
    <3>3. work'.end = work.end /\ work'.stack = work.stack /\ work'.inserts = work.inserts
      BY <2>2, <3>1 DEF WorkType
    <3>. QED  BY <1>1, <1>2, <1>3, <2>1, <2>2, <3>1, <3>2, <3>3, RangesFixed
              DEF WorkInv, OnStopped, Walking, Fixed
  <2>. QED  BY <1>4, <2>4, <2>5, <2>6, <2>7
<1>6. CASE FullyStuck
  <2>. DEFINE split == [work EXCEPT !.stack = Split(cur), !.forced = Split(cur)]
              forced == [work EXCEPT !.forced = cur]
  <2>1. cur \in Here /\ pc = "stuck"
    BY <1>6 DEF FullyStuck, CurInv
  <2>2. Split(cur) \in Here
    BY <2>1, AtWhole, SplitStays, SplitFailed, AtStays DEF Here
  <2>3. /\ pc' = (IF mode = "insert" THEN "inserted" ELSE "force")
        /\ work' = (IF mode = "restart" THEN split ELSE IF mode = "force" THEN forced ELSE work)
        /\ UNCHANGED advanced
    BY <1>2, <1>6 DEF FullyStuck, lists
  <2>4. work \in WorkType /\ split \in WorkType /\ forced \in WorkType
    BY <1>3, <2>1, <2>2 DEF WorkInv, WorkType
  <2>5. /\ split.end = work.end /\ split.stack = Split(cur) /\ split.forced = Split(cur)
        /\ forced.end = work.end /\ forced.stack = work.stack /\ forced.forced = cur
    BY <2>4 DEF WorkType
  <2>. HIDE DEF split, forced
  <2>6. ControlInv'
    BY <1>1, <1>2, <2>3, RangesFixed DEF ControlInv, Fixed, call
  <2>7. ListsInv'
    BY <1>1, <1>2, <2>1, <2>3, RangesFixed DEF ListsInv, Fixed, call, Walking
  <2>8. CurInv'
    BY <1>1, <2>3, RangesFixed DEF CurInv
  <2>9. WorkInv'
    BY <1>1, <1>2, <1>3, <2>1, <2>2, <2>3, <2>4, <2>5, RangesFixed
    DEF WorkInv, OnStopped, Walking, Fixed
  <2>. QED  BY <1>4, <2>6, <2>7, <2>8, <2>9
<1>. QED  BY <1>5, <1>6

\* The forced copy of a stopped stack.
LEMMA ForceStoppedKeeps ==
    ASSUME ScheduleInv, ForceStopped \/ ForceEnough, DrainedInv' PROVE ScheduleInv'
<1>. USE DEF ScheduleInv
<1>. DEFINE s == work.forced
            next == ForceReduce(s)
            tried == [work EXCEPT !.forced = next, !.tries = @ + 1]
<1>1. UNCHANGED <<input, recovering>>
  BY DEF ForceStopped, CountedForce, Counted, ForceEnough, Jump, call
<1>2. CASE \E r : Abort(r)
  BY <1>1, <1>2, ReturnKeeps DEF Abort
<1>3. CASE ForceEnough
  <2>1. Fixed /\ pc = "force" /\ pc' = "insert"
    BY <1>1, <1>3 DEF ForceEnough, Jump, call, Fixed
  <2>2. UNCHANGED <<results, tree, pair, call, lists, walk, recovery>>
    BY <1>3 DEF ForceEnough, Jump
  <2>3. ControlInv' /\ ListsInv' /\ CurInv'
    BY <2>1, <2>2, RangesFixed DEF ControlInv, ListsInv, CurInv, call, lists, walk, Fixed, Walking
  <2>4. WorkInv'
    BY <2>1, <2>2, RangesFixed DEF WorkInv, OnStopped, Walking, recovery, walk, Fixed
  <2>5. DoneInv'
    BY <2>1, <2>2, RangesFixed DEF DoneInv, TreeReachesEnd, PastStop, Completed, recovery, call
  <2>. QED  BY <2>3, <2>4, <2>5
<1>4. CASE ForceStopped /\ ~\E r : Abort(r)
  <2>1. /\ pc = "force" /\ pc' = "advance"
        /\ ~Failed(next)
        /\ cur' = next /\ mode' = "force" /\ from' = s.position
        /\ work' = tried
        /\ UNCHANGED <<choice, results, tree, pair, stacks, stoppedAt, minPosition, lists,
                       finished, restarted>>
    BY <1>4 DEF ForceStopped, CountedForce, Counted
  <2>2. s \in Here
    BY <2>1 DEF WorkInv
  <2>3. next \in Here
    BY <2>1, <2>2, AtWhole, ForceReduceStays, AtStays DEF Here
  <2>4. s.position = minPosition /\ next \in Onward /\ next \in Anywhere
    BY <2>2, <2>3, Nested
  <2>5. tried \in WorkType /\ tried.end = work.end /\ tried.stack = work.stack
        /\ tried.forced = next
    <3>1. work \in WorkType /\ work.tries + 1 \in Nat
      BY DEF WorkInv, WorkType
    <3>. HIDE DEF next
    <3>. QED  BY <2>4, <3>1 DEF WorkType
  <2>6. Fixed
    BY <1>1, <2>1 DEF Fixed
  <2>. HIDE DEF tried, next, s
  <2>7. ControlInv'
    BY <1>1, <2>1, <2>4, <2>6, RangesFixed DEF ControlInv, Fixed
  <2>8. ListsInv'
    BY <2>1, <2>6, RangesFixed DEF ListsInv, Fixed, lists, Walking, walk
  <2>9. CurInv'
    BY <2>1, <2>4, <2>6, RangesFixed DEF CurInv
  <2>10. WorkInv'
    BY <2>1, <2>4, <2>5, <2>6, RangesFixed DEF WorkInv, OnStopped, Walking, Fixed
  <2>11. DoneInv'
    BY <2>1, <2>6, RangesFixed DEF DoneInv, TreeReachesEnd, PastStop, Completed
  <2>. QED  BY <2>7, <2>8, <2>9, <2>10, <2>11
<1>. QED  BY <1>2, <1>3, <1>4

\* The inserted stacks, all built before the first is advanced.
LEMMA InsertsKeep ==
    ASSUME ScheduleInv, InsertStopped \/ AdvanceInserted, DrainedInv' PROVE ScheduleInv'
<1>. USE DEF ScheduleInv
<1>1. UNCHANGED <<input, recovering>>
  BY DEF InsertStopped, TryInserts, AdvanceInserted, call
<1>2. CASE \E r : Abort(r)
  BY <1>1, <1>2, ReturnKeeps DEF Abort
<1>3. CASE InsertStopped /\ ~\E r : Abort(r)
  <2>. DEFINE stays == RecoverByInsert(work.stack, work.token)
              tried == [work EXCEPT !.inserts = stays,
                                    !.stack = IF stays = << >> THEN @ ELSE Split(@)]
  <2>1. /\ pc = "insert" /\ pc' = "inserted" /\ work' = tried
        /\ \A i \in DOMAIN stays : ~Failed(stays[i])
        /\ UNCHANGED <<input, results, tree, pair, call, lists, walk, finished, restarted>>
    BY <1>3 DEF InsertStopped, TryInserts
  <2>2. work \in WorkType /\ work.stack \in Here /\ Whole(work.stack) /\ ~Failed(work.stack)
    BY <2>1, AtWhole DEF WorkInv, OnStopped, Here
  <2>3. stays \in Seq(Here)
    <3>1. PICK n \in Nat : /\ DOMAIN stays = 1 .. n
                           /\ stays = [i \in 1 .. n |-> stays[i]]
                           /\ \A i \in 1 .. n : Stays(work.stack, stays[i])
      BY <2>2, RecoverByInsertStays
    <3>2. \A i \in 1 .. n : stays[i] \in Here
      BY <2>1, <2>2, <3>1, AtStays DEF Here
    <3>. HIDE DEF stays
    <3>3. [i \in 1 .. n |-> stays[i]] \in Seq(Here)
      BY <3>2
    <3>. QED  BY <3>1, <3>3
  <2>4. Split(work.stack) \in Here
    BY <2>2, SplitStays, SplitFailed, AtStays DEF Here
  <2>5. Here \subseteq Onward /\ Onward \subseteq Anywhere
    BY Nested
  <2>. HIDE DEF stays
  <2>6. tried \in WorkType
    <3>1. Split(work.stack) \in Anywhere /\ stays \in Seq(Anywhere)
      BY <2>3, <2>4, <2>5
    <3>. QED  BY <2>2, <3>1 DEF WorkType
  <2>7. /\ tried.end = work.end /\ tried.forced = work.forced /\ tried.inserts = stays
        /\ tried.stack \in Here
    BY <2>2, <2>4 DEF WorkType
  <2>8. Fixed
    BY <2>1 DEF Fixed, call
  <2>. HIDE DEF tried
  <2>9. ControlInv' /\ ListsInv' /\ CurInv'
    BY <2>1, <2>8, RangesFixed DEF ControlInv, ListsInv, CurInv, call, lists, walk, Walking
  <2>10. WorkInv'
    BY <2>1, <2>3, <2>6, <2>7, <2>8, RangesFixed DEF WorkInv, OnStopped, Walking, Fixed, walk
  <2>11. DoneInv'
    BY <2>1, <2>8, RangesFixed DEF DoneInv, TreeReachesEnd, PastStop, Completed, call
  <2>. QED  BY <2>9, <2>10, <2>11
<1>4. CASE AdvanceInserted /\ ~\E r : Abort(r)
  <2>. DEFINE tried == [work EXCEPT !.inserts = Tail(@)]
              next == Head(work.inserts)
  <2>1. /\ pc = "inserted" /\ pc' = "advance" /\ work.inserts # << >>
        /\ cur' = next /\ mode' = "insert" /\ from' = cur'.position
        /\ work' = tried
        /\ UNCHANGED <<choice, results, tree, pair, stacks, stoppedAt, minPosition, lists,
                       finished, restarted>>
    BY <1>4 DEF AdvanceInserted
  <2>2. work \in WorkType /\ work.inserts \in Seq(Here)
    BY <2>1 DEF WorkInv
  <2>3. next \in Here /\ Tail(work.inserts) \in Seq(Here)
    BY <2>1, <2>2
  <2>4. next.position = minPosition /\ next \in Onward /\ next \in Anywhere
    BY <2>3, Nested
  <2>5. tried \in WorkType /\ tried.end = work.end /\ tried.stack = work.stack
        /\ tried.forced = work.forced /\ tried.inserts \in Seq(Here)
    <3>1. Tail(work.inserts) \in Seq(Anywhere)
      BY <2>3, Nested
    <3>. QED  BY <2>2, <2>3, <3>1 DEF WorkType
  <2>6. Fixed
    BY <1>1, <2>1 DEF Fixed
  <2>. HIDE DEF tried, next
  <2>7. ControlInv'
    BY <1>1, <2>1, <2>4, <2>6, RangesFixed DEF ControlInv, Fixed
  <2>8. ListsInv'
    BY <2>1, <2>6, RangesFixed DEF ListsInv, Fixed, lists, Walking, walk
  <2>9. CurInv'
    BY <2>1, <2>4, <2>6, RangesFixed DEF CurInv
  <2>10. WorkInv'
    BY <2>1, <2>5, <2>6, RangesFixed DEF WorkInv, OnStopped, Walking, Fixed
  <2>11. DoneInv'
    BY <2>1, <2>6, RangesFixed DEF DoneInv, TreeReachesEnd, PastStop, Completed
  <2>. QED  BY <2>7, <2>8, <2>9, <2>10, <2>11
<1>. QED  BY <1>2, <1>3, <1>4

\* The deleted token, and the copy that finishes at the end of the input.
LEMMA InsertedKeep ==
    ASSUME ScheduleInv, DeleteToken \/ FinishForced, DrainedInv' PROVE ScheduleInv'
<1>. USE DEF ScheduleInv
<1>1. UNCHANGED <<input, recovering>>
  BY DEF DeleteToken, FinishForced, call
<1>2. CASE \E r : Abort(r)
  BY <1>1, <1>2, ReturnKeeps DEF Abort
<1>3. ASSUME ~\E r : Abort(r)
      PROVE  /\ Fixed /\ pc = "inserted" /\ pc' = "recover"
             /\ UNCHANGED <<results, tree, pair, call, pending, stopped, walk, work, restarted>>
  BY <1>3 DEF DeleteToken, FinishForced, Fixed, call, recovery, lists
<1>4. ASSUME ~\E r : Abort(r), advanced' \in Seq(Ahead), finished' \in Seq(AtEnd)
      PROVE  ScheduleInv'
  <2>1. ControlInv' /\ CurInv'
    BY <1>3, <1>4, RangesFixed DEF ControlInv, CurInv, Fixed, call, walk
  <2>2. ListsInv'
    BY <1>3, <1>4, RangesFixed DEF ListsInv, call, Walking, walk
  <2>3. WorkInv'
    BY <1>3, <1>4, RangesFixed DEF WorkInv, OnStopped, Walking, walk
  <2>4. DoneInv'
    BY <1>3, <1>4, RangesFixed DEF DoneInv, TreeReachesEnd, PastStop, Completed, call
  <2>. QED  BY <2>1, <2>2, <2>3, <2>4
<1>5. pc = "inserted" => /\ work.stack \in Here /\ work.forced \in Onward
                         /\ work.stack.position = minPosition
                         /\ work.token \in Nat /\ work.end \in minPosition .. End
  BY Nested DEF WorkInv, OnStopped, WorkType
<1>6. CASE DeleteToken /\ ~\E r : Abort(r)
  <2>. DEFINE empty == work.end = work.stack.position
              token == IF empty THEN Error ELSE work.token
              end == IF empty THEN work.stack.position + 1 ELSE work.end
              t == RecoverByDelete(work.stack, token, end)
  <2>1. /\ ~Failed(t) /\ advanced' = PushDedup(advanced, t) /\ UNCHANGED recovery
        /\ minPosition < End /\ pc = "inserted"
    BY <1>5, <1>6 DEF DeleteToken
  <2>2. minPosition \in Nat /\ End \in Nat
    BY EndType DEF ControlInv
  <2>3. token \in Nat /\ end \in minPosition + 1 .. End /\ end \in Nat
    BY <1>5, <2>1, <2>2 DEF Error
  <2>. HIDE DEF token, end
  <2>4. Whole(t) /\ t.position = end
    BY <1>5, <2>1, <2>3, AtWhole, RecoverByDeleteMoves DEF Here
  <2>. HIDE DEF t
  <2>5. t \in Ahead
    BY <2>1, <2>3, <2>4, AtPosition DEF Ahead
  <2>6. advanced' \in Seq(Ahead)
    BY <2>1, <2>5, PushDedupAhead DEF ListsInv
  <2>. QED  BY <1>4, <1>6, <2>1, <2>6 DEF DoneInv, recovery
<1>7. CASE FinishForced /\ ~\E r : Abort(r)
  <2>1. /\ finished' \in {finished, <<work.forced>>} /\ UNCHANGED lists
        /\ minPosition >= End /\ pc = "inserted"
    BY <1>5, <1>7 DEF FinishForced
  <2>2. work.forced \in AtEnd
    BY <1>5, <2>1, Nested
  <2>3. finished' \in Seq(AtEnd)
    <3>1. finished \in Seq(AtEnd) /\ <<work.forced>> \in Seq(AtEnd)
      BY <2>2 DEF DoneInv
    <3>. QED  BY <2>1, <3>1
  <2>. QED  BY <1>4, <1>7, <2>1, <2>3 DEF ListsInv, lists
<1>. QED  BY <1>2, <1>6, <1>7

\* The stack that finishes the parse is forced down.
LEMMA ForcedKeep ==
    ASSUME ScheduleInv, RecoverDone \/ ForceAll \/ ForcedTree, DrainedInv' PROVE ScheduleInv'
<1>. USE DEF ScheduleInv
<1>1. CASE RecoverDone
  <2>1. Fixed /\ UNCHANGED <<results, tree, pair, call, lists, mode, from, choice, recovery>>
    BY <1>1 DEF RecoverDone, Fixed, call
  <2>2. \/ pc' = "prune" /\ UNCHANGED cur
        \/ pc' = "forceAll" /\ cur' \in AtEnd
    <3>1. finished # None => finished[1] \in AtEnd
      BY DEF DoneInv, None
    <3>. QED  BY <1>1, <3>1 DEF RecoverDone
  <2>3. cur' \in Anywhere
    BY <2>2, Nested DEF CurInv
  <2>4. pc = "recover"
    BY <1>1 DEF RecoverDone
  <2>5. ControlInv' /\ ListsInv'
    BY <2>1, <2>2, <2>4, RangesFixed DEF ControlInv, ListsInv, Fixed, call, lists, Walking, walk
  <2>6. CurInv'
    BY <2>1, <2>2, <2>3, RangesFixed DEF CurInv
  <2>7. WorkInv'
    BY <2>1, <2>2, RangesFixed DEF WorkInv, OnStopped, Walking, recovery
  <2>8. DoneInv'
    BY <2>1, RangesFixed DEF DoneInv, TreeReachesEnd, PastStop, Completed, recovery, call
  <2>. QED  BY <2>5, <2>6, <2>7, <2>8
<1>2. CASE ForceAll
  <2>1. Allowed(cur, "forceAll") /\ ForceCur("forceAll")
    BY <1>2 DEF ForceAll, Allowed, CurInv
  <2>. QED  BY <2>1, ForceCurKeeps
<1>3. CASE ForcedTree
  <2>. DEFINE s == IF cur.state \in AcceptingState THEN cur ELSE StoreError(cur)
  <2>1. UNCHANGED <<input, recovering>>
    BY <1>3 DEF ForcedTree
  <2>2. cur \in AtEnd
    BY <1>3 DEF ForcedTree, CurInv
  <2>3. CASE Abort(s.err)
    BY <2>1, <2>3, ReturnKeeps DEF Abort
  <2>4. CASE ~Failed(s) /\ tree' = <<s>> /\ Return("tree")
    <3>1. Stays(cur, s)
      BY <2>2, AtWhole, StoreErrorStays, StaysReflexive DEF AtEnd
    <3>. HIDE DEF s
    <3>2. s \in AtEnd /\ s.position = cur.position
      BY <2>2, <2>4, <3>1, AtStays DEF AtEnd, Stays
    <3>3. s \in Anywhere
      BY <3>2, Nested
    <3>4. s.position = End
      <4>1. s.position \in End .. End /\ End \in Nat
        BY <3>2, AtWhole, EndType DEF AtEnd, ControlInv
      <4>. QED  BY <4>1
    <3>. QED  BY <2>1, <2>4, <3>3, <3>4, ReturnKeeps
  <2>. QED  BY <1>3, <2>3, <2>4 DEF ForcedTree
<1>. QED  BY <1>1, <1>2, <1>3

-----------------------------------------------------------------------------
(* The end of step.                                                        *)

\* Pruning keeps stacks of the list, each once.
LEMMA PrunedMembers ==
    ASSUME NEW S, NEW list \in Seq(S), \A i \in DOMAIN list : list[i].score \in Int,
           NEW maximum \in Nat
    PROVE  /\ PruneByScore(list, maximum) \in Seq(S)
           /\ Len(list) > maximum => Len(PruneByScore(list, maximum)) = maximum
           /\ \A i, j \in DOMAIN PruneByScore(list, maximum) :
                 i # j => \E k, l \in DOMAIN list :
                             /\ k # l
                             /\ PruneByScore(list, maximum)[i] = list[k]
                             /\ PruneByScore(list, maximum)[j] = list[l]
<1>1. DOMAIN list = 1 .. Len(list) /\ Len(list) \in Nat
  OBVIOUS
<1>2. CASE Len(list) <= maximum
  <2>1. PruneByScore(list, maximum) = list
    BY <1>2 DEF PruneByScore
  <2>2. ~(Len(list) > maximum)
    BY <1>1, <1>2
  <2>3. \A i, j \in DOMAIN list :
           i # j => \E k, l \in DOMAIN list : k # l /\ list[i] = list[k] /\ list[j] = list[l]
    BY Zenon
  <2>. QED  BY <2>1, <2>2, <2>3, Zenon
<1>3. CASE ~(Len(list) <= maximum)
  <2>. DEFINE score == [i \in DOMAIN list |-> list[i].score]
              choice1 == [k \in 1 .. maximum |-> CHOOSE i \in DOMAIN list : Rank(list, i) = k]
              best == [k \in 1 .. maximum |-> list[CHOOSE i \in DOMAIN list : Rank(list, i) = k]]
  <2>1. PruneByScore(list, maximum) = best
    BY <1>3 DEF PruneByScore
  <2>2. \A i \in DOMAIN list : Rank(list, i) = Cardinality(UpTo(DOMAIN list, score, i))
    <3>1. ASSUME NEW i \in DOMAIN list
          PROVE  {j \in DOMAIN list : \/ list[j].score > list[i].score
                                      \/ list[j].score = list[i].score /\ j <= i}
                 = UpTo(DOMAIN list, score, i)
      BY DEF UpTo, Before
    <3>. QED  BY <3>1, Zenon DEF Rank
  <2>3. \A k \in 1 .. Len(list) :
           \E i \in DOMAIN list : Cardinality(UpTo(DOMAIN list, score, i)) = k
    <3>1. DOMAIN list \in SUBSET Int /\ IsFiniteSet(DOMAIN list)
          /\ Cardinality(DOMAIN list) = Len(list)
      <4>1. IsFiniteSet(1 .. Len(list)) /\ Cardinality(1 .. Len(list)) = Len(list)
        BY <1>1, IntervalSize
      <4>2. 1 .. Len(list) \in SUBSET Int
        BY <1>1
      <4>. QED  BY <1>1, <4>1, <4>2, Zenon
    <3>2. score \in [DOMAIN list -> Int]
      OBVIOUS
    <3>. HIDE DEF score
    <3>3. \A k \in 1 .. Cardinality(DOMAIN list) :
             \E i \in DOMAIN list : Cardinality(UpTo(DOMAIN list, score, i)) = k
      BY <3>1, <3>2, ScoreRanks
    <3>. QED  BY <3>1, <3>3
  <2>. HIDE DEF score
  <2>4. ASSUME NEW k \in 1 .. maximum
        PROVE  /\ choice1[k] \in DOMAIN list /\ Rank(list, choice1[k]) = k
               /\ best[k] = list[choice1[k]]
    <3>1. k \in 1 .. Len(list)
      BY <1>1, <1>3
    <3>2. \E i \in DOMAIN list : Rank(list, i) = k
      BY <2>2, <2>3, <3>1
    <3>. QED  BY <3>2
  <2>5. DOMAIN best = 1 .. maximum
    OBVIOUS
  <2>6. best \in Seq(S) /\ Len(best) = maximum
    <3>1. \A k \in 1 .. maximum : list[choice1[k]] \in S
      BY <2>4
    <3>2. best = [k \in 1 .. maximum |-> list[choice1[k]]]
      OBVIOUS
    <3>. HIDE DEF best, choice1
    <3>3. [k \in 1 .. maximum |-> list[choice1[k]]] \in Seq(S)
      BY <3>1
    <3>4. Len([k \in 1 .. maximum |-> list[choice1[k]]]) = maximum
      OBVIOUS
    <3>. QED  BY <3>2, <3>3, <3>4
  <2>. HIDE DEF best, choice1
  <2>7. ASSUME NEW i \in DOMAIN best, NEW j \in DOMAIN best, i # j
        PROVE  \E k, l \in DOMAIN list : k # l /\ best[i] = list[k] /\ best[j] = list[l]
    <3>1. /\ choice1[i] \in DOMAIN list /\ choice1[j] \in DOMAIN list
          /\ choice1[i] # choice1[j]
          /\ best[i] = list[choice1[i]] /\ best[j] = list[choice1[j]]
      BY <2>4, <2>5, <2>7
    <3>. QED  BY <3>1
  <2>. QED  BY <1>3, <2>1, <2>6, <2>7
<1>. QED  BY <1>2, <1>3

\* The survivors are stacks of advanced, each once.
LEMMA SurvivorsAhead ==
    ASSUME ScheduleInv, Pruned
    PROVE  /\ Survivors \in Seq(Ahead)
           /\ recovering = 1 => Len(Survivors) <= 1
           /\ \A i, j \in DOMAIN Survivors :
                 i # j => \E k, l \in DOMAIN advanced :
                             k # l /\ Survivors[i] = advanced[k] /\ Survivors[j] = advanced[l]
<1>. USE DEF ScheduleInv
<1>1. advanced \in Seq(Ahead)
  BY DEF ListsInv
<1>2. \A i \in DOMAIN advanced : advanced[i].score \in Int
  <2>1. \A s \in Ahead : s.score \in Int
    BY AtWhole, StackFields DEF Ahead
  <2>2. \A i \in DOMAIN advanced : advanced[i] \in Ahead
    BY <1>1
  <2>. QED  BY <2>1, <2>2
<1>3. MaxStacks \in Nat /\ 1 \in Nat
  BY ParseAssumption DEF ParseAssumption
<1>4. recovering * MaxRemaining \in Nat
  <2>1. recovering \in Nat /\ MaxRemaining \in Nat
    BY ParseAssumption DEF ParseAssumption, ControlInv
  <2>2. \A m, n \in Nat : m * n \in Nat
    OBVIOUS
  <2>. QED  BY <2>1, <2>2
<1>5. \/ recovering = 1 /\ Survivors = PruneByScore(advanced, 1)
      \/ recovering # 1 /\ Survivors = PruneByScore(advanced, recovering * MaxRemaining)
      \/ recovering # 1 /\ Survivors = PruneByScore(advanced, MaxStacks)
      \/ recovering # 1 /\ Survivors = advanced
  BY DEF Survivors
<1>6. ASSUME NEW m \in Nat, Survivors = PruneByScore(advanced, m), m = 1 \/ recovering # 1
      PROVE  /\ Survivors \in Seq(Ahead)
             /\ recovering = 1 => Len(Survivors) <= 1
             /\ \A i, j \in DOMAIN Survivors :
                   i # j => \E k, l \in DOMAIN advanced :
                               k # l /\ Survivors[i] = advanced[k] /\ Survivors[j] = advanced[l]
  <2>1. /\ Survivors \in Seq(Ahead)
        /\ Len(advanced) > m => Len(Survivors) = m
        /\ \A i, j \in DOMAIN Survivors :
              i # j => \E k, l \in DOMAIN advanced :
                          k # l /\ Survivors[i] = advanced[k] /\ Survivors[j] = advanced[l]
    BY <1>1, <1>2, <1>6, PrunedMembers
  <2>2. Len(advanced) <= m => Survivors = advanced
    BY <1>6 DEF PruneByScore
  <2>3. Len(advanced) \in Nat
    BY <1>1
  <2>4. recovering = 1 => Len(Survivors) <= 1
    <3>. HIDE DEF ScheduleInv
    <3>. QED  BY <1>6, <2>1, <2>2, <2>3
  <2>. QED  BY <2>1, <2>4
<1>7. CASE recovering = 1 /\ Survivors = PruneByScore(advanced, 1)
  <2>1. \E m \in Nat : m = 1 /\ Survivors = PruneByScore(advanced, m)
    BY <1>3, <1>7, Zenon
  <2>. QED  BY <1>6, <2>1
<1>8. CASE \/ recovering # 1 /\ Survivors = PruneByScore(advanced, recovering * MaxRemaining)
           \/ recovering # 1 /\ Survivors = PruneByScore(advanced, MaxStacks)
  <2>1. \E m \in Nat : Survivors = PruneByScore(advanced, m)
    BY <1>3, <1>4, <1>8, Zenon
  <2>. QED  BY <1>6, <1>8, <2>1
<1>9. CASE recovering # 1 /\ Survivors = advanced
  BY <1>1, <1>9
<1>. QED  BY <1>5, <1>6, <1>7, <1>8, <1>9

\* The survivors become the live stacks, and the least of their positions the
\* next one that the parse must move beyond.
LEMMA PruneKeeps ==
    ASSUME ScheduleInv, Prune, DrainedInv' PROVE ScheduleInv' /\ minPosition' > minPosition
<1>. USE DEF ScheduleInv
<1>1. /\ UNCHANGED <<input, results, tree, stoppedAt, pending, finished>>
      /\ stacks' = Survivors /\ Survivors # << >>
      /\ advanced' = << >> /\ stopped' = << >>
      /\ work' = NoWork /\ pair' = FirstPair
      /\ cur' = FirstStack /\ mode' = "step" /\ from' = minPosition' /\ choice' = 0
      /\ pc' = "idle" /\ pc # "idle"
  BY DEF Prune, Pruned
<1>2. Survivors \in Seq(Ahead) /\ DOMAIN Survivors = 1 .. Len(Survivors) /\ Len(Survivors) \in Nat
  <2>1. Survivors \in Seq(Ahead)
    BY SurvivorsAhead DEF Prune
  <2>. QED  BY <2>1
<1>3. minPosition \in Nat /\ End \in Nat /\ input \in Inputs
  BY EndType DEF ControlInv
<1>4. \A i \in DOMAIN Survivors : Survivors[i] \in Ahead /\ Survivors[i].position \in minPosition + 1 .. End
  <2>1. \A i \in DOMAIN Survivors : Survivors[i] \in Ahead
    BY <1>2
  <2>. QED  BY <2>1, AtWhole DEF Ahead
<1>5. /\ minPosition' \in minPosition + 1 .. End
      /\ \A i \in DOMAIN Survivors : minPosition' <= Survivors[i].position
  <2>. DEFINE positions == {Survivors[i].position : i \in DOMAIN Survivors}
  <2>1. positions \in SUBSET Nat /\ positions # {}
    <3>1. 1 \in DOMAIN Survivors
      BY <1>1, <1>2
    <3>. QED  BY <1>3, <1>4, <3>1
  <2>2. PICK p \in positions : \A q \in positions : p <= q
    <3>. HIDE DEF positions
    <3>. QED  BY <2>1, LeastNumber
  <2>3. \A i \in DOMAIN Survivors : p <= Survivors[i].position
    BY <2>2
  <2>4. /\ minPosition' \in positions
        /\ \A i \in DOMAIN Survivors : minPosition' <= Survivors[i].position
    BY <2>3 DEF Prune
  <2>. QED  BY <1>4, <2>4
<1>6. End' = End /\ Anywhere' = Anywhere /\ AtEnd' = AtEnd /\ FirstStack' = FirstStack
      /\ NoWork' = NoWork /\ WorkType' = WorkType
  BY <1>1 DEF End, Anywhere, AtEnd, FirstStack, NoWork, WorkType
<1>7. ControlInv'
  <2>1. recovering' \in 0 .. RecoveryDistance
    BY ParseAssumption DEF Prune, ControlInv, ParseAssumption
  <2>2. minPosition' \in 0 .. End
    BY <1>3, <1>5
  <2>. QED  BY <1>1, <1>6, <2>1, <2>2 DEF ControlInv, FirstPair
<1>8. ListsInv'
  <2>1. \A i \in DOMAIN Survivors : Survivors[i] \in At(minPosition', End)
    <3>1. ASSUME NEW i \in DOMAIN Survivors PROVE Survivors[i] \in At(minPosition', End)
      <4>1. Survivors[i].position \in minPosition' .. End
        BY <1>3, <1>4, <1>5
      <4>. QED  BY <1>4, <4>1, AtWhole, AtPosition DEF Ahead
    <3>. QED  BY <3>1
  <2>2. Survivors \in Seq(At(minPosition', End))
    <3>. HIDE DEF ScheduleInv
    <3>. QED  BY <1>2, <2>1
  <2>3. Onward' = At(minPosition', End)
    BY <1>6 DEF Onward
  <2>4. pending' = << >>
    BY <1>1 DEF Prune, Pruned, ListsInv, Walking
  <2>. QED  BY <1>1, <2>2, <2>3, <2>4 DEF ListsInv
<1>9. CurInv'
  BY <1>1, <1>3, <1>6, FirstStackAnywhere DEF CurInv
<1>10. WorkInv'
  BY <1>1, <1>3, <1>6, NoWorkType DEF WorkInv, OnStopped, Walking
<1>11. DoneInv'
  BY <1>1, <1>6 DEF DoneInv, TreeReachesEnd, PastStop, Completed
<1>. QED  BY <1>3, <1>5, <1>7, <1>8, <1>9, <1>10, <1>11

-----------------------------------------------------------------------------
(* The invariant.                                                          *)

LEMMA ScheduleInit == ASSUME Init, DrainedInv PROVE ScheduleInv
<1>1. input \in Inputs /\ End \in Nat
  BY EndType DEF Init
<1>2. FirstStack \in Anywhere /\ NoWork \in WorkType
  BY <1>1, FirstStackAnywhere, NoWorkType
<1>3. FirstStack \in Onward
  BY <1>2 DEF Init, Anywhere, Onward
<1>4. ControlInv
  BY <1>1, ParseAssumption DEF Init, ControlInv, ParseAssumption, ParseStart, FirstPair, None
<1>5. ListsInv
  <2>1. <<FirstStack>> \in Seq(Onward)
    BY <1>3
  <2>. QED  BY <2>1 DEF Init, ListsInv
<1>6. CurInv
  BY <1>2 DEF Init, CurInv
<1>7. WorkInv
  BY <1>2 DEF Init, WorkInv, OnStopped, Walking
<1>8. DoneInv
  BY DEF Init, DoneInv, TreeReachesEnd, None
<1>. QED  BY <1>4, <1>5, <1>6, <1>7, <1>8 DEF ScheduleInv

LEMMA ScheduleStays == ASSUME ScheduleInv, UNCHANGED vars, DrainedInv' PROVE ScheduleInv'
<1>1. Fixed /\ UNCHANGED <<input, pc, results, tree, pair, call, lists, walk, recovery>>
  BY DEF vars, Fixed, call
<1>2. ControlInv' /\ ListsInv' /\ CurInv'
  BY <1>1, RangesFixed DEF ScheduleInv, ControlInv, ListsInv, CurInv, call, lists, walk, Walking
<1>3. WorkInv' /\ DoneInv'
  BY <1>1, RangesFixed DEF ScheduleInv, WorkInv, DoneInv, OnStopped, Walking, recovery, walk,
     TreeReachesEnd, PastStop, Completed, call
<1>. QED  BY <1>2, <1>3 DEF ScheduleInv

LEMMA ScheduleStep == ASSUME ScheduleInv, [Next]_vars, DrainedInv' PROVE ScheduleInv'
<1>1. CASE UNCHANGED vars
  BY <1>1, ScheduleStays
<1>2. CASE Advance \/ Stop \/ Dropped
  BY <1>1, <1>2, AdvanceKeeps, StopKeeps DEF Dropped
<1>3. CASE LargeReductions \/ AdvanceStack \/ Pairs
  BY <1>3, LargeReductionsKeeps, AdvanceStackKeeps, PairsKeep
<1>4. CASE Scheduling
  BY <1>4, TurnsKeep, EndsKeep, PruneKeeps DEF Scheduling
<1>5. CASE Recovery
  BY <1>5, RecoverNextKeeps, FullyKeeps, ForceStoppedKeeps, InsertsKeep, InsertedKeep, ForcedKeep
  DEF Recovery
<1>. QED  BY <1>1, <1>2, <1>3, <1>4, <1>5 DEF Next, Step

LEMMA ScheduleInvariant == Spec => []ScheduleInv
<1>1. Init => ScheduleInv
  BY DrainedInit, ScheduleInit
<1>2. ScheduleInv /\ [Next]_vars => ScheduleInv'
  BY ScheduleStep, DrainedInvariant DEF ScheduleInv
<1>. QED  BY <1>1, <1>2, PTL DEF Spec

\* Types, for every grammar, text and limit: every stack that an operation
\* leaves anywhere in the parse is well formed and carries no error.
THEOREM TypeOKTheorem == Spec => []TypeOK
<1>1. ScheduleInv => TypeOK
  <2>. SUFFICES ASSUME ScheduleInv PROVE TypeOK
    OBVIOUS
  <2>. USE DEF ScheduleInv
  <2>1. Here \subseteq Anywhere /\ Onward \subseteq Anywhere /\ Ahead \subseteq Anywhere
        /\ AtEnd \subseteq Anywhere
    BY Nested
  <2>2. /\ \A i \in DOMAIN stacks : stacks[i] \in Anywhere
        /\ \A i \in DOMAIN pending : pending[i] \in Anywhere
        /\ \A i \in DOMAIN advanced : advanced[i] \in Anywhere
    BY <2>1 DEF ListsInv
  <2>3. \A i \in DOMAIN stopped : stopped[i].stack \in Anywhere
    <3>1. \A i \in DOMAIN stopped : stopped[i] \in StoppedEntry
      BY DEF ListsInv
    <3>. QED  BY <2>1, <3>1 DEF StoppedEntry
  <2>4. {cur, work.stack, work.forced} \subseteq Anywhere
    BY DEF CurInv, WorkInv, WorkType
  <2>5. \A i \in DOMAIN work.inserts : work.inserts[i] \in Anywhere
    <3>1. work.inserts \in Seq(Anywhere)
      BY DEF WorkInv, WorkType
    <3>. QED  BY <3>1
  <2>6. /\ \A i \in DOMAIN finished : finished[i] \in Anywhere
        /\ \A i \in DOMAIN tree : tree[i] \in Anywhere
    BY <2>1 DEF DoneInv
  <2>7. \A s \in Live : s \in Anywhere
    BY <2>2, <2>3, <2>4, <2>5, <2>6 DEF Live
  <2>8. \A s \in Live : s \in Stack /\ ~Failed(s)
    BY <2>7, AtWhole DEF Anywhere, Whole
  <2>. QED  BY <2>8 DEF TypeOK, ControlInv
<1>. QED  BY <1>1, ScheduleInvariant, PTL

\* For every grammar, text and limit: no stack is behind the position the step
\* started from, those in advanced are beyond it and those in stopped at it.
THEOREM NoneBehindTheorem == Spec => []NoneBehind
<1>1. ScheduleInv => NoneBehind
  <2>. SUFFICES ASSUME ScheduleInv PROVE NoneBehind
    OBVIOUS
  <2>. USE DEF ScheduleInv
  <2>1. minPosition \in Nat
    BY EndType DEF ControlInv
  <2>2. /\ \A s \in Onward : s.position >= minPosition
        /\ \A s \in Ahead : s.position > minPosition
        /\ \A s \in Here : s.position = minPosition
    <3>1. /\ \A s \in Onward : s.position \in minPosition .. End
          /\ \A s \in Ahead : s.position \in minPosition + 1 .. End
          /\ \A s \in Here : s.position \in minPosition .. minPosition
      BY AtWhole DEF Onward, Ahead, Here
    <3>2. End \in Nat
      BY EndType DEF ControlInv
    <3>. QED  BY <2>1, <3>1, <3>2
  <2>3. \A i \in DOMAIN stopped : stopped[i] \in StoppedEntry
    BY DEF ListsInv
  <2>4. \A i \in DOMAIN stopped : stopped[i].stack \in Here
    BY <2>3 DEF StoppedEntry
  <2>. QED  BY <2>2, <2>4 DEF NoneBehind, ListsInv
<1>. QED  BY <1>1, ScheduleInvariant, PTL

\* For every grammar, text and limit: a tree is built from a stack that read
\* the whole text or passed the stop point.
THEOREM TreeReachesEndTheorem == Spec => []TreeReachesEnd
<1>1. ScheduleInv => TreeReachesEnd
  BY DEF ScheduleInv, DoneInv
<1>. QED  BY <1>1, ScheduleInvariant, PTL
-----------------------------------------------------------------------------
(* The ends of a call.                                                     *)

\* A call ends where it returns for good or prunes; prune_equivalent runs
\* before that.
LEMMA Phases ==
    ASSUME ScheduleInv, Next
    PROVE  \/ Prune
           \/ \E r : Return(r) /\ UNCHANGED <<input, recovering>>
           \/ Pairs
           \/ pc = "idle" /\ UNCHANGED <<pc, stacks, recovering>>
           \/ pc' \notin {"idle", "pairs"}
<1>1. CASE Advance \/ Stop \/ Dropped
  BY <1>1 DEF Advance, Stop, StopAt, Dropped, vars, call
<1>2. CASE LargeReductions
  BY <1>2 DEF LargeReductions, ForceLarge, ForceLargeAgain, ForceLargeDone, ForceCur,
     CountedForce, Counted, Continue, Abort, Jump
<1>3. CASE AdvanceStack
  BY <1>3 DEF AdvanceStack, Moved, StopForce, ReduceByDefault, StartCut, Cut, Stuck, ActAlone,
     ActLast, TakeChoice, SplitAction, Acted, ForceCur, CountedForce, Counted, Continue, Abort,
     Jump
<1>4. CASE Scheduling
  BY <1>4 DEF Scheduling, NextPending, KeepAdvanced, KeepStopped, Finish, Reject, Decide,
     NoLiveStack, Abort
<1>5. CASE Recovery
  <2>1. CASE FullyAdvanced \/ FullyStuck
    BY <2>1 DEF FullyAdvanced, FullyStuck, ScheduleInv, ControlInv
  <2>2. CASE RecoverNext \/ ForceStopped \/ ForceEnough \/ AdvanceInserted \/ RecoverDone
    BY <2>2 DEF RecoverNext, ForceStopped, ForceEnough, AdvanceInserted, RecoverDone,
       CountedForce, Counted, Abort, Jump, CountRecovery, recovery
  <2>3. CASE InsertStopped \/ DeleteToken \/ FinishForced
    BY <2>3 DEF InsertStopped, TryInserts, DeleteToken, FinishForced, Abort
  <2>4. CASE ForceAll \/ ForcedTree
    BY <2>4 DEF ForceAll, ForcedTree, ForceCur, CountedForce, Counted, Continue, Abort
  <2>. QED  BY <1>5, <2>1, <2>2, <2>3, <2>4 DEF Recovery
<1>. QED  BY <1>1, <1>2, <1>3, <1>4, <1>5 DEF Next, Step

\* For every grammar, text and limit: a call that does not end the parse leaves
\* the parse further on than it found it.
THEOREM ProgressTheorem == Spec => Progress
<1>1. ASSUME ScheduleInv, Next, DrainedInv', pc # "idle", pc' = "idle", ~Completed'
      PROVE  minPosition' > minPosition
  <2>1. CASE Prune
    BY <1>1, <2>1, PruneKeeps
  <2>2. CASE \E r : Return(r)
    <3>1. PICK r : Return(r)
      BY <2>2
    <3>2. PICK S : results \in Seq(S)
      BY <1>1 DEF ScheduleInv, DrainedInv
    <3>3. results' # << >>
      BY <3>1, <3>2 DEF Return
    <3>. QED  BY <1>1, <3>3 DEF Completed
  <2>3. CASE Pairs
    BY <1>1, <2>3 DEF Pairs, StartPairs, NextLeft, KeepBoth, DropRight, DropLeft, Compared, PairsLeft
  <2>. QED  BY <1>1, <2>1, <2>2, <2>3, Phases
<1>2. ScheduleInv /\ [Next]_vars =>
        [pc # "idle" /\ pc' = "idle" /\ ~Completed' => minPosition' > minPosition]_vars
  BY <1>1, DrainedInvariant DEF ScheduleInv
<1>. QED  BY <1>2, ScheduleInvariant, PTL DEF Spec, Progress

\* The pairs that the loops of prune_equivalent have compared, and their place.
PairsInv ==
    pc = "pairs" =>
        /\ recovering = 0
        /\ \A i, j \in DOMAIN advanced :
              i < j /\ (i < pair.left \/ (i = pair.left /\ j < pair.right)) =>
                 ~Rivals(advanced[i], advanced[j])

LEMMA SameStateSymmetric == ASSUME NEW s, NEW t, SameState(s, t) PROVE SameState(t, s)
BY DEF SameState

\* A list without one of its members.
LEMMA WithoutMembers ==
    ASSUME NEW S, NEW list \in Seq(S), NEW k \in 1 .. Len(list)
    PROVE  /\ DOMAIN Without(list, k) = 1 .. Len(list) - 1
           /\ \A i \in 1 .. Len(list) - 1 :
                 Without(list, k)[i] = IF i < k THEN list[i] ELSE list[i + 1]
<1>. DEFINE low == SubSeq(list, 1, k - 1)
            high == SubSeq(list, k + 1, Len(list))
<1>1. Len(list) \in Nat /\ k \in Nat /\ k >= 1 /\ k <= Len(list)
  OBVIOUS
<1>2. low \in Seq(S) /\ Len(low) = k - 1 /\ \A i \in 1 .. k - 1 : low[i] = list[i]
  BY <1>1
<1>3. /\ high \in Seq(S) /\ Len(high) = Len(list) - k
      /\ \A i \in 1 .. Len(list) - k : high[i] = list[k + i]
  BY <1>1
<1>. HIDE DEF low, high
<1>4. /\ DOMAIN (low \o high) = 1 .. Len(low) + Len(high)
      /\ \A i \in 1 .. Len(low) + Len(high) :
            (low \o high)[i] = IF i <= Len(low) THEN low[i] ELSE high[i - Len(low)]
  <2>1. low \in Seq(S) /\ high \in Seq(S)
    BY <1>2, <1>3
  <2>2. DOMAIN (low \o high) = 1 .. Len(low) + Len(high)
    BY <2>1
  <2>3. ASSUME NEW i \in 1 .. Len(low) + Len(high)
        PROVE  (low \o high)[i] = IF i <= Len(low) THEN low[i] ELSE high[i - Len(low)]
    BY <2>1
  <2>. QED  BY <2>2, <2>3
<1>5. Len(low) + Len(high) = Len(list) - 1
  BY <1>1, <1>2, <1>3
<1>6. ASSUME NEW i \in 1 .. Len(list) - 1
      PROVE  (low \o high)[i] = IF i < k THEN list[i] ELSE list[i + 1]
  <2>1. CASE i < k
    <3>1. i \in 1 .. k - 1 /\ i <= Len(low)
      BY <1>1, <1>2, <2>1
    <3>. QED  BY <1>2, <1>4, <1>5, <2>1, <3>1
  <2>2. CASE ~(i < k)
    <3>1. i - (k - 1) \in 1 .. Len(list) - k /\ ~(i <= Len(low)) /\ k + (i - (k - 1)) = i + 1
      BY <1>1, <1>2, <2>2
    <3>2. (low \o high)[i] = high[i - (k - 1)]
      BY <1>2, <1>4, <1>5, <3>1
    <3>3. high[i - (k - 1)] = list[k + (i - (k - 1))]
      BY <1>3, <3>1
    <3>. QED  BY <2>2, <3>1, <3>2, <3>3
  <2>. QED  BY <2>1, <2>2
<1>7. Without(list, k) = low \o high
  BY DEF Without, low, high
<1>. QED  BY <1>4, <1>5, <1>6, <1>7

\* The loops compare the pairs in order; a drop moves later stacks down.
LEMMA PairsCompared == ASSUME ScheduleInv, PairsInv, Pairs PROVE PairsInv'
<1>. USE DEF ScheduleInv
<1>. DEFINE left == pair.left
            right == pair.right
<1>1. advanced \in Seq(Ahead) /\ DOMAIN advanced = 1 .. Len(advanced) /\ Len(advanced) \in Nat
  <2>1. advanced \in Seq(Ahead)
    BY DEF ListsInv
  <2>. QED  BY <2>1
<1>2. left \in Nat /\ right \in Nat /\ 1 <= left /\ left < right
  BY DEF ControlInv
<1>3. pc' = "pairs" /\ recovering' = 0 /\ recovering = 0
  BY DEF Pairs, StartPairs, NextLeft, KeepBoth, DropRight, DropLeft, Compared, PairsLeft,
     PairsInv, call
<1>4. pc = "pairs" => \A i, j \in DOMAIN advanced :
                         i < j /\ (i < left \/ (i = left /\ j < right)) =>
                            ~Rivals(advanced[i], advanced[j])
  BY DEF PairsInv
<1>5. CASE StartPairs
  BY <1>1, <1>3, <1>5 DEF StartPairs, PairsInv, FirstPair, lists
<1>6. CASE NextLeft
  <2>1. /\ pair'.left = left + 1 /\ pair'.right = left + 2 /\ advanced' = advanced
        /\ right > Len(advanced) /\ pc = "pairs"
    BY <1>6 DEF NextLeft, PairsLeft
  <2>. QED  BY <1>1, <1>2, <1>3, <1>4, <2>1 DEF PairsInv
<1>7. CASE KeepBoth
  <2>1. /\ pair'.left = left /\ pair'.right = right + 1 /\ advanced' = advanced
        /\ ~Rivals(advanced[left], advanced[right]) /\ pc = "pairs"
    BY <1>7 DEF KeepBoth, PairsLeft, Left, Right, ControlInv
  <2>. QED  BY <1>1, <1>2, <1>3, <1>4, <2>1 DEF PairsInv
<1>8. ASSUME pc = "pairs", NEW k \in 1 .. Len(advanced), advanced' = Without(advanced, k),
             pair'.left = left,
             (k = right /\ pair'.right = right) \/ (k = left /\ pair'.right = left + 1)
      PROVE  PairsInv'
  <2>1. /\ DOMAIN advanced' = 1 .. Len(advanced) - 1
        /\ \A i \in 1 .. Len(advanced) - 1 :
              advanced'[i] = IF i < k THEN advanced[i] ELSE advanced[i + 1]
    BY <1>1, <1>8, WithoutMembers
  <2>2. ASSUME NEW i \in DOMAIN advanced', NEW j \in DOMAIN advanced', i < j,
               i < left \/ (i = left /\ j < pair'.right)
        PROVE  ~Rivals(advanced'[i], advanced'[j])
    <3>. DEFINE j1 == IF j < k THEN j ELSE j + 1
    <3>1. i < k
      BY <1>1, <1>2, <1>8, <2>1, <2>2
    <3>2. i \in DOMAIN advanced /\ j1 \in DOMAIN advanced /\ i < j1
          /\ advanced'[i] = advanced[i] /\ advanced'[j] = advanced[j1]
      BY <1>1, <2>1, <2>2, <3>1
    <3>3. i < left \/ (i = left /\ j1 < right)
      BY <1>1, <1>2, <1>8, <2>1, <2>2
    <3>. HIDE DEF j1
    <3>. QED  BY <1>4, <1>8, <3>2, <3>3
  <2>. QED  BY <1>3, <1>8, <2>2 DEF PairsInv
<1>9. CASE DropRight
  <2>1. /\ pc = "pairs" /\ right \in 1 .. Len(advanced) /\ advanced' = Without(advanced, right)
        /\ pair' = pair
    BY <1>1, <1>2, <1>9 DEF DropRight, PairsLeft
  <2>. QED  BY <1>8, <2>1
<1>10. CASE DropLeft
  <2>1. /\ pc = "pairs" /\ left \in 1 .. Len(advanced) /\ advanced' = Without(advanced, left)
        /\ pair'.left = left /\ pair'.right = left + 1
    BY <1>1, <1>2, <1>10 DEF DropLeft, PairsLeft, ControlInv
  <2>. QED  BY <1>8, <2>1
<1>. QED  BY <1>5, <1>6, <1>7, <1>9, <1>10 DEF Pairs

\* Pruning leaves no twins.
LEMMA PruneParts ==
    ASSUME ScheduleInv, PairsInv, Prune, recovering' = 0,
           NEW i \in DOMAIN Survivors, NEW j \in DOMAIN Survivors, i < j
    PROVE  ~SameState(Survivors[i], Survivors[j])
<1>. USE DEF ScheduleInv
<1>1. /\ advanced \in Seq(Ahead) /\ DOMAIN advanced = 1 .. Len(advanced) /\ Len(advanced) \in Nat
      /\ DOMAIN Survivors = 1 .. Len(Survivors) /\ Len(Survivors) \in Nat
  <2>1. advanced \in Seq(Ahead) /\ Survivors \in Seq(Ahead)
    BY SurvivorsAhead DEF ListsInv, Prune
  <2>. QED  BY <2>1
<1>2. recovering \in Nat
  BY ParseAssumption DEF ControlInv, ParseAssumption
<1>3. CASE recovering # 0
  <2>1. recovering = 1
    BY <1>2, <1>3 DEF Prune
  <2>2. Len(Survivors) <= 1
    BY <2>1, SurvivorsAhead DEF Prune
  <2>. QED  BY <1>1, <2>2
<1>4. CASE recovering = 0 /\ pc = "prune"
  <2>1. Len(advanced) <= 1 /\ Survivors = advanced
    BY <1>4 DEF Prune, Pruned, Survivors
  <2>. QED  BY <1>1, <2>1
<1>5. CASE recovering = 0 /\ pc = "pairs"
  <2>1. pair.left \in Nat /\ pair.left >= Len(advanced)
    BY <1>1, <1>5 DEF Prune, Pruned, PairsLeft, ControlInv
  <2>2. \A k, l \in DOMAIN advanced : k < l => ~Rivals(advanced[k], advanced[l])
    BY <1>1, <1>5, <2>1 DEF PairsInv
  <2>3. \A k, l \in DOMAIN advanced : k < l => ~SameState(advanced[k], advanced[l])
    BY <2>2 DEF Rivals
  <2>4. \A k, l \in DOMAIN advanced : k # l => ~SameState(advanced[k], advanced[l])
    <3>1. \A k, l \in DOMAIN advanced : k # l => k < l \/ l < k
      BY <1>1
    <3>. QED  BY <2>3, <3>1, SameStateSymmetric
  <2>5. i # j
    BY <1>1
  <2>6. \E k, l \in DOMAIN advanced :
           k # l /\ Survivors[i] = advanced[k] /\ Survivors[j] = advanced[l]
    BY <2>5, SurvivorsAhead DEF Prune
  <2>. QED  BY <2>4, <2>6
<1>. QED  BY <1>3, <1>4, <1>5 DEF Prune, Pruned

\* For every grammar, text and limit: between two calls of a parse that is not
\* recovering, no two live stacks are in the same LR state.
THEOREM NoTwinsTheorem == Spec => []NoTwins
<1>. DEFINE Inv == ScheduleInv /\ PairsInv /\ NoTwins
<1>1. Init => PairsInv /\ NoTwins
  <2>. SUFFICES ASSUME Init PROVE PairsInv /\ NoTwins
    OBVIOUS
  <2>1. pc = "idle" /\ DOMAIN stacks = 1 .. 1
    BY DEF Init
  <2>. QED  BY <2>1 DEF PairsInv, NoTwins
<1>2. ASSUME Inv, [Next]_vars, ScheduleInv' PROVE PairsInv' /\ NoTwins'
  <2>1. CASE UNCHANGED vars
    BY <1>2, <2>1 DEF PairsInv, NoTwins, vars, call, lists
  <2>2. CASE Next
    <3>1. pc' # "idle" => NoTwins'
      BY <1>2 DEF NoTwins, ScheduleInv, ListsInv
    <3>2. pc' # "pairs" => PairsInv'
      BY DEF PairsInv
    <3>3. CASE Prune
      <4>1. pc' = "idle" /\ stacks' = Survivors
        BY <3>3 DEF Prune
      <4>2. NoTwins'
        BY <1>2, <3>3, <4>1, PruneParts DEF NoTwins
      <4>. QED  BY <3>2, <4>1, <4>2
    <3>4. CASE \E r : Return(r)
      BY <3>2, <3>4 DEF Return, NoTwins
    <3>5. CASE Pairs
      <4>1. pc' = "pairs"
        BY <3>5 DEF Pairs, StartPairs, NextLeft, KeepBoth, DropRight, DropLeft, Compared,
           PairsLeft
      <4>. QED  BY <1>2, <3>1, <3>5, <4>1, PairsCompared
    <3>6. CASE pc = "idle" /\ UNCHANGED <<pc, stacks, recovering>>
      BY <1>2, <3>2, <3>6 DEF NoTwins
    <3>. QED  BY <1>2, <2>2, <3>1, <3>2, <3>3, <3>4, <3>5, <3>6, Phases
  <2>. QED  BY <1>2, <2>1, <2>2
<1>3. Init => Inv
  BY <1>1, DrainedInit, ScheduleInit
<1>4. Inv /\ [Next]_vars => Inv'
  BY <1>2, ScheduleStep, DrainedInvariant DEF ScheduleInv
<1>5. Inv => NoTwins
  OBVIOUS
<1>. QED  BY <1>3, <1>4, <1>5, PTL DEF Spec

=============================================================================
