-------------------------- MODULE ParseProperties --------------------------
(***************************************************************************)
(* What the parse scheduler and its stacks must keep true.                 *)
(***************************************************************************)
EXTENDS Parse

CONSTANT Language  \* the inputs the grammar derives

ASSUME LanguageAssumption == Language \subseteq Inputs

\* The stacks alive anywhere in the parse.
Live == {stacks[i] : i \in DOMAIN stacks} \cup {pending[i] : i \in DOMAIN pending}
        \cup {advanced[i] : i \in DOMAIN advanced}
        \cup {stopped[i].stack : i \in DOMAIN stopped}
        \cup {cur, work.stack, work.forced}
        \cup {work.inserts[i] : i \in DOMAIN work.inserts}
        \cup {finished[i] : i \in DOMAIN finished} \cup {tree[i] : i \in DOMAIN tree}

\* The first record of the subtree that ends at record i.
First(s, i) == i - s.buffer[i].size + 1

HasError(s) == \E i \in DOMAIN s.buffer : s.buffer[i].term = Error

Completed == results # << >>

\* Types.  Every stack that is still reachable is well formed and carries no
\* error: an operation that fails abandons the parse.
TypeOK ==
    /\ input \in Inputs
    /\ \A s \in Live : s \in Stack /\ ~Failed(s)
    /\ mode \in {"step", "restart", "force", "insert"}
    /\ pc \in {"idle", "forceLarge", "forceLargeCheck", "pending", "advance", "cut",
               "choose", "moved", "stuck", "recover", "force", "insert", "inserted",
               "forceAll", "prune", "pairs"}
    /\ recovering \in 0 .. RecoveryDistance
    /\ minPosition \in 0 .. End
    /\ stoppedAt = None \/ stoppedAt[1] \in 0 .. End
-----------------------------------------------------------------------------
(* The postfix buffer of a stack (stack.rs: reduce, store_node, split).    *)

\* The buffer is a postfix tree: the subtrees that the size fields delimit
\* nest, and every open frame starts between subtrees.  A reduction, a node
\* that sinks below skipped tokens, an error that joins an earlier one and a
\* split with its frozen prefix all rearrange it.
PostfixOrder == \A s \in Live :
    /\ \A i \in DOMAIN s.buffer :
          /\ First(s, i) >= 1
          /\ \A j \in First(s, i) .. i : First(s, j) >= First(s, i)
    /\ \A f \in DOMAIN s.frames, i \in DOMAIN s.buffer :
          s.frames[f].offset < i => s.frames[f].offset < First(s, i)

\* A node's range covers the ranges of the nodes in its subtree, and siblings
\* are in source order: the tree builder and every cursor rely on it.
Covering == \A s \in Live : \A i \in DOMAIN s.buffer :
    /\ \A j \in First(s, i) .. i :
          /\ s.buffer[i].start <= s.buffer[j].start
          /\ s.buffer[j].end <= s.buffer[i].end
    /\ \A j \in 1 .. First(s, i) - 1 : s.buffer[j].end <= s.buffer[i].start

\* The records a split shares between siblings are settled: none ends where a
\* later node could sink below it, and a trailing Error that a later one joins
\* stays private.  Otherwise a sibling's recovery would have to alter records
\* the other sibling holds, or would leave a sunk node in the wrong place.
FrozenSettled == \A s \in Live :
    /\ \A i \in 1 .. s.base : s.buffer[i].end <= s.reducePosition
    /\ s.buffer # << >> /\ s.buffer[Top(s)].term = Error => s.base < Top(s)

\* Frames are pushed in source order and in buffer order, also when recovery
\* pushes them: a reduction over several frames takes a node's start and first
\* child from the deepest of them.
FramesOrdered == \A s \in Live : \A i \in 1 .. Depth(s) :
    /\ s.frames[i].offset <= Top(s)
    /\ s.frames[i].start <= s.position
    /\ \A j \in 1 .. i - 1 : /\ s.frames[j].offset <= s.frames[i].offset
                             /\ s.frames[j].start <= s.frames[i].start
-----------------------------------------------------------------------------
(* The scheduler (parse.rs: step, run_recovery).                           *)

\* All the stacks of a step are in lock step: none is behind the position the
\* step started from, those in advanced are beyond it and those in stopped
\* exactly at it, so a single comparison tells the two apart.
NoneBehind ==
    /\ \A i \in DOMAIN stacks : stacks[i].position >= minPosition
    /\ \A i \in DOMAIN pending : pending[i].position >= minPosition
    /\ \A i \in DOMAIN advanced : advanced[i].position > minPosition
    /\ \A i \in DOMAIN stopped : stopped[i].stack.position = minPosition

\* A call of advance that does not end the parse consumed input: recovery by
\* forcing and inserting never hands back a stack that did not move.
Progress == [][pc # "idle" /\ pc' = "idle" /\ ~Completed' => minPosition' > minPosition]_vars

\* A parse that is not strict gives a tree for every text unless a budget runs
\* out: recovery never runs out of stacks and never drives a stack into a state
\* without a goto, and a stack that grows deep is cut before it can reach
\* max_stack_depth.
AlwaysATree == Completed =>
    \/ results[1] = "tree"
    \/ results[1] = "budget" /\ actions > MaxActions
    \/ results[1] = "recovery" /\ recoveryActions > MaxRecoveryActions

\* After the call that ended the parse there is nothing to resume: a later
\* call can only fail, in strict mode with the syntax error of a rejected text
\* and otherwise as if recovery had lost every stack.
OverIsOver == \A i \in DOMAIN results :
    i > 1 => results[i] = IF Strict THEN "syntax" ELSE "noLiveStack"

\* A tree is built from a stack that read the whole input, or passed the point
\* where the caller asked to stop.
TreeReachesEnd == tree # None => tree[1].position = End \/ PastStop(tree[1])

\* The parser recognizes the language.  A text the grammar derives is parsed
\* without an error node and without a recovery action; any other text gets an
\* error node, or is rejected in strict mode, which never recovers.
Recognizes == Completed /\ stoppedAt = None =>
    IF Strict
    THEN results[1] = (IF input \in Language THEN "tree" ELSE "syntax") /\ recoveryActions = 0
    ELSE /\ results[1] = "tree"
         /\ HasError(tree[1]) <=> input \notin Language
         /\ recoveryActions = 0 <=> input \in Language

\* Pruning leaves no two live stacks in the same LR state when the parse is
\* not recovering: ambiguity is resolved where the branches meet again.
NoTwins == recovering = 0 =>
    \A i, j \in DOMAIN stacks : i < j => ~SameState(stacks[i], stacks[j])

\* max_actions and max_recovery_actions end the parse with the first action
\* beyond them, whichever loop takes it.
WithinBudget ==
    /\ actions <= MaxActions + 1 /\ recoveryActions <= MaxRecoveryActions + 1
    /\ actions > MaxActions => Completed /\ results[1] = "budget"
    /\ recoveryActions > MaxRecoveryActions => Completed /\ results[1] = "recovery"

\* Every call returns and run_to_completion ends: parsing, recovery, cutting
\* and forcing all terminate on every text.
Terminates == <>Completed
-----------------------------------------------------------------------------
(* What the repository says of the program and the code does not do.       *)

\* ParseLimits::max_stacks: "Maximum simultaneously live parse stacks.", and
\* ParseLimits::max_buffer_records: "Maximum postfix CST records on one stack."
\* At least one of the two keeps what its comment says.
LimitsKept == Len(stacks) <= MaxStacks \/ \A s \in Live : Top(s) <= MaxBufferRecords
=============================================================================
