-------------------------------- MODULE Collapse --------------------------------
(***************************************************************************)
(* collapse_automaton of rezel-generator/src/automaton.rs: LR states that  *)
(* differ in their look-ahead only are put in one group, and a state that  *)
(* cannot be merged with another one of its group is spilled into a later  *)
(* group, which changes what its predecessors can be merged with.  Passes  *)
(* go on until one finds no conflict.  A memo of the pairs that were found *)
(* compatible and a signature of the groups that were scanned without a    *)
(* spill save a pass most of the work.                                     *)
(*                                                                         *)
(*   rules     the rules of the grammar: name, parts and the conflict      *)
(*             markers before, between and after the parts                 *)
(*   states    the canonical automaton: for every state its positions      *)
(*             <<rule, dot, look-ahead>>, its start term, its actions and  *)
(*             gotos, and its default reduction                            *)
(*   stage     the phase of the construction                               *)
(*   mapping   the group of every state                                    *)
(*   groups    origin, members, revision of the membership, and the        *)
(*             signature of the last scan without a spill                  *)
(*   memo      CollapseMemo                                                *)
(*   scan      the loop variables of a pass                                *)
(*                                                                         *)
(* States of different token groups are apart, too.  Skip sets, which also *)
(* keep states apart, are the same for all states here.                    *)
(***************************************************************************)
EXTENDS Integers, Sequences, FiniteSets

CONSTANT Repeated    \* the nonterminals of repetitions

VARIABLES rules, states, stage, mapping, groups, memo, scan

NoStart == "none"

-----------------------------------------------------------------------------
(* What can be merged.                                                     *)

IsRepeatWrap(rule) ==
    rule.name \in Repeated /\ Len(rule.parts) = 2 /\ rule.parts[1] = rule.name

SameReduce(a, b) ==
    /\ rules[a].name = rules[b].name
    /\ Len(rules[a].parts) = Len(rules[b].parts)
    /\ IsRepeatWrap(rules[a]) = IsRepeatWrap(rules[b])

EquivalentMapped(a, b, map) ==
    /\ a.kind = b.kind /\ a.term = b.term
    /\ IF a.kind = "shift" THEN map[a.to] = map[b.to] ELSE SameReduce(a.to, b.to)

On(actions, term) == {a \in actions : a.term = term}

\* action_ranges_are_compatible: the actions of two states on one term.
RangesCompatible(left, right, map) ==
    \/ \A a \in left, b \in right : EquivalentMapped(b, a, map)
    \/ /\ Cardinality(left) = Cardinality(right) /\ Cardinality(right) # 1
       /\ \A a \in left : \E b \in right : EquivalentMapped(a, b, map)

ActionsCompatible(left, right, map) ==
    \A term \in {a.term : a \in left} :
        RangesCompatible(On(left, term), On(right, term), map)

GotosCompatible(left, right, map) ==
    \A a \in left, b \in right : a.term = b.term => EquivalentMapped(a, b, map)

\* Mutant: only the gotos have to agree.
CanMergeByGotos(l, r, map) == GotosCompatible(states[l].gotos, states[r].gotos, map)

CanMerge(l, r, map) ==
    /\ GotosCompatible(states[l].gotos, states[r].gotos, map)
    /\ ActionsCompatible(states[l].actions, states[r].actions, map)

\* The states a merge of s depends on: CollapseMemo::new.
Targets(s) ==
    {a.to : a \in {a \in states[s].actions \union states[s].gotos : a.kind = "shift"}}

-----------------------------------------------------------------------------
(* The memo.                                                               *)

StateIds == DOMAIN states

Never == -1

NewMemo == [changed |-> [s \in StateIds |-> 0], next |-> 0,
            merges |-> [p \in StateIds \X StateIds |-> Never]]

PairRevision(l, r) ==
    IF memo.changed[l] >= memo.changed[r] THEN memo.changed[l] ELSE memo.changed[r]

\* Mutant: the state that moves is stamped, not those that lead to it.
MappingChangedItself(s) ==
    [memo EXCEPT !.next = @ + 1, !.changed[s] = memo.next + 1]

MappingChanged(s) ==
    [memo EXCEPT !.next = @ + 1,
                 !.changed = [l \in StateIds |-> IF s \in Targets(l) THEN memo.next + 1
                                                 ELSE memo.changed[l]]]

Remembered(l, r) == [memo EXCEPT !.merges[<<l, r>>] = PairRevision(l, r)]

Known(l, r) == memo.merges[<<l, r>>] = PairRevision(l, r)

Largest(numbers) == CHOOSE n \in numbers : \A k \in numbers : k <= n

Revisions(members) == {0} \union {memo.changed[members[i]] : i \in DOMAIN members}

\* Mutant: a signature that does not see the mapping.
SignatureOfMembers(group) == [membership |-> group.revision, dependency |-> 0]

Signature(group) ==
    [membership |-> group.revision, dependency |-> Largest(Revisions(group.members))]

IsValidated(group) == group.validated = <<Signature(group)>>

-----------------------------------------------------------------------------
(* Groups and spills.                                                      *)

Group(origin, s) ==
    [origin |-> origin, members |-> <<s>>, revision |-> 0, validated |-> <<>>]

MembershipChanged(group) ==
    [group EXCEPT !.revision = @ + 1, !.validated = <<>>]

SwapRemove(list, i) ==
    [k \in 1..(Len(list) - 1) |-> IF k = i THEN list[Len(list)] ELSE list[k]]

\* The later groups of the same origin that take a state.
Takers(s, g) ==
    {h \in (g + 1)..Len(groups) :
        /\ groups[h].origin = groups[g].origin
        /\ \A i \in DOMAIN groups[h].members :
              CanMerge(s, groups[h].members[i], [mapping EXCEPT ![s] = h])}

Destination(s, g) ==
    IF Takers(s, g) = {} THEN Len(groups) + 1
    ELSE CHOOSE h \in Takers(s, g) : \A k \in Takers(s, g) : h <= k

\* The groups when the state at i of group g has gone to group h.
Spilled(g, i, h) ==
    LET s == groups[g].members[i]
        without == [groups[g] EXCEPT !.members = SwapRemove(@, i)]
        with == IF h > Len(groups) THEN Group(groups[g].origin, s)
                ELSE [groups[h] EXCEPT !.members = Append(@, s)]
    IN  [k \in 1..(IF h > Len(groups) THEN h ELSE Len(groups)) |->
            IF k = g THEN MembershipChanged(without)
            ELSE IF k = h THEN MembershipChanged(with)
            ELSE groups[k]]

-----------------------------------------------------------------------------
(* The first groups: the states of one core, a start state alone.          *)

Core(s) == {<<p[1], p[2]>> : p \in states[s].positions}

\* The groups that a state belongs to by its core and its token group.
Matching(s) ==
    IF states[s].start # NoStart THEN {}
    ELSE {g \in DOMAIN groups :
             LET first == groups[g].members[1]
             IN  /\ states[first].token = states[s].token
                 /\ states[first].start = NoStart /\ Core(first) = Core(s)}

Joined(s, g) == [groups EXCEPT ![g].members = Append(@, s)]

Mapped(s, g) == [t \in DOMAIN mapping \union {s} |-> IF t = s THEN g ELSE mapping[t]]

JoinGroup ==
    LET s == Cardinality(DOMAIN mapping) + 1
    IN  /\ stage = "group" /\ s \in StateIds
        /\ \E g \in Matching(s) :
              /\ \A h \in Matching(s) : g <= h
              /\ groups' = Joined(s, g)
              /\ mapping' = Mapped(s, g)
        /\ UNCHANGED <<rules, states, stage, memo, scan>>

OpenGroup ==
    LET s == Cardinality(DOMAIN mapping) + 1
        g == Len(groups) + 1
    IN  /\ stage = "group" /\ s \in StateIds
        /\ Matching(s) = {}
        /\ groups' = Append(groups, Group(g, s))
        /\ mapping' = Mapped(s, g)
        /\ UNCHANGED <<rules, states, stage, memo, scan>>

Pass == [group |-> 1, last |-> Len(groups), left |-> 0, right |-> 0,
         spilled |-> FALSE, conflicts |-> FALSE]

StartPasses ==
    /\ stage = "group" /\ DOMAIN mapping = StateIds
    /\ stage' = "collapse"
    /\ memo' = NewMemo
    /\ scan' = Pass
    /\ UNCHANGED <<rules, states, mapping, groups>>

-----------------------------------------------------------------------------
(* The passes: for every group of the pass, for every left, every right.   *)

Members == groups[scan.group].members
LeftState == Members[scan.left]
RightState == Members[scan.right]

Scanning == stage = "collapse" /\ scan.group <= scan.last /\ scan.left > 0
Entering == stage = "collapse" /\ scan.group <= scan.last /\ scan.left = 0
Comparing == Scanning /\ scan.left < Len(Members) /\ scan.right <= Len(Members)

NextGroup == [scan EXCEPT !.group = @ + 1, !.left = 0]

Go(next) ==
    /\ scan' = next
    /\ UNCHANGED <<rules, states, stage>>

SkipGroup ==
    /\ Entering
    /\ IsValidated(groups[scan.group])
    /\ Go(NextGroup)
    /\ UNCHANGED <<mapping, groups, memo>>

EnterGroup ==
    /\ Entering
    /\ ~IsValidated(groups[scan.group])
    /\ Go([scan EXCEPT !.left = 1, !.right = 2, !.spilled = FALSE])
    /\ UNCHANGED <<mapping, groups, memo>>

\* Mutant: the next pair is not taken.
PairKnownStays ==
    /\ Comparing
    /\ Known(LeftState, RightState)
    /\ Go(scan)
    /\ UNCHANGED <<mapping, groups, memo>>

PairKnown ==
    /\ Comparing
    /\ Known(LeftState, RightState)
    /\ Go([scan EXCEPT !.right = @ + 1])
    /\ UNCHANGED <<mapping, groups, memo>>

PairMerges ==
    /\ Comparing
    /\ ~Known(LeftState, RightState)
    /\ CanMerge(LeftState, RightState, mapping)
    /\ memo' = Remembered(LeftState, RightState)
    /\ Go([scan EXCEPT !.right = @ + 1])
    /\ UNCHANGED <<mapping, groups>>

PairSpills ==
    LET s == RightState
        h == Destination(s, scan.group)
    IN  /\ Comparing
        /\ ~Known(LeftState, RightState)
        /\ ~CanMerge(LeftState, RightState, mapping)
        /\ mapping' = [mapping EXCEPT ![s] = h]
        /\ groups' = Spilled(scan.group, scan.right, h)
        /\ memo' = IF mapping[s] = h THEN memo ELSE MappingChanged(s)
        /\ Go([scan EXCEPT !.spilled = TRUE, !.conflicts = TRUE])

NextLeft ==
    /\ Scanning /\ scan.left < Len(Members) /\ scan.right > Len(Members)
    /\ Go([scan EXCEPT !.left = @ + 1, !.right = scan.left + 2])
    /\ UNCHANGED <<mapping, groups, memo>>

LeaveGroup ==
    /\ Scanning /\ scan.left >= Len(Members)
    /\ groups' = IF scan.spilled THEN groups
                 ELSE [groups EXCEPT ![scan.group].validated = <<Signature(groups[scan.group])>>]
    /\ Go(NextGroup)
    /\ UNCHANGED <<mapping, memo>>

NextPass ==
    /\ stage = "collapse" /\ scan.group > scan.last /\ scan.conflicts
    /\ Go(Pass)
    /\ UNCHANGED <<mapping, groups, memo>>

\* Mutant: one pass is taken for enough.
SettleAtOnce ==
    /\ stage = "collapse" /\ scan.group > scan.last
    /\ stage' = "merge"
    /\ UNCHANGED <<rules, states, mapping, groups, memo, scan>>

Settle ==
    /\ stage = "collapse" /\ scan.group > scan.last /\ ~scan.conflicts
    /\ stage' = "merge"
    /\ UNCHANGED <<rules, states, mapping, groups, memo, scan>>

CollapseNext ==
    \/ JoinGroup \/ OpenGroup \/ StartPasses
    \/ SkipGroup \/ EnterGroup \/ PairKnown \/ PairMerges \/ PairSpills
    \/ NextLeft \/ LeaveGroup \/ NextPass \/ Settle
=============================================================================
