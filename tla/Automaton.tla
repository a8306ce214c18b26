-------------------------------- MODULE Automaton --------------------------------
(***************************************************************************)
(* The LR automaton of a grammar (rezel-generator: automaton.rs): the      *)
(* rules are simplified (Simplify.tla), the first sets are computed, the   *)
(* canonical LR(1) states are built and their conflicts resolved, the      *)
(* states of one core are collapsed (Collapse.tla), and identical states   *)
(* merged.                                                                 *)
(*                                                                         *)
(* Symbols are the terms in the order of their ids.  A set of positions is *)
(* a set of triples <<rule, dot, look>>, where look is a term the position *)
(* may be followed by, or an ambiguity group it inherits; every            *)
(* nonterminal derives some text, so no position is without a look.        *)
(*                                                                         *)
(*   source    the grammar as it was written                               *)
(*   first     FirstSets, with Nothing for an empty derivation             *)
(*   filling   the state being filled, and what is left of it              *)
(*   merged    the automaton after merge_states, then after the passes of  *)
(*             merge_identical                                             *)
(***************************************************************************)
EXTENDS Collapse, Simplify

CONSTANTS
    Symbols,      \* the terms, in order
    Terminals,    \* the terms that are tokens, with Eof
    Eof,
    AmbiguityGroups,
    StartTerms,   \* the start terms, in order; the top rules
    Grammars      \* sequences of rules

VARIABLES source, first, filling, merged
vars == <<source, rules, states, stage, mapping, groups, memo, scan, first, filling,
          merged>>

Nothing == "nothing"
NoRule == 0
NoGroup == 0

Vocabulary == {Symbols[i] : i \in DOMAIN Symbols}
Nonterminals == Vocabulary \ Terminals

\* A rule has a marker before, between and after its parts, and one more for
\* every empty rule that was put in the place of a name.
MarkType == [precedence : Int, ambiguity : SUBSET AmbiguityGroups, cut : Nat]
RuleType ==
    {rule \in [name : Nonterminals, parts : Seq(Vocabulary), marks : Seq(MarkType)] :
        Len(rule.marks) > Len(rule.parts)}

ASSUME AutomatonAssumption ==
    /\ Symbols \in Seq(Vocabulary) /\ Nothing \notin Vocabulary
    /\ Terminals \subseteq Vocabulary /\ Eof \in Terminals
    /\ IsFiniteSet(AmbiguityGroups)
    /\ Grammars \subseteq Seq(RuleType)

RuleIds == DOMAIN rules
RulesOf(term) == {r \in RuleIds : rules[r].name = term}
Ordinal(term) == CHOOSE i \in DOMAIN Symbols : Symbols[i] = term

-----------------------------------------------------------------------------
(* simplify_rules.                                                         *)

InlineRules ==
    /\ stage \in {"inline", "again"}
    /\ \E names \in {Inlinable(rules, stage = "inline")} :
          IF names = {} THEN stage' = "alike" /\ UNCHANGED rules
          ELSE stage' = "again" /\ rules' = InlinePass(rules, names)
    /\ UNCHANGED <<source, states, mapping, groups, memo, scan, first, filling, merged>>

MergeRules ==
    /\ stage = "alike"
    /\ stage' = "first"
    /\ \E new \in {MergedNames(rules)} : rules' = MergeNames(rules, new)
    /\ UNCHANGED <<source, states, mapping, groups, memo, scan, first, filling, merged>>

-----------------------------------------------------------------------------
(* First sets: a pass over all rules until nothing changes.                *)

\* What the parts of a rule from k on begin with, Nothing when they can be empty.
Begins(parts, table) ==
    LET From(t) == IF t \in Terminals THEN {t} ELSE table[t]
        reached == {k \in DOMAIN parts : \A j \in 1..(k - 1) : Nothing \in From(parts[j])}
        terms == (UNION {From(parts[k]) : k \in reached}) \ {Nothing}
    IN  IF \A k \in DOMAIN parts : Nothing \in From(parts[k])
        THEN terms \union {Nothing} ELSE terms

MoreFirst ==
    [t \in Nonterminals |->
        first[t] \union UNION {Begins(rules[r].parts, first) : r \in RulesOf(t)}]

FirstPass ==
    /\ stage = "first" /\ MoreFirst # first
    /\ first' = MoreFirst
    /\ UNCHANGED <<source, rules, states, stage, mapping, groups, memo, scan, filling, merged>>

-----------------------------------------------------------------------------
(* Positions and closures.                                                 *)

Item(p) == <<p[1], p[2]>>
Length(rule) == Len(rules[rule].parts)
AtEnd(p) == p[2] = Length(p[1])
NextOf(p) == IF AtEnd(p) THEN Nothing ELSE rules[p[1]].parts[p[2] + 1]
Advance(positions) == {<<p[1], p[2] + 1, p[3]>> : p \in positions}

Looks(positions, item) == {p[3] : p \in {p \in positions : Item(p) = item}}

\* The marker of a rule at a dot.
Mark(rule, dot) == rules[rule].marks[dot + 1]

\* Position::conflicts: at its end a position has the groups it inherits, too.
Conflicts(item, positions, dot) ==
    IF dot # Length(item[1]) THEN Mark(item[1], dot)
    ELSE Join(Mark(item[1], dot),
              [Neutral EXCEPT !.ambiguity = Looks(positions, item) \ Terminals])

\* terms_ahead: what follows the part after the dot.
TermsAhead(begins, after) ==
    (begins \ {Nothing}) \union (IF Nothing \in begins THEN after ELSE {})

\* What one position contributes to the closure: the rules of its next term.
Contribution(item, positions) ==
    LET parts == rules[item[1]].parts
    IN  IF item[2] = Len(parts) \/ parts[item[2] + 1] \in Terminals THEN {}
        ELSE RulesOf(parts[item[2] + 1]) \X {0}
             \X (TermsAhead(Begins(SubSeq(parts, item[2] + 2, Len(parts)), first),
                            Looks(positions, item) \cap Terminals)
                 \union Conflicts(item, positions, item[2] + 1).ambiguity)

AllPositions ==
    UNION {{r} \X (0..Length(r)) \X (Terminals \union AmbiguityGroups) : r \in RuleIds}

\* The least set with the core and all contributions.
Closure(core) ==
    LET all == AllPositions
        Wider(set) ==
            set \union UNION {Contribution(item, set) : item \in {Item(p) : p \in set}}
        widen[set \in SUBSET all] ==
            LET wider == Wider(set) IN IF wider = set THEN set ELSE widen[wider]
    IN  widen[core]

-----------------------------------------------------------------------------
(* States.                                                                 *)

NewState(positions, start) ==
    [positions |-> positions, start |-> start, actions |-> {}, gotos |-> {},
     default |-> NoRule, token |-> NoGroup]

\* find_core and find_state: the state with these positions.
Found(positions) == {s \in StateIds : states[s].positions = positions}

NextId == Cardinality(StateIds) + 1

WithNew(state) ==
    [s \in StateIds \union {NextId} |-> IF s \in StateIds THEN states[s] ELSE state]

Start ==
    /\ stage = "first" /\ MoreFirst = first
    /\ stage' = "start"
    /\ UNCHANGED <<source, rules, states, mapping, groups, memo, scan, first, filling, merged>>

\* add_start_states: a state of its own for each start term with a rule.
AddStartState ==
    LET term == StartTerms[filling.started + 1]
        core == RulesOf(term) \X {0} \X {Eof}
    IN  /\ stage = "start" /\ filling.started < Len(StartTerms)
        /\ states' = IF core = {} THEN states ELSE WithNew(NewState(Closure(core), term))
        /\ filling' = [filling EXCEPT !.started = @ + 1]
        /\ UNCHANGED <<source, rules, stage, mapping, groups, memo, scan, first, merged>>

\* The term of a transition, or of a reduction and its rule.
Ends(positions) ==
    {p \in positions : /\ AtEnd(p) /\ p[3] \in Terminals
                       /\ \A i \in DOMAIN StartTerms : StartTerms[i] # rules[p[1]].name}

Opened(s) ==
    [filling EXCEPT !.at = s,
                    !.terms = {NextOf(p) : p \in states[s].positions} \ {Nothing},
                    !.ends = Ends(states[s].positions),
                    !.replaced = FALSE]

StartFilling ==
    /\ stage = "start" /\ filling.started = Len(StartTerms)
    /\ 1 \in StateIds
    /\ stage' = "fill"
    /\ filling' = Opened(1)
    /\ UNCHANGED <<source, rules, states, mapping, groups, memo, scan, first, merged>>

-----------------------------------------------------------------------------
(* add_action: an action that meets another one on its term.               *)

\* The items an action comes from, and the items that led to those.
Causes(state, action) ==
    IF action.kind = "shift"
    THEN {Item(p) : p \in {p \in state.positions : NextOf(p) = action.term}}
    ELSE {<<action.to, Length(action.to)>>}

Origins(state, items) ==
    LET context == {Item(p) : p \in state.positions}
        Back(set) == set \union {c \in context : \E i \in set :
                                    i[2] = 0 /\ NextOf(c) = rules[i[1]].name}
        trace[set \in SUBSET context] ==
            LET back == Back(set) IN IF back = set THEN set ELSE trace[back]
    IN  trace[items]

\* conflicts_at: the join of the conflicts that are not neutral.
ConflictsAt(state, items) ==
    LET all == {Conflicts(i, state.positions, i[2]) : i \in items} \ {Neutral}
    IN  [precedence |-> IF all = {} THEN 0 ELSE Largest({c.precedence : c \in all}),
         ambiguity |-> UNION {c.ambiguity : c \in all},
         cut |-> Largest({0} \union {c.cut : c \in all})]

\* compare_repeat_precedence: a finished pair of repetitions comes first.
RepeatPrecedence(left, right) ==
    LET Pair(i) == i[2] = 2 /\ IsRepeatWrap(rules[i[1]])
        Meets(i, j) == /\ rules[i[1]].name \in Repeated
                       /\ rules[i[1]].name = rules[j[1]].name
    IN  IF \E i \in left, j \in right : Meets(i, j) /\ Pair(i) THEN 1
        ELSE IF \E i \in left, j \in right : Meets(i, j) /\ Pair(j) THEN -1
        ELSE 0

Compared(repeat, mine, its) ==
    CASE repeat + mine.precedence > its.precedence -> "replaces"
      [] repeat + mine.precedence < its.precedence -> "yields"
      [] repeat + mine.precedence = its.precedence ->
            IF mine.ambiguity \cap its.ambiguity # {} THEN "allowed" ELSE "conflict"

Judged(state, left, right) ==
    Compared(RepeatPrecedence(left, right), ConflictsAt(state, left),
             ConflictsAt(state, right))

Verdict(state, new, old) ==
    IF EquivalentMapped(old, new, [s \in StateIds |-> s]) THEN "same"
    ELSE Judged(state, Origins(state, Causes(state, new)),
                Origins(state, Causes(state, old)))

\* The actions on the term up to the first one that ends the loop are compared.
AddedBy(state, new, verdict) ==
    LET ending == {a \in DOMAIN verdict : verdict[a] \in {"same", "yields", "conflict"}}
        beaten == {a \in DOMAIN verdict : /\ verdict[a] = "replaces"
                                          /\ \A e \in ending : a.order < e.order}
        order == 1 + Largest({0} \union {a.order : a \in state.actions})
    IN  [rejected |-> \E e \in ending : /\ verdict[e] = "conflict"
                                        /\ \A a \in ending : e.order <= a.order,
         actions |-> (state.actions \ beaten)
                     \union (IF ending = {} THEN {[new EXCEPT !.order = order]} ELSE {})]

Added(state, new) ==
    AddedBy(state, new, [a \in On(state.actions, new.term) |-> Verdict(state, new, a)])

Shift(term, target) == [kind |-> "shift", term |-> term, to |-> target, order |-> 0]
Reduce(term, rule) == [kind |-> "reduce", term |-> term, to |-> rule, order |-> 0]

-----------------------------------------------------------------------------
(* fill_state.                                                             *)

\* apply_cut: the positions with the largest cut before the dot, if any is cut.
CutOf(p) == Mark(p[1], p[2] - 1).cut
ApplyCut(positions) ==
    LET found == {p \in positions : CutOf(p) >= 1 /\ \A q \in positions : CutOf(q) <= CutOf(p)}
    IN  IF found = {} THEN positions ELSE found

\* The states and the target of a transition to some positions.
Reached(positions) ==
    IF Found(positions) = {}
    THEN [states |-> WithNew(NewState(positions, NoStart)), to |-> NextId]
    ELSE [states |-> states,
          to |-> CHOOSE s \in Found(positions) : \A t \in Found(positions) : s <= t]

After(s, term) == Advance({p \in states[s].positions : NextOf(p) = term})

Filling == stage = "fill" /\ filling.at \in StateIds

Transition(term) ==
    /\ Filling /\ term \in filling.terms
    /\ \A other \in filling.terms : Ordinal(term) <= Ordinal(other)
    /\ filling' = [filling EXCEPT !.terms = @ \ {term}]
    /\ UNCHANGED <<source, rules, stage, mapping, groups, memo, scan, first, merged>>

AddGoto ==
    \E term \in Nonterminals :
        /\ Transition(term)
        /\ \E reached \in {Reached(Closure(After(filling.at, term)))} :
              states' = [reached.states EXCEPT
                            ![filling.at].gotos = @ \union {Shift(term, reached.to)}]

AddShift ==
    \E term \in Terminals :
        /\ Transition(term)
        /\ \E reached \in {Reached(Closure(ApplyCut(After(filling.at, term))))} :
              states' = [reached.states EXCEPT
                            ![filling.at].actions =
                                Added(states[filling.at], Shift(term, reached.to)).actions]

\* The reductions, in the order of their positions.
FirstEnd(ends) ==
    CHOOSE p \in ends : \A q \in ends :
        \/ p[1] < q[1]
        \/ p[1] = q[1] /\ Ordinal(p[3]) <= Ordinal(q[3])

AddReduction ==
    /\ Filling /\ filling.terms = {} /\ filling.ends # {}
    /\ \E end \in {FirstEnd(filling.ends)} :
       \E added \in {Added(states[filling.at], Reduce(end[3], end[1]))} :
          IF added.rejected
          THEN stage' = "rejected" /\ UNCHANGED <<states, filling>>
          ELSE /\ states' = [states EXCEPT ![filling.at].actions = added.actions]
               /\ filling' = [filling EXCEPT
                     !.ends = @ \ {end},
                     !.replaced = @ \/ Cardinality(added.actions)
                                         = Cardinality(states[filling.at].actions)]
               /\ UNCHANGED stage
    /\ UNCHANGED <<source, rules, mapping, groups, memo, scan, first, merged>>

\* retain_compatible_gotos: gotos of the terms that can begin with a shift.
Retained(state) ==
    {g \in state.gotos : \E a \in state.actions : a.kind = "shift" /\ a.term \in first[g.term]}

CloseState ==
    /\ Filling /\ filling.terms = {} /\ filling.ends = {}
    /\ states' = IF filling.replaced
                 THEN [states EXCEPT ![filling.at].gotos = Retained(states[filling.at])]
                 ELSE states
    /\ filling' = IF filling.at + 1 \in StateIds THEN Opened(filling.at + 1)
                  ELSE [filling EXCEPT !.at = @ + 1]
    /\ UNCHANGED <<source, rules, stage, mapping, groups, memo, scan, first, merged>>

\* State::finish: the default reduction of a state that does nothing else.
DefaultReduce(state) ==
    LET earliest ==
            CHOOSE a \in state.actions : \A b \in state.actions : a.order <= b.order
    IN  IF /\ state.actions # {}
           /\ \A a \in state.actions : a.kind = "reduce"
           /\ \A a \in state.actions : SameReduce(earliest.to, a.to)
        THEN earliest.to ELSE NoRule

Finish ==
    /\ stage = "fill" /\ filling.at \notin StateIds
    /\ states' = [s \in StateIds |-> [states[s] EXCEPT !.default = DefaultReduce(states[s])]]
    /\ stage' = "tokens"
    /\ UNCHANGED <<source, rules, mapping, groups, memo, scan, first, filling, merged>>

-----------------------------------------------------------------------------
(* The token groups of the states, whatever they are: TokenGroups.tla says *)
(* how they are found, and which tokens are refused.                       *)

AssignTokens(token) ==
    /\ stage = "tokens"
    /\ states' = [s \in StateIds |-> [states[s] EXCEPT !.token = token[s]]]
    /\ stage' = "group"
    /\ UNCHANGED <<source, rules, mapping, groups, memo, scan, first, filling, merged>>

RefuseTokens ==
    /\ stage = "tokens"
    /\ stage' = "rejected"
    /\ UNCHANGED <<source, rules, states, mapping, groups, memo, scan, first, filling, merged>>

-----------------------------------------------------------------------------
(* merge_states and merge_identical.  The rules that reduce alike are      *)
(* represented by the first of them.                                       *)

Representative(rule) ==
    IF rule = NoRule THEN NoRule
    ELSE CHOOSE r \in RuleIds :
            SameReduce(r, rule) /\ \A q \in RuleIds : (SameReduce(q, rule) => r <= q)

\* compare_actions.
Before(a, b) ==
    LET Key(x) == <<IF x.kind = "shift" THEN 0 ELSE 1, Ordinal(x.term),
                    IF x.kind = "shift" THEN x.to ELSE Ordinal(rules[x.to].name),
                    IF x.kind = "shift" THEN 0 ELSE Length(x.to), x.order>>
    IN  \E k \in 1..5 : Key(a)[k] < Key(b)[k] /\ \A j \in 1..(k - 1) : Key(a)[j] = Key(b)[j]

\* The members of a set in an order.
Sorted(set, Less(_, _)) ==
    [i \in 1..Cardinality(set) |->
        CHOOSE x \in set : Cardinality({y \in set : Less(y, x)}) = i - 1]

MappedAction(action) ==
    [kind |-> action.kind, term |-> action.term,
     to |-> IF action.kind = "shift" THEN mapping[action.to] ELSE Representative(action.to)]

\* The actions of a state, in order.
OrderedActions(actions) ==
    CHOOSE list \in {[k \in DOMAIN o |-> MappedAction(o[k])] : o \in {Sorted(actions, Before)}} :
        TRUE

\* The actions of the states of a group, each state's in order.
AllMapped(sources, set(_)) ==
    FlattenSeq([i \in DOMAIN sources |-> OrderedActions(set(sources[i]))])

\* A sequence without what was in it before.
DistinctOf(list) ==
    Picked(list, {i \in DOMAIN list : \A j \in 1..(i - 1) : list[j] # list[i]})

Sources(g) == InOrder({s \in StateIds : mapping[s] = g})

Together(sources) ==
    [core |-> Core(sources[1]), start |-> states[sources[1]].start,
     token |-> states[sources[1]].token,
     default |-> Representative(states[sources[1]].default),
     actions |-> AllMapped(sources, LAMBDA s : states[s].actions),
     gotos |-> AllMapped(sources, LAMBDA s : states[s].gotos)]

MergeStates ==
    /\ stage = "merge"
    /\ \E all \in {[g \in 1..Largest({mapping[s] : s \in StateIds}) |-> Together(Sources(g))]} :
          merged' = [g \in DOMAIN all |-> [all[g] EXCEPT !.actions = DistinctOf(@),
                                                        !.gotos = DistinctOf(@)]]
    /\ stage' = "identical"
    /\ UNCHANGED <<source, rules, states, mapping, groups, memo, scan, first, filling>>

\* Mutant: the gotos are not compared.
BehaviorEqByActions(a, b) ==
    \/ a.default # NoRule /\ a.default = b.default
    \/ /\ a.default = NoRule /\ b.default = NoRule
       /\ a.token = b.token /\ a.actions = b.actions

BehaviorEq(a, b) ==
    \/ a.default # NoRule /\ a.default = b.default
    \/ /\ a.default = NoRule /\ b.default = NoRule
       /\ a.token = b.token /\ a.actions = b.actions /\ a.gotos = b.gotos

\* The first state of merged that behaves as s does, and its new number.
Original(s) ==
    CHOOSE t \in 1..s : /\ BehaviorEq(merged[s], merged[t])
                        /\ \A u \in 1..(t - 1) : ~BehaviorEq(merged[s], merged[u])
Originals == {s \in DOMAIN merged : Original(s) = s}
Renumbered == [s \in DOMAIN merged |-> Cardinality({t \in Originals : t <= Original(s)})]

\* What becomes of a state that is kept: its actions follow the new numbers,
\* but those of a state with a default reduction are left as they are.
Retargeted(s, to) ==
    LET Follow(list) == [i \in DOMAIN list |->
                            IF list[i].kind = "shift" THEN [list[i] EXCEPT !.to = to[@]]
                            ELSE list[i]]
        core == UNION {merged[t].core : t \in {t \in DOMAIN merged : Original(t) = s}}
        joined == [merged[s] EXCEPT !.core = core]
    IN  IF joined.default # NoRule THEN joined
        ELSE [joined EXCEPT !.actions = Follow(@), !.gotos = Follow(@)]

MergeIdentical ==
    /\ stage = "identical" /\ Originals # DOMAIN merged
    /\ \E to \in {Renumbered}, originals \in {Originals} :
       \E kept \in {InOrder(originals)} :
          merged' = [k \in DOMAIN kept |-> Retargeted(kept[k], to)]
    /\ UNCHANGED <<source, rules, states, stage, mapping, groups, memo, scan, first, filling>>

Done ==
    /\ stage = "identical" /\ Originals = DOMAIN merged
    /\ stage' = "done"
    /\ UNCHANGED <<source, rules, states, mapping, groups, memo, scan, first, filling, merged>>

-----------------------------------------------------------------------------
Init ==
    /\ source \in Grammars /\ rules = source
    /\ stage = "inline"
    /\ first = [t \in Nonterminals |-> {}]
    /\ states = <<>> /\ mapping = <<>> /\ groups = <<>> /\ merged = <<>>
    /\ memo = [changed |-> <<>>, next |-> 0, merges |-> <<>>]
    /\ scan = [group |-> 1, last |-> 0, left |-> 0, right |-> 0,
               spilled |-> FALSE, conflicts |-> FALSE]
    /\ filling = [started |-> 0, at |-> 0, terms |-> {}, ends |-> {}, replaced |-> FALSE]

Build ==
    \/ InlineRules \/ MergeRules \/ FirstPass \/ Start \/ AddStartState \/ StartFilling
    \/ AddGoto \/ AddShift \/ AddReduction \/ CloseState \/ Finish

Collapsing == CollapseNext /\ UNCHANGED <<source, first, filling, merged>>

Merging == MergeStates \/ MergeIdentical \/ Done

Tokenizing ==
    RefuseTokens \/ \E token \in [StateIds -> Nat] : AssignTokens(token)

Next == Build \/ Tokenizing \/ Collapsing \/ Merging

\* The generator runs on until it is through.
Spec == Init /\ [][Next]_vars /\ WF_vars(Next)

-----------------------------------------------------------------------------
(* What the collapse has to be right about.                                *)

Compatible(s, t) == CanMerge(s, t, mapping) \/ CanMerge(t, s, mapping)

(* When the passes are over, all states of a group can be merged with each *)
(* other under the mapping they ended with, though a pair may have been    *)
(* looked at passes ago, and not since: no action of the merged state is   *)
(* one that another of its states would not take.                          *)
Sound ==
    stage \in {"merge", "identical", "done"} =>
        \A s, t \in StateIds : mapping[s] = mapping[t] /\ s # t => Compatible(s, t)

(* What the memo says of a pair is so, however the states that the two     *)
(* lead to have been moved since it was written down.                      *)
MemoHonest ==
    stage = "collapse" =>
        \A s, t \in StateIds : Known(s, t) => CanMerge(s, t, mapping)

(* A group that the next pass skips has nothing to spill.                  *)
SkipHonest ==
    stage = "collapse" =>
        \A g \in DOMAIN groups : IsValidated(groups[g]) =>
            \A j \in DOMAIN groups[g].members : \A i \in 1..(j - 1) :
                CanMerge(groups[g].members[i], groups[g].members[j], mapping)

(* Two actions for one term in a merged state were there, for that term,   *)
(* in a state it was made of: collapsing brings no conflict of its own.    *)
NoNewConflict ==
    stage = "identical" /\ DOMAIN merged = DOMAIN groups =>
        \A g \in DOMAIN merged : \A i, j \in DOMAIN merged[g].actions :
            LET term == merged[g].actions[i].term
            IN  i # j /\ merged[g].actions[j].term = term =>
                    \E s \in StateIds :
                        mapping[s] = g /\ Cardinality(On(states[s].actions, term)) > 1

(* The passes, each of which may undo what an earlier one found, come to   *)
(* an end, and so does the merge of the states that became identical.      *)
Finishes == <>(stage \in {"done", "rejected"})
=============================================================================
