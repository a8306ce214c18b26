----------------------------- MODULE AutomatonProofs -----------------------------
(***************************************************************************)
(* The collapse of the LR states is right about every automaton: what the  *)
(* memo and the signatures of the groups save is work that would find      *)
(* nothing, and the states of a group can be merged when it settles.       *)
(***************************************************************************)
EXTENDS Automaton, NumberProofs

Early == {"inline", "again", "alike", "first", "start", "fill", "tokens"}
Late == {"merge", "identical", "done"}

IsState(r) ==
    r = [positions |-> r.positions, start |-> r.start, actions |-> r.actions,
         gotos |-> r.gotos, default |-> r.default, token |-> r.token]

\* The shifts and gotos of every state lead to states.
ClosedTable(table) ==
    /\ DOMAIN table \subseteq Nat /\ IsFiniteSet(DOMAIN table)
    /\ \A s \in DOMAIN table :
          /\ IsState(table[s])
          /\ \A a \in table[s].actions \union table[s].gotos :
                a.kind = "shift" => a.to \in DOMAIN table

Closed == ClosedTable(states)

Signed == [membership : Nat, dependency : Nat]

GroupType ==
    [origin : Nat, members : Seq(StateIds), revision : Nat, validated : Seq(Signed)]

\* A state is in one place: in the group that it is mapped to.
Grouped ==
    /\ groups \in Seq(GroupType)
    /\ mapping \in [DOMAIN mapping -> DOMAIN groups]
    /\ DOMAIN mapping \subseteq StateIds
    /\ \A g \in DOMAIN groups : \A i \in DOMAIN groups[g].members :
          groups[g].members[i] \in DOMAIN mapping /\ mapping[groups[g].members[i]] = g
    /\ \A g \in DOMAIN groups : \A i, j \in DOMAIN groups[g].members :
          groups[g].members[i] = groups[g].members[j] => i = j
    /\ \A s \in DOMAIN mapping : \E i \in DOMAIN groups[mapping[s]].members :
          groups[mapping[s]].members[i] = s

Unscanned ==
    /\ \E k \in Nat : DOMAIN mapping = 1..k
    /\ \A g \in DOMAIN groups : groups[g].validated = <<>>

\* The pairs that can be merged now.
Mergeable == {p \in StateIds \X StateIds : CanMerge(p[1], p[2], mapping)}

AllMerge(g) ==
    \A j \in DOMAIN groups[g].members : \A i \in 1..(j - 1) :
        <<groups[g].members[i], groups[g].members[j]>> \in Mergeable

\* The dependency revision of a group.
Latest(g) == Largest(Revisions(groups[g].members))

\* No revision is ahead of the memo's.
Stamped ==
    /\ memo \in [changed : [StateIds -> Nat], next : Nat,
                 merges : [StateIds \X StateIds -> Int]]
    /\ \A s \in StateIds : memo.changed[s] <= memo.next
    /\ \A p \in StateIds \X StateIds : memo.merges[p] <= memo.next
    /\ \A g \in DOMAIN groups :
          groups[g].validated # <<>> => groups[g].validated[1].dependency <= memo.next

\* What the memo knows is so.
Remembering == \A l, r \in StateIds : Known(l, r) => <<l, r>> \in Mergeable

\* A scan without a spill is good for as long as the group's dependency
\* revision is what it was: a change of the members takes the signature away.
Validating ==
    \A g \in DOMAIN groups :
        groups[g].validated # <<>> /\ groups[g].validated[1].dependency = Latest(g)
            => AllMerge(g)

ScanType ==
    [group : Nat \ {0}, last : Nat, left : Nat, right : Nat,
     spilled : BOOLEAN, conflicts : BOOLEAN]

\* A pass without a conflict has not changed the groups.
Scanned ==
    /\ scan \in ScanType
    /\ scan.last <= Len(groups)
    /\ scan.left > 0 => scan.right > scan.left
    /\ scan.left > 0 /\ scan.spilled => scan.conflicts
    /\ ~scan.conflicts => scan.last = Len(groups)

\* What a scan has behind it can be merged, unless it has spilled a state.
Comparisons ==
    scan.left > 0 /\ scan.group <= scan.last /\ ~scan.spilled =>
        \A j \in DOMAIN groups[scan.group].members : \A i \in 1..(j - 1) :
            i < scan.left \/ (i = scan.left /\ j < scan.right) =>
                <<groups[scan.group].members[i], groups[scan.group].members[j]>> \in Mergeable

\* So do the groups that a pass without a conflict has behind it.
Passing == ~scan.conflicts => \A g \in DOMAIN groups : g < scan.group => AllMerge(g)

CollapseInv ==
    /\ DOMAIN mapping = StateIds
    /\ Stamped /\ Remembering /\ Validating
    /\ Scanned /\ Comparisons /\ Passing

AutomatonInv ==
    /\ stage \in Early \union Late \union {"group", "collapse", "rejected"}
    /\ Closed
    /\ stage \in Early => groups = <<>> /\ mapping = <<>>
    /\ stage \in {"group", "collapse"} => Grouped
    /\ stage = "group" => Unscanned
    /\ stage = "collapse" => CollapseInv
    /\ Sound

-----------------------------------------------------------------------------
\* A set of numbers up to one has a largest one.
LEMMA LargestChosen ==
    ASSUME NEW n \in Nat, NEW T \in SUBSET (0..n), T # {}
    PROVE  Largest(T) \in T /\ \A k \in T : k <= Largest(T)
BY LargestNumber DEF Largest

-----------------------------------------------------------------------------
(* What a merge depends on.                                                *)

ActionsOf(s) == states[s].actions \union states[s].gotos

\* Whether two actions are the same under a mapping is a matter of their targets.
LEMMA SameTargets ==
    ASSUME NEW l \in StateIds, NEW r \in StateIds, NEW one, NEW two,
           \A t \in Targets(l) \union Targets(r) : one[t] = two[t],
           NEW a \in ActionsOf(l), NEW b \in ActionsOf(r)
    PROVE  /\ EquivalentMapped(a, b, one) <=> EquivalentMapped(a, b, two)
           /\ EquivalentMapped(b, a, one) <=> EquivalentMapped(b, a, two)
BY DEF ActionsOf, EquivalentMapped, Targets

\* A merge is a matter of the mapping of the targets of the two states.
LEMMA Dependence ==
    ASSUME NEW l \in StateIds, NEW r \in StateIds, NEW one, NEW two,
           \A t \in Targets(l) \union Targets(r) : one[t] = two[t]
    PROVE  CanMerge(l, r, one) <=> CanMerge(l, r, two)
<1>1. \A a \in ActionsOf(l), b \in ActionsOf(r) :
          /\ EquivalentMapped(a, b, one) <=> EquivalentMapped(a, b, two)
          /\ EquivalentMapped(b, a, one) <=> EquivalentMapped(b, a, two)
    BY SameTargets
<1>2. GotosCompatible(states[l].gotos, states[r].gotos, one)
          <=> GotosCompatible(states[l].gotos, states[r].gotos, two)
    BY <1>1 DEF GotosCompatible, ActionsOf
<1>3. ASSUME NEW term
      PROVE  RangesCompatible(On(states[l].actions, term), On(states[r].actions, term), one)
                 <=> RangesCompatible(On(states[l].actions, term), On(states[r].actions, term), two)
    <2> DEFINE L == On(states[l].actions, term)
               R == On(states[r].actions, term)
    <2>1. L \subseteq ActionsOf(l) /\ R \subseteq ActionsOf(r)
        BY DEF On, ActionsOf
    <2> HIDE DEF L, R
    <2>2. RangesCompatible(L, R, one) <=> RangesCompatible(L, R, two)
        BY <1>1, <2>1 DEF RangesCompatible
    <2> QED BY <2>2 DEF L, R
<1>4. ActionsCompatible(states[l].actions, states[r].actions, one)
          <=> ActionsCompatible(states[l].actions, states[r].actions, two)
    BY <1>3 DEF ActionsCompatible
<1> QED BY <1>2, <1>4 DEF CanMerge

-----------------------------------------------------------------------------
(* Building keeps the table closed.                                        *)

LEMMA TargetsAreStates ==
    ASSUME Closed, NEW s \in StateIds
    PROVE  Targets(s) \subseteq StateIds
BY DEF Closed, ClosedTable, Targets, StateIds

LEMMA ClosedWithNew ==
    ASSUME Closed, NEW positions, NEW start
    PROVE  ClosedTable(WithNew(NewState(positions, start)))
<1> DEFINE new == NewState(positions, start)
           table == WithNew(new)
<1>1. IsState(new) /\ new.actions = {} /\ new.gotos = {}
    BY DEF IsState, NewState
<1>2. NextId \in Nat /\ IsFiniteSet(StateIds \union {NextId})
    BY FS_CardinalityType, FS_AddElement DEF Closed, ClosedTable, NextId, StateIds
<1> HIDE DEF new
<1>3. /\ DOMAIN table = StateIds \union {NextId}
      /\ \A s \in DOMAIN table : table[s] = IF s \in StateIds THEN states[s] ELSE new
    BY DEF WithNew
<1> HIDE DEF table
<1>4. ClosedTable(table)
    BY <1>1, <1>2, <1>3 DEF Closed, ClosedTable, StateIds
<1> QED BY <1>4 DEF table, new

LEMMA ClosedWithActions ==
    ASSUME NEW table, ClosedTable(table), NEW at, NEW actions,
           \A a \in actions : a.kind = "shift" => a.to \in DOMAIN table
    PROVE  ClosedTable([table EXCEPT ![at].actions = actions])
<1> DEFINE new == [table EXCEPT ![at].actions = actions]
<1>1. /\ DOMAIN new = DOMAIN table
      /\ \A s \in DOMAIN table :
            new[s] = IF s = at THEN [table[s] EXCEPT !.actions = actions] ELSE table[s]
    OBVIOUS
<1> HIDE DEF new
<1>2. ASSUME NEW s \in DOMAIN table
      PROVE  /\ IsState(new[s])
             /\ new[s].gotos = table[s].gotos
             /\ new[s].actions = table[s].actions \/ new[s].actions = actions
    BY <1>1 DEF ClosedTable, IsState
<1>3. ClosedTable(new)
    BY <1>1, <1>2 DEF ClosedTable
<1> QED BY <1>3 DEF new

LEMMA ClosedWithGotos ==
    ASSUME NEW table, ClosedTable(table), NEW at, NEW gotos,
           \A a \in gotos : a.kind = "shift" => a.to \in DOMAIN table
    PROVE  ClosedTable([table EXCEPT ![at].gotos = gotos])
<1> DEFINE new == [table EXCEPT ![at].gotos = gotos]
<1>1. /\ DOMAIN new = DOMAIN table
      /\ \A s \in DOMAIN table :
            new[s] = IF s = at THEN [table[s] EXCEPT !.gotos = gotos] ELSE table[s]
    OBVIOUS
<1> HIDE DEF new
<1>2. ASSUME NEW s \in DOMAIN table
      PROVE  /\ IsState(new[s])
             /\ new[s].actions = table[s].actions
             /\ new[s].gotos = table[s].gotos \/ new[s].gotos = gotos
    BY <1>1 DEF ClosedTable, IsState
<1>3. ClosedTable(new)
    BY <1>1, <1>2 DEF ClosedTable
<1> QED BY <1>3 DEF new

\* A transition leads to a state, an old one or the new one.
LEMMA ReachedCloses ==
    ASSUME Closed, NEW positions
    PROVE  /\ ClosedTable(Reached(positions).states)
           /\ Reached(positions).to \in DOMAIN Reached(positions).states
           /\ \A s \in StateIds : /\ s \in DOMAIN Reached(positions).states
                                  /\ Reached(positions).states[s] = states[s]
<1>1. CASE Found(positions) = {}
    <2>1. /\ Reached(positions).states = WithNew(NewState(positions, NoStart))
          /\ Reached(positions).to = NextId
        BY <1>1 DEF Reached
    <2> QED BY <2>1, ClosedWithNew DEF WithNew
<1>2. CASE Found(positions) # {}
    <2>1. Found(positions) \in SUBSET Nat
        BY DEF Found, Closed, ClosedTable, StateIds
    <2>2. \E s \in Found(positions) : \A t \in Found(positions) : s <= t
        BY <1>2, <2>1, LeastNumber
    <2>3. Reached(positions).states = states /\ Reached(positions).to \in Found(positions)
        BY <1>2, <2>2 DEF Reached
    <2> QED BY <2>3 DEF Found, Closed, StateIds
<1> QED BY <1>1, <1>2

\* What is added to the actions of a state is the new action.
LEMMA AddedActions ==
    ASSUME NEW state, NEW term, NEW target, NEW kind,
           NEW new, new = [kind |-> kind, term |-> term, to |-> target, order |-> 0]
    PROVE  \A a \in Added(state, new).actions :
              a \in state.actions \/ (a.kind = kind /\ a.to = target)
<1>1. ASSUME NEW verdict
      PROVE  \A a \in AddedBy(state, new, verdict).actions :
                a \in state.actions \/ (a.kind = kind /\ a.to = target)
    BY DEF AddedBy
<1> QED BY <1>1 DEF Added

\* The steps that come before the states are grouped.
LEMMA BuildClosed ==
    ASSUME Closed, Build
    PROVE  Closed'
<1> USE DEF Closed
<1>1. CASE UNCHANGED states
    BY <1>1 DEF ClosedTable, IsState
<1>2. CASE AddStartState
    BY <1>2, <1>1, ClosedWithNew DEF AddStartState
<1>3. CASE AddGoto
    <2>1. PICK term \in Nonterminals :
              \E reached \in {Reached(Closure(After(filling.at, term)))} :
                 states' = [reached.states EXCEPT
                              ![filling.at].gotos = @ \union {Shift(term, reached.to)}]
        BY <1>3 DEF AddGoto
    <2> DEFINE reached == Reached(Closure(After(filling.at, term)))
               gotos == reached.states[filling.at].gotos \union {Shift(term, reached.to)}
    <2>2. states' = [reached.states EXCEPT ![filling.at].gotos = gotos]
        BY <2>1
    <2>3. ClosedTable(reached.states) /\ reached.to \in DOMAIN reached.states
        BY ReachedCloses
    <2>4. CASE filling.at \in DOMAIN reached.states
        <3>1. \A a \in gotos : a.kind = "shift" => a.to \in DOMAIN reached.states
            BY <2>3, <2>4 DEF ClosedTable, Shift
        <3> HIDE DEF reached, gotos
        <3> QED BY <2>2, <2>3, <3>1, ClosedWithGotos
    <2>5. CASE filling.at \notin DOMAIN reached.states
        <3> HIDE DEF reached, gotos
        <3>1. \A s \in DOMAIN reached.states : states'[s] = reached.states[s]
            BY <2>2, <2>5
        <3>2. DOMAIN states' = DOMAIN reached.states
            BY <2>2
        <3> QED BY <2>3, <3>1, <3>2 DEF ClosedTable
    <2> QED BY <2>4, <2>5
<1>4. CASE AddShift
    <2>1. PICK term \in Terminals :
              /\ Transition(term)
              /\ \E reached \in {Reached(Closure(ApplyCut(After(filling.at, term))))} :
                    states' = [reached.states EXCEPT
                                 ![filling.at].actions =
                                     Added(states[filling.at], Shift(term, reached.to)).actions]
        BY <1>4 DEF AddShift
    <2> DEFINE reached == Reached(Closure(ApplyCut(After(filling.at, term))))
               actions == Added(states[filling.at], Shift(term, reached.to)).actions
    <2>2. states' = [reached.states EXCEPT ![filling.at].actions = actions]
        BY <2>1
    <2>3. /\ ClosedTable(reached.states) /\ reached.to \in DOMAIN reached.states
          /\ StateIds \subseteq DOMAIN reached.states
        BY ReachedCloses
    <2>4. filling.at \in StateIds
        BY <2>1 DEF Transition, Filling
    <2>5. \A a \in actions : a.kind = "shift" => a.to \in DOMAIN reached.states
        <3>1. \A a \in actions : a \in states[filling.at].actions
                                   \/ (a.kind = "shift" /\ a.to = reached.to)
            BY AddedActions DEF Shift
        <3>2. \A a \in states[filling.at].actions :
                  a.kind = "shift" => a.to \in DOMAIN reached.states
            BY <2>3, <2>4 DEF ClosedTable, StateIds
        <3> HIDE DEF reached, actions
        <3> QED BY <2>3, <3>1, <3>2
    <2> HIDE DEF reached, actions
    <2> QED BY <2>2, <2>3, <2>5, ClosedWithActions
<1>5. CASE AddReduction
    <2>1. PICK end : \E added \in {Added(states[filling.at], Reduce(end[3], end[1]))} :
              \/ UNCHANGED states
              \/ states' = [states EXCEPT ![filling.at].actions = added.actions]
        BY <1>5 DEF AddReduction
    <2> DEFINE actions == Added(states[filling.at], Reduce(end[3], end[1])).actions
    <2>2. UNCHANGED states \/ states' = [states EXCEPT ![filling.at].actions = actions]
        BY <2>1
    <2>3. filling.at \in StateIds
        BY <1>5 DEF AddReduction, Filling
    <2>4. \A a \in actions : a.kind = "shift" => a.to \in DOMAIN states
        <3>1. \A a \in actions : a \in states[filling.at].actions \/ a.kind = "reduce"
            BY AddedActions DEF Reduce
        <3> HIDE DEF actions
        <3> QED BY <2>3, <3>1 DEF ClosedTable, StateIds
    <2> HIDE DEF actions
    <2>5. ClosedTable([states EXCEPT ![filling.at].actions = actions])
        BY <2>4, ClosedWithActions
    <2> QED BY <1>1, <2>2, <2>5
<1>6. CASE CloseState
    <2>1. UNCHANGED states
          \/ states' = [states EXCEPT ![filling.at].gotos = Retained(states[filling.at])]
        BY <1>6 DEF CloseState
    <2>2. filling.at \in StateIds
        BY <1>6 DEF CloseState, Filling
    <2>3. \A a \in Retained(states[filling.at]) : a.kind = "shift" => a.to \in DOMAIN states
        BY <2>2 DEF ClosedTable, StateIds, Retained
    <2>4. ClosedTable([states EXCEPT ![filling.at].gotos = Retained(states[filling.at])])
        BY <2>3, ClosedWithGotos
    <2> QED BY <1>1, <2>1, <2>4
<1>7. CASE Finish
    <2>1. /\ DOMAIN states' = DOMAIN states
          /\ \A s \in DOMAIN states :
                states'[s] = [states[s] EXCEPT !.default = DefaultReduce(states[s])]
        BY <1>7 DEF Finish, StateIds
    <2>2. ASSUME NEW s \in DOMAIN states
          PROVE  /\ IsState(states'[s])
                 /\ states'[s].actions = states[s].actions
                 /\ states'[s].gotos = states[s].gotos
        BY <2>1 DEF ClosedTable, IsState
    <2> QED BY <2>1, <2>2 DEF ClosedTable
<1> QED
    BY <1>1, <1>2, <1>3, <1>4, <1>5, <1>6, <1>7
    DEF Build, InlineRules, MergeRules, FirstPass, Start, StartFilling

\* The token groups change nothing of where the states lead.
LEMMA TokensClosed ==
    ASSUME Closed, Tokenizing
    PROVE  Closed'
<1> USE DEF Closed
<1>1. CASE RefuseTokens
    BY <1>1 DEF RefuseTokens, ClosedTable, IsState
<1>2. CASE \E token \in [StateIds -> Nat] : AssignTokens(token)
    <2>1. PICK token : states' = [s \in StateIds |-> [states[s] EXCEPT !.token = token[s]]]
        BY <1>2 DEF AssignTokens
    <2>2. /\ DOMAIN states' = DOMAIN states
          /\ \A s \in DOMAIN states : states'[s] = [states[s] EXCEPT !.token = token[s]]
        BY <2>1 DEF StateIds
    <2>3. ASSUME NEW s \in DOMAIN states
          PROVE  /\ IsState(states'[s])
                 /\ states'[s].actions = states[s].actions
                 /\ states'[s].gotos = states[s].gotos
        BY <2>2 DEF ClosedTable, IsState
    <2> QED BY <2>2, <2>3 DEF ClosedTable
<1> QED BY <1>1, <1>2 DEF Tokenizing

-----------------------------------------------------------------------------
(* What can be merged changes with the mapping only.                       *)

LEMMA MergeableKept ==
    ASSUME UNCHANGED <<rules, states, mapping>>
    PROVE  Mergeable' = Mergeable
BY DEF Mergeable, CanMerge, GotosCompatible, ActionsCompatible, RangesCompatible,
       EquivalentMapped, SameReduce, IsRepeatWrap, On, StateIds

LEMMA MergeableNow ==
    ASSUME UNCHANGED <<rules, states>>
    PROVE  Mergeable' = {p \in StateIds \X StateIds : CanMerge(p[1], p[2], mapping')}
BY DEF Mergeable, CanMerge, GotosCompatible, ActionsCompatible, RangesCompatible,
       EquivalentMapped, SameReduce, IsRepeatWrap, On, StateIds

\* A state that moves matters to those that lead to it.
LEMMA MergeableMoved ==
    ASSUME UNCHANGED <<rules, states>>, Closed, DOMAIN mapping = StateIds,
           NEW s \in StateIds, NEW h, mapping' = [mapping EXCEPT ![s] = h],
           NEW l \in StateIds, NEW r \in StateIds,
           s \notin Targets(l) \union Targets(r)
    PROVE  <<l, r>> \in Mergeable' <=> <<l, r>> \in Mergeable
<1>1. \A t \in Targets(l) \union Targets(r) : mapping'[t] = mapping[t]
    BY TargetsAreStates
<1>2. CanMerge(l, r, mapping') <=> CanMerge(l, r, mapping)
    BY <1>1, Dependence
<1> QED BY <1>2, MergeableNow DEF Mergeable

-----------------------------------------------------------------------------
(* The first groups.                                                       *)

LEMMA GroupedMembers ==
    ASSUME Grouped, NEW g \in DOMAIN groups
    PROVE  /\ groups[g] \in GroupType
           /\ groups[g].members \in Seq(StateIds)
           /\ groups[g].validated \in Seq(Signed)
           /\ \A i \in DOMAIN groups[g].members : groups[g].members[i] \in StateIds
<1>1. groups[g] \in GroupType
    BY DEF Grouped
<1>2. groups[g].members \in Seq(StateIds) /\ groups[g].validated \in Seq(Signed)
    BY <1>1 DEF GroupType
<1> QED BY <1>1, <1>2

LEMMA OpenGroupStep ==
    ASSUME Closed, Grouped, Unscanned, OpenGroup
    PROVE  Grouped' /\ Unscanned'
<1> DEFINE s == Cardinality(DOMAIN mapping) + 1
           n == Len(groups) + 1
<1>1. PICK k \in Nat : DOMAIN mapping = 1..k
    BY DEF Unscanned
<1>2. s = k + 1
    <2>1. Cardinality(1..k) = k
        BY FS_Interval
    <2> QED BY <1>1, <2>1
<1>3. /\ s \in StateIds /\ s \notin DOMAIN mapping
      /\ UNCHANGED states
      /\ groups' = Append(groups, Group(n, s))
      /\ mapping' = Mapped(s, n)
    BY <1>1, <1>2 DEF OpenGroup
<1>4. DOMAIN mapping' = 1..(k + 1)
    BY <1>1, <1>2, <1>3 DEF Mapped
<1>5. groups \in Seq(GroupType) /\ n \in Nat /\ Len(groups) \in Nat
      /\ DOMAIN groups = 1..Len(groups)
    BY DEF Grouped
<1>6. Group(n, s) \in GroupType /\ Group(n, s).members = <<s>> /\ Group(n, s).validated = <<>>
    BY <1>3, <1>5 DEF Group, GroupType
<1> HIDE DEF s
<1>7. /\ groups' \in Seq(GroupType) /\ DOMAIN groups' = 1..n
      /\ groups'[n] = Group(n, s)
      /\ \A g \in DOMAIN groups : groups'[g] = groups[g]
    BY <1>3, <1>5, <1>6
<1>8. StateIds' = StateIds
    BY <1>3 DEF StateIds
<1>9. /\ mapping'[s] = n
      /\ \A t \in DOMAIN mapping : mapping'[t] = mapping[t]
      /\ DOMAIN mapping' = DOMAIN mapping \union {s}
    BY <1>3 DEF Mapped
<1> HIDE DEF n
<1>10. mapping' \in [DOMAIN mapping' -> DOMAIN groups']
    BY <1>3, <1>5, <1>7, <1>9 DEF Grouped, Mapped, n
<1>11. DOMAIN mapping' \subseteq StateIds
    BY <1>3, <1>9 DEF Grouped
<1>12. DOMAIN groups' = DOMAIN groups \union {n}
    BY <1>5, <1>7 DEF n
<1>13. ASSUME NEW g \in DOMAIN groups'
       PROVE  /\ \A i \in DOMAIN groups'[g].members :
                    /\ groups'[g].members[i] \in DOMAIN mapping'
                    /\ mapping'[groups'[g].members[i]] = g
              /\ \A i, j \in DOMAIN groups'[g].members :
                    groups'[g].members[i] = groups'[g].members[j] => i = j
              /\ groups'[g].validated = <<>>
    <2>1. CASE g = n
        BY <1>6, <1>7, <1>9, <2>1
    <2>2. CASE g \in DOMAIN groups
        BY <1>7, <1>9, <2>2 DEF Grouped, Unscanned
    <2> QED BY <1>12, <2>1, <2>2
<1>14. ASSUME NEW t \in DOMAIN mapping'
       PROVE  \E i \in DOMAIN groups'[mapping'[t]].members : groups'[mapping'[t]].members[i] = t
    <2>1. CASE t = s
        BY <1>6, <1>7, <1>9, <2>1
    <2>2. CASE t \in DOMAIN mapping
        <3>1. mapping'[t] = mapping[t] /\ mapping[t] \in DOMAIN groups
            BY <1>9, <2>2 DEF Grouped
        <3>2. PICK i \in DOMAIN groups[mapping[t]].members : groups[mapping[t]].members[i] = t
            BY <2>2 DEF Grouped
        <3>3. groups'[mapping[t]] = groups[mapping[t]]
            BY <1>7, <3>1
        <3> QED BY <3>1, <3>2, <3>3
    <2> QED BY <1>9, <2>1, <2>2
<1>15. Seq(GroupType)' = Seq(GroupType)
    BY <1>8 DEF GroupType, Signed
<1>16. Grouped'
    BY <1>7, <1>8, <1>10, <1>11, <1>13, <1>14, <1>15 DEF Grouped
<1> QED BY <1>1, <1>4, <1>13, <1>16 DEF Unscanned

\* What one more element changes in a sequence, and what not.
LEMMA AppendedOne ==
    ASSUME NEW S, NEW seq \in Seq(S), NEW x \in S
    PROVE  /\ Append(seq, x) \in Seq(S)
           /\ DOMAIN Append(seq, x) = DOMAIN seq \union {Len(seq) + 1}
           /\ Len(seq) + 1 \notin DOMAIN seq
           /\ \A i \in DOMAIN seq : Append(seq, x)[i] = seq[i]
           /\ Append(seq, x)[Len(seq) + 1] = x
<1>1. DOMAIN seq = 1 .. Len(seq) /\ Len(seq) \in Nat
    OBVIOUS
<1>2. /\ Append(seq, x) \in Seq(S) /\ Len(Append(seq, x)) = Len(seq) + 1
      /\ \A i \in 1 .. Len(seq) : Append(seq, x)[i] = seq[i]
      /\ Append(seq, x)[Len(seq) + 1] = x
    OBVIOUS
<1>3. DOMAIN Append(seq, x) = 1 .. (Len(seq) + 1)
    BY <1>2
<1>4. 1 .. (Len(seq) + 1) = (1 .. Len(seq)) \union {Len(seq) + 1}
      /\ Len(seq) + 1 \notin 1 .. Len(seq)
    BY <1>1
<1> QED BY <1>1, <1>2, <1>3, <1>4, Zenon

LEMMA JoinGroupStep ==
    ASSUME Closed, Grouped, Unscanned, JoinGroup
    PROVE  Grouped' /\ Unscanned'
<1> DEFINE s == Cardinality(DOMAIN mapping) + 1
<1>1. PICK k \in Nat : DOMAIN mapping = 1..k
    BY DEF Unscanned
<1>2. s = k + 1
    <2>1. Cardinality(1..k) = k
        BY FS_Interval
    <2> QED BY <1>1, <2>1
<1>3. /\ s \in StateIds /\ s \notin DOMAIN mapping
      /\ UNCHANGED states
    BY <1>1, <1>2 DEF JoinGroup
<1>4. PICK n \in Matching(s) : groups' = Joined(s, n) /\ mapping' = Mapped(s, n)
    BY DEF JoinGroup
<1>5. n \in DOMAIN groups
    BY <1>4 DEF Matching
<1>6. DOMAIN mapping' = 1..(k + 1)
    BY <1>1, <1>2, <1>4 DEF Mapped
<1> HIDE DEF s
<1>7. /\ groups[n].members \in Seq(StateIds) /\ groups[n] \in GroupType
      /\ groups \in Seq(GroupType)
    BY <1>5, GroupedMembers DEF Grouped
<1> DEFINE new == Append(groups[n].members, s)
<1>8. /\ new \in Seq(StateIds)
      /\ DOMAIN new = DOMAIN groups[n].members \union {Len(groups[n].members) + 1}
      /\ Len(groups[n].members) + 1 \notin DOMAIN groups[n].members
      /\ \A i \in DOMAIN groups[n].members : new[i] = groups[n].members[i]
      /\ new[Len(groups[n].members) + 1] = s
    BY <1>3, <1>7, AppendedOne
<1>9. /\ DOMAIN groups' = DOMAIN groups
      /\ groups'[n] = [groups[n] EXCEPT !.members = new]
      /\ \A g \in DOMAIN groups \ {n} : groups'[g] = groups[g]
    BY <1>4, <1>5, <1>7 DEF Joined
<1> HIDE DEF new
<1>10. /\ groups'[n] \in GroupType /\ groups'[n].members = new
       /\ groups'[n].validated = groups[n].validated
    BY <1>7, <1>8, <1>9 DEF GroupType
<1>11. groups' \in Seq(GroupType)
    <2>1. \A g \in DOMAIN groups : groups'[g] \in GroupType
        BY <1>7, <1>9, <1>10
    <2>2. groups' = [groups EXCEPT ![n] = groups'[n]]
        BY <1>4, <1>9 DEF Joined
    <2> QED BY <1>7, <1>10, <2>2
<1>12. StateIds' = StateIds /\ Seq(GroupType)' = Seq(GroupType)
    BY <1>3 DEF StateIds, GroupType, Signed
<1>13. /\ mapping'[s] = n
       /\ \A t \in DOMAIN mapping : mapping'[t] = mapping[t]
       /\ DOMAIN mapping' = DOMAIN mapping \union {s}
    BY <1>3, <1>4 DEF Mapped
<1>14. mapping' \in [DOMAIN mapping' -> DOMAIN groups']
    BY <1>4, <1>5, <1>9 DEF Grouped, Mapped
<1>15. DOMAIN mapping' \subseteq StateIds
    BY <1>3, <1>13 DEF Grouped
<1>16. ASSUME NEW g \in DOMAIN groups'
       PROVE  /\ \A i \in DOMAIN groups'[g].members :
                    /\ groups'[g].members[i] \in DOMAIN mapping'
                    /\ mapping'[groups'[g].members[i]] = g
              /\ \A i, j \in DOMAIN groups'[g].members :
                    groups'[g].members[i] = groups'[g].members[j] => i = j
              /\ groups'[g].validated = <<>>
    <2>1. CASE g = n
        <3>1. \A i \in DOMAIN groups[n].members :
                  groups[n].members[i] \in DOMAIN mapping /\ mapping[groups[n].members[i]] = n
            BY <1>5 DEF Grouped
        <3>2. \A i, j \in DOMAIN groups[n].members :
                  groups[n].members[i] = groups[n].members[j] => i = j
            BY <1>5 DEF Grouped
        <3>3. groups[n].validated = <<>>
            BY <1>5 DEF Unscanned
        <3> QED BY <1>3, <1>8, <1>10, <1>13, <2>1, <3>1, <3>2, <3>3
    <2>2. CASE g \in DOMAIN groups \ {n}
        BY <1>9, <1>13, <2>2 DEF Grouped, Unscanned
    <2> QED BY <1>9, <2>1, <2>2
<1>17. ASSUME NEW t \in DOMAIN mapping'
       PROVE  \E i \in DOMAIN groups'[mapping'[t]].members : groups'[mapping'[t]].members[i] = t
    <2>1. CASE t = s
        BY <1>8, <1>10, <1>13, <2>1
    <2>2. CASE t \in DOMAIN mapping
        <3>1. mapping'[t] = mapping[t] /\ mapping[t] \in DOMAIN groups
            BY <1>13, <2>2 DEF Grouped
        <3>2. PICK i \in DOMAIN groups[mapping[t]].members : groups[mapping[t]].members[i] = t
            BY <2>2 DEF Grouped
        <3>3. i \in DOMAIN groups'[mapping[t]].members /\ groups'[mapping[t]].members[i] = t
            BY <1>8, <1>9, <1>10, <3>1, <3>2
        <3> QED BY <3>1, <3>3
    <2> QED BY <1>13, <2>1, <2>2
<1>18. Grouped'
    BY <1>11, <1>12, <1>14, <1>15, <1>16, <1>17 DEF Grouped
<1> QED BY <1>1, <1>6, <1>16, <1>18 DEF Unscanned

-----------------------------------------------------------------------------
(* The passes.                                                             *)

\* The revisions of a group are numbers up to the memo's.
LEMMA LatestRevision ==
    ASSUME Grouped, Stamped, NEW g \in DOMAIN groups
    PROVE  Latest(g) \in 0..memo.next
<1>1. Revisions(groups[g].members) \in SUBSET (0..memo.next)
    BY GroupedMembers DEF Revisions, Stamped
<1>2. Revisions(groups[g].members) # {} /\ memo.next \in Nat
    BY DEF Revisions, Stamped
<1> QED BY <1>1, <1>2, LargestChosen DEF Latest

\* What a step that leaves the states where they are keeps of the invariant.
LEMMA Unmoved ==
    ASSUME UNCHANGED <<rules, states, mapping, groups, memo>>
    PROVE  /\ Mergeable' = Mergeable
           /\ Closed <=> Closed'
           /\ Grouped <=> Grouped'
           /\ Stamped <=> Stamped'
           /\ Remembering <=> Remembering'
           /\ Validating <=> Validating'
           /\ \A g \in DOMAIN groups : AllMerge(g) <=> AllMerge(g)'
<1>1. Mergeable' = Mergeable
    BY MergeableKept
<1>2. StateIds' = StateIds /\ Seq(GroupType)' = Seq(GroupType)
    BY DEF StateIds, GroupType, Signed
<1>3. Closed <=> Closed'
    BY DEF Closed, ClosedTable, IsState
<1>4. Grouped <=> Grouped'
    BY <1>2 DEF Grouped
<1>5. Stamped <=> Stamped'
    BY <1>2 DEF Stamped
<1>6. Remembering <=> Remembering'
    BY <1>1, <1>2 DEF Remembering, Known, PairRevision
<1>7. \A g \in DOMAIN groups : AllMerge(g) <=> AllMerge(g)'
    BY <1>1 DEF AllMerge
<1>8. \A g \in DOMAIN groups : Latest(g)' = Latest(g)
    BY DEF Latest, Revisions
<1>9. Validating <=> Validating'
    BY <1>7, <1>8 DEF Validating
<1> QED BY <1>1, <1>3, <1>4, <1>5, <1>6, <1>7, <1>9

LEMMA StartPassesStep ==
    ASSUME Closed, Grouped, Unscanned, StartPasses
    PROVE  Grouped' /\ CollapseInv'
<1>1. /\ UNCHANGED <<rules, states, mapping, groups>>
      /\ memo' = NewMemo /\ scan' = Pass /\ DOMAIN mapping = StateIds
    BY DEF StartPasses
<1>2. StateIds' = StateIds /\ Seq(GroupType)' = Seq(GroupType)
    BY <1>1 DEF StateIds, GroupType, Signed
<1>3. Grouped'
    BY <1>1, <1>2 DEF Grouped
<1>4. \A g \in DOMAIN groups' : groups'[g].validated = <<>>
    BY <1>1 DEF Unscanned
<1>5. /\ memo' \in [changed : [StateIds -> Nat], next : Nat,
                    merges : [StateIds \X StateIds -> Int]]
      /\ memo'.next = 0
      /\ \A s \in StateIds : memo'.changed[s] = 0
      /\ \A p \in StateIds \X StateIds : memo'.merges[p] = -1
    BY <1>1 DEF NewMemo, Never
<1>6. Stamped'
    BY <1>2, <1>4, <1>5 DEF Stamped
<1>7. Remembering'
    BY <1>2, <1>5 DEF Remembering, Known, PairRevision
<1>8. Validating'
    BY <1>4 DEF Validating
<1>9. groups \in Seq(GroupType)
    BY DEF Grouped
<1>10. Scanned' /\ Comparisons' /\ Passing'
    BY <1>1, <1>9 DEF Scanned, Comparisons, Passing, Pass, ScanType
<1> QED BY <1>1, <1>2, <1>3, <1>6, <1>7, <1>8, <1>10 DEF CollapseInv

LEMMA ValidatedMerges ==
    ASSUME Validating, NEW g \in DOMAIN groups, IsValidated(groups[g])
    PROVE  AllMerge(g)
<1> DEFINE signature == Signature(groups[g])
<1>1. signature.dependency = Latest(g)
    BY DEF Signature, Latest
<1>2. groups[g].validated = <<signature>>
    BY DEF IsValidated
<1> HIDE DEF signature
<1>3. groups[g].validated # <<>> /\ groups[g].validated[1] = signature
    BY <1>2
<1> QED BY <1>1, <1>3 DEF Validating

\* The steps of a pass that move no state.
LEMMA SkipGroupStep ==
    ASSUME Closed, Grouped, CollapseInv, SkipGroup
    PROVE  Scanned' /\ Comparisons' /\ Passing'
<1>1. /\ UNCHANGED <<rules, states, mapping, groups, memo>>
      /\ scan' = [scan EXCEPT !.group = @ + 1, !.left = 0]
      /\ scan.group <= scan.last
      /\ IsValidated(groups[scan.group])
    BY DEF SkipGroup, Entering, Go, NextGroup
<1>2. /\ scan \in ScanType
      /\ scan.last <= Len(groups) /\ groups \in Seq(GroupType)
    BY DEF CollapseInv, Scanned, Grouped
<1>3. scan.group \in Nat \ {0} /\ scan.group \in DOMAIN groups
    BY <1>1, <1>2 DEF ScanType
<1>4. AllMerge(scan.group)
    BY <1>1, <1>3, ValidatedMerges DEF CollapseInv
<1>5. \A g \in DOMAIN groups : AllMerge(g) <=> AllMerge(g)'
    BY <1>1, Unmoved
<1>6. /\ scan' \in ScanType
      /\ scan'.group = scan.group + 1 /\ scan'.left = 0
      /\ scan'.last = scan.last /\ scan'.conflicts = scan.conflicts
    <2>1. scan.group + 1 \in Nat \ {0}
        BY <1>3
    <2> QED BY <1>1, <1>2, <2>1 DEF ScanType
<1>7. Scanned' /\ Comparisons'
    BY <1>1, <1>2, <1>6 DEF CollapseInv, Scanned, Comparisons
<1>8. Passing'
    BY <1>1, <1>2, <1>4, <1>5, <1>6 DEF CollapseInv, Passing, ScanType
<1> QED BY <1>7, <1>8

LEMMA EnterGroupStep ==
    ASSUME Closed, Grouped, CollapseInv, EnterGroup
    PROVE  Scanned' /\ Comparisons' /\ Passing'
<1>1. /\ UNCHANGED <<rules, states, mapping, groups, memo>>
      /\ scan' = [scan EXCEPT !.left = 1, !.right = 2, !.spilled = FALSE]
      /\ scan.group <= scan.last
    BY DEF EnterGroup, Entering, Go
<1>2. /\ scan \in ScanType
      /\ scan.last <= Len(groups) /\ groups \in Seq(GroupType)
    BY DEF CollapseInv, Scanned, Grouped
<1>3. scan.group \in Nat \ {0} /\ scan.group \in DOMAIN groups
    BY <1>1, <1>2 DEF ScanType
<1>4. groups[scan.group].members \in Seq(StateIds)
    BY <1>3, GroupedMembers
<1>5. /\ scan' \in ScanType
      /\ scan'.left = 1 /\ scan'.right = 2 /\ ~scan'.spilled
      /\ scan'.group = scan.group /\ scan'.last = scan.last
      /\ scan'.conflicts = scan.conflicts
    BY <1>1, <1>2 DEF ScanType
<1>6. Scanned'
    BY <1>1, <1>2, <1>5 DEF CollapseInv, Scanned
<1>7. Comparisons'
    <2>1. \A j \in DOMAIN groups[scan.group].members : \A i \in 1..(j - 1) :
              ~(i < 1 \/ (i = 1 /\ j < 2))
        BY <1>4
    <2> QED BY <1>1, <1>5, <2>1 DEF Comparisons
<1>8. \A g \in DOMAIN groups : AllMerge(g) <=> AllMerge(g)'
    BY <1>1, Unmoved
<1>9. Passing'
    BY <1>1, <1>5, <1>8 DEF CollapseInv, Passing
<1> QED BY <1>6, <1>7, <1>9

\* A pair that can be merged is behind the scan, whether it was known or not.
LEMMA PairAgrees ==
    ASSUME Closed, Grouped, CollapseInv, UNCHANGED <<rules, states, mapping, groups>>,
           scan' = [scan EXCEPT !.right = @ + 1],
           scan.group <= scan.last, scan.left > 0,
           scan.left < Len(groups[scan.group].members),
           scan.right <= Len(groups[scan.group].members),
           <<groups[scan.group].members[scan.left], groups[scan.group].members[scan.right]>>
               \in Mergeable
    PROVE  Scanned' /\ Comparisons' /\ Passing'
<1>1. /\ scan \in ScanType
      /\ scan.last <= Len(groups) /\ groups \in Seq(GroupType)
    BY DEF CollapseInv, Scanned, Grouped
<1>2. scan.right + 1 \in Nat
    BY <1>1 DEF ScanType
<1>3. /\ scan' \in ScanType
      /\ scan'.left = scan.left /\ scan'.right = scan.right + 1
      /\ scan'.group = scan.group /\ scan'.last = scan.last
      /\ scan'.spilled = scan.spilled /\ scan'.conflicts = scan.conflicts
    BY <1>1, <1>2 DEF ScanType
<1>4. Scanned'
    BY <1>1, <1>3 DEF CollapseInv, Scanned, ScanType
<1>5. Mergeable' = Mergeable
    BY MergeableKept
<1>6. Comparisons'
    <2> SUFFICES ASSUME ~scan.spilled,
                        NEW j \in DOMAIN groups[scan.group].members, NEW i \in 1..(j - 1),
                        i < scan.left \/ (i = scan.left /\ j < scan.right + 1)
                 PROVE  <<groups[scan.group].members[i], groups[scan.group].members[j]>>
                            \in Mergeable
        BY <1>3, <1>5 DEF Comparisons
    <2>1. scan.group \in DOMAIN groups
        BY <1>1 DEF ScanType
    <2>2. DOMAIN groups[scan.group].members \subseteq Nat
        BY <2>1, GroupedMembers
    <2>3. CASE i = scan.left /\ j = scan.right
        BY <2>3
    <2>4. CASE i < scan.left \/ (i = scan.left /\ j < scan.right)
        BY <2>4 DEF CollapseInv, Comparisons
    <2> QED BY <1>1, <2>2, <2>3, <2>4 DEF ScanType
<1>7. \A g \in DOMAIN groups : AllMerge(g) <=> AllMerge(g)'
    BY <1>5 DEF AllMerge
<1>8. Passing'
    BY <1>3, <1>7 DEF CollapseInv, Passing
<1> QED BY <1>4, <1>6, <1>8

LEMMA PairKnownStep ==
    ASSUME Closed, Grouped, CollapseInv, PairKnown
    PROVE  Scanned' /\ Comparisons' /\ Passing'
<1>1. /\ UNCHANGED <<rules, states, mapping, groups, memo>>
      /\ scan' = [scan EXCEPT !.right = @ + 1]
      /\ scan.group <= scan.last /\ scan.left > 0
      /\ scan.left < Len(groups[scan.group].members)
      /\ scan.right <= Len(groups[scan.group].members)
      /\ Known(groups[scan.group].members[scan.left], groups[scan.group].members[scan.right])
    BY DEF PairKnown, Comparing, Scanning, Go, Members, LeftState, RightState
<1>2. scan \in ScanType /\ scan.last <= Len(groups) /\ groups \in Seq(GroupType)
      /\ scan.right > scan.left
    BY <1>1 DEF CollapseInv, Scanned, Grouped
<1>3. scan.group \in DOMAIN groups
    BY <1>1, <1>2 DEF ScanType
<1>4. /\ groups[scan.group].members[scan.left] \in StateIds
      /\ groups[scan.group].members[scan.right] \in StateIds
    <2>1. groups[scan.group].members \in Seq(StateIds)
        BY <1>3, GroupedMembers
    <2> QED BY <1>1, <1>2, <2>1 DEF ScanType
<1>5. <<groups[scan.group].members[scan.left], groups[scan.group].members[scan.right]>>
          \in Mergeable
    BY <1>1, <1>4 DEF CollapseInv, Remembering
<1> QED BY <1>1, <1>5, PairAgrees

LEMMA NextLeftStep ==
    ASSUME Closed, Grouped, CollapseInv, NextLeft
    PROVE  Scanned' /\ Comparisons' /\ Passing'
<1>1. /\ UNCHANGED <<rules, states, mapping, groups, memo>>
      /\ scan' = [scan EXCEPT !.left = @ + 1, !.right = scan.left + 2]
      /\ scan.group <= scan.last /\ scan.left > 0
      /\ scan.right > Len(groups[scan.group].members)
    BY DEF NextLeft, Scanning, Go, Members
<1>2. /\ scan \in ScanType
      /\ scan.last <= Len(groups) /\ groups \in Seq(GroupType)
    BY DEF CollapseInv, Scanned, Grouped
<1>3. /\ scan.group \in DOMAIN groups
      /\ scan.left + 1 \in Nat /\ scan.left + 2 \in Nat
    BY <1>1, <1>2 DEF ScanType
<1>4. groups[scan.group].members \in Seq(StateIds)
    BY <1>3, GroupedMembers
<1>5. /\ scan' \in ScanType
      /\ scan'.left = scan.left + 1 /\ scan'.right = scan.left + 2
      /\ scan'.group = scan.group /\ scan'.last = scan.last
      /\ scan'.spilled = scan.spilled /\ scan'.conflicts = scan.conflicts
    BY <1>1, <1>2, <1>3 DEF ScanType
<1>6. Scanned'
    BY <1>1, <1>2, <1>5 DEF CollapseInv, Scanned, ScanType
<1>7. Comparisons'
    <2> SUFFICES ASSUME ~scan.spilled,
                        NEW j \in DOMAIN groups[scan.group].members, NEW i \in 1..(j - 1),
                        i < scan.left + 1 \/ (i = scan.left + 1 /\ j < scan.left + 2)
                 PROVE  <<groups[scan.group].members[i], groups[scan.group].members[j]>>
                            \in Mergeable
        BY <1>1, <1>5, MergeableKept DEF Comparisons
    <2>1. j < scan.right /\ i <= scan.left
        BY <1>1, <1>2, <1>4 DEF ScanType
    <2> QED BY <1>1, <1>2, <2>1 DEF CollapseInv, Comparisons, ScanType
<1>8. \A g \in DOMAIN groups : AllMerge(g) <=> AllMerge(g)'
    BY <1>1, Unmoved
<1>9. Passing'
    BY <1>1, <1>5, <1>8 DEF CollapseInv, Passing
<1> QED BY <1>6, <1>7, <1>9

LEMMA PairMergesStep ==
    ASSUME Closed, Grouped, CollapseInv, PairMerges
    PROVE  Grouped' /\ CollapseInv'
<1> DEFINE l == groups[scan.group].members[scan.left]
           r == groups[scan.group].members[scan.right]
<1>1. /\ UNCHANGED <<rules, states, mapping, groups>>
      /\ scan' = [scan EXCEPT !.right = @ + 1]
      /\ scan.group <= scan.last /\ scan.left > 0
      /\ scan.left < Len(groups[scan.group].members)
      /\ scan.right <= Len(groups[scan.group].members)
      /\ CanMerge(l, r, mapping)
      /\ memo' = [memo EXCEPT !.merges[<<l, r>>] = PairRevision(l, r)]
    BY DEF PairMerges, Comparing, Scanning, Go, Members, LeftState, RightState, Remembered
<1>2. scan \in ScanType /\ scan.last <= Len(groups) /\ groups \in Seq(GroupType)
      /\ scan.right > scan.left
    BY <1>1 DEF CollapseInv, Scanned, Grouped
<1>3. scan.group \in DOMAIN groups
    BY <1>1, <1>2 DEF ScanType
<1>4. l \in StateIds /\ r \in StateIds
    <2>1. groups[scan.group].members \in Seq(StateIds)
        BY <1>3, GroupedMembers
    <2> QED BY <1>1, <1>2, <2>1 DEF ScanType
<1> HIDE DEF l, r
<1>5. <<l, r>> \in Mergeable
    BY <1>1, <1>4 DEF Mergeable
<1>6. Scanned' /\ Comparisons' /\ Passing'
    BY <1>1, <1>5, PairAgrees DEF l, r
<1>7. StateIds' = StateIds /\ Seq(GroupType)' = Seq(GroupType) /\ Mergeable' = Mergeable
    BY <1>1, MergeableKept DEF StateIds, GroupType, Signed
<1>8. Grouped'
    BY <1>1, <1>7 DEF Grouped
<1>9. /\ memo \in [changed : [StateIds -> Nat], next : Nat, merges : [StateIds \X StateIds -> Int]]
      /\ PairRevision(l, r) \in Int /\ PairRevision(l, r) <= memo.next
    BY <1>4 DEF CollapseInv, Stamped, PairRevision
<1>10. /\ memo' \in [changed : [StateIds -> Nat], next : Nat,
                     merges : [StateIds \X StateIds -> Int]]
       /\ memo'.changed = memo.changed /\ memo'.next = memo.next
       /\ \A p \in StateIds \X StateIds :
             memo'.merges[p] = IF p = <<l, r>> THEN PairRevision(l, r) ELSE memo.merges[p]
    BY <1>1, <1>4, <1>9
<1>11. Stamped'
    BY <1>1, <1>7, <1>9, <1>10 DEF CollapseInv, Stamped
<1>12. Remembering'
    BY <1>5, <1>7, <1>10 DEF CollapseInv, Remembering, Known, PairRevision
<1>13. Validating'
    <2>1. \A g \in DOMAIN groups : AllMerge(g) <=> AllMerge(g)'
        BY <1>1, <1>7 DEF AllMerge
    <2>2. \A g \in DOMAIN groups : Latest(g)' = Latest(g)
        BY <1>1, <1>10 DEF Latest, Revisions
    <2> QED BY <1>1, <2>1, <2>2 DEF CollapseInv, Validating
<1> QED BY <1>1, <1>6, <1>7, <1>8, <1>11, <1>12, <1>13 DEF CollapseInv

LEMMA LeaveGroupStep ==
    ASSUME Closed, Grouped, CollapseInv, LeaveGroup
    PROVE  Grouped' /\ CollapseInv'
<1> DEFINE here == scan.group
           signature == Signature(groups[here])
<1>1. /\ UNCHANGED <<rules, states, mapping, memo>>
      /\ scan' = [scan EXCEPT !.group = @ + 1, !.left = 0]
      /\ here <= scan.last /\ scan.left > 0
      /\ scan.left >= Len(groups[here].members)
      /\ groups' = IF scan.spilled THEN groups
                   ELSE [groups EXCEPT ![here].validated = <<signature>>]
    BY DEF LeaveGroup, Scanning, Go, NextGroup, Members
<1>2. scan \in ScanType /\ scan.last <= Len(groups) /\ groups \in Seq(GroupType)
    BY DEF CollapseInv, Scanned, Grouped
<1>3. here \in Nat \ {0} /\ here \in DOMAIN groups
    BY <1>1, <1>2 DEF ScanType
<1>4. groups[here] \in GroupType /\ groups[here].members \in Seq(StateIds)
    BY <1>3, GroupedMembers
<1>5. signature \in Signed /\ signature.dependency = Latest(here)
    <2>1. Latest(here) \in Nat
        BY <1>3, LatestRevision DEF CollapseInv
    <2>2. groups[here].revision \in Nat
        BY <1>4 DEF GroupType
    <2> QED BY <2>1, <2>2 DEF Latest, Signature, Signed
<1> HIDE DEF here, signature
<1>6. StateIds' = StateIds /\ Seq(GroupType)' = Seq(GroupType) /\ Mergeable' = Mergeable
    BY <1>1, MergeableKept DEF StateIds, GroupType, Signed
<1>7. /\ groups' \in Seq(GroupType) /\ Len(groups') = Len(groups)
      /\ DOMAIN groups' = DOMAIN groups
      /\ \A g \in DOMAIN groups : groups'[g].members = groups[g].members
      /\ \A g \in DOMAIN groups :
            \/ groups'[g].validated = groups[g].validated
            \/ ~scan.spilled /\ g = here /\ groups'[g].validated = <<signature>>
    <2>1. CASE scan.spilled
        BY <1>1, <1>2, <2>1
    <2>2. CASE ~scan.spilled
        <3>1. <<signature>> \in Seq(Signed)
            BY <1>5
        <3>2. groups' = [groups EXCEPT ![here] = [groups[here] EXCEPT !.validated = <<signature>>]]
            BY <1>1, <2>2
        <3>3. /\ [groups[here] EXCEPT !.validated = <<signature>>] \in GroupType
              /\ [groups[here] EXCEPT !.validated = <<signature>>].members = groups[here].members
              /\ [groups[here] EXCEPT !.validated = <<signature>>].validated = <<signature>>
            BY <1>4, <3>1 DEF GroupType
        <3> QED BY <1>2, <1>3, <2>2, <3>2, <3>3
    <2> QED BY <2>1, <2>2
<1>8. Grouped'
    <2>1. ASSUME NEW g \in DOMAIN groups'
          PROVE  /\ \A i \in DOMAIN groups'[g].members :
                       /\ groups'[g].members[i] \in DOMAIN mapping'
                       /\ mapping'[groups'[g].members[i]] = g
                 /\ \A i, j \in DOMAIN groups'[g].members :
                       groups'[g].members[i] = groups'[g].members[j] => i = j
        <3>1. groups'[g].members = groups[g].members /\ g \in DOMAIN groups
            BY <1>7
        <3> QED BY <1>1, <3>1 DEF Grouped
    <2>2. ASSUME NEW s \in DOMAIN mapping'
          PROVE  \E i \in DOMAIN groups'[mapping'[s]].members :
                    groups'[mapping'[s]].members[i] = s
        <3>1. mapping' = mapping /\ mapping[s] \in DOMAIN groups
            BY <1>1, <2>2 DEF Grouped
        <3>2. groups'[mapping[s]].members = groups[mapping[s]].members
            BY <1>7, <3>1
        <3> QED BY <2>2, <3>1, <3>2 DEF Grouped
    <2> QED BY <1>1, <1>6, <1>7, <2>1, <2>2 DEF Grouped
<1>9. ASSUME NEW g \in DOMAIN groups
      PROVE  (AllMerge(g) <=> AllMerge(g)') /\ Latest(g) = Latest(g)'
    <2>1. groups'[g].members = groups[g].members
        BY <1>7
    <2>2. AllMerge(g) <=> AllMerge(g)'
        BY <1>6, <2>1 DEF AllMerge
    <2>3. Revisions(groups[g].members) = Revisions(groups[g].members)'
        BY <1>1, <2>1 DEF Revisions
    <2> QED BY <2>2, <2>3 DEF Latest
<1>10. ~scan.spilled => AllMerge(here)
    <2> SUFFICES ASSUME ~scan.spilled,
                        NEW j \in DOMAIN groups[here].members, NEW i \in 1..(j - 1)
                 PROVE  <<groups[here].members[i], groups[here].members[j]>> \in Mergeable
        BY DEF AllMerge
    <2>1. i < scan.left
        BY <1>1, <1>2, <1>4 DEF ScanType
    <2> QED BY <1>1, <2>1 DEF CollapseInv, Comparisons, here
<1>11. Stamped'
    <2>1. Latest(here) <= memo.next
        BY <1>3, LatestRevision DEF CollapseInv, Stamped
    <2>2. ASSUME NEW g \in DOMAIN groups, groups'[g].validated # <<>>
          PROVE  groups'[g].validated[1].dependency <= memo.next
        <3>1. CASE groups'[g].validated = groups[g].validated
            BY <2>2, <3>1 DEF CollapseInv, Stamped
        <3>2. CASE groups'[g].validated = <<signature>>
            <4>1. groups'[g].validated[1] = signature
                BY <3>2
            <4> QED BY <1>5, <2>1, <4>1
        <3> QED BY <1>7, <3>1, <3>2
    <2> QED BY <1>1, <1>6, <1>7, <2>2 DEF CollapseInv, Stamped
<1>12. Remembering'
    BY <1>1, <1>6 DEF CollapseInv, Remembering, Known, PairRevision
<1>13. Validating'
    BY <1>7, <1>9, <1>10 DEF CollapseInv, Validating
<1>14. /\ scan' \in ScanType
       /\ scan'.group = here + 1 /\ scan'.left = 0
       /\ scan'.last = scan.last /\ scan'.conflicts = scan.conflicts
    <2>1. here + 1 \in Nat \ {0}
        BY <1>3
    <2> QED BY <1>1, <1>2, <2>1 DEF ScanType, here
<1>15. Scanned' /\ Comparisons'
    BY <1>1, <1>2, <1>7, <1>14 DEF CollapseInv, Scanned, Comparisons
<1>16. ~scan.conflicts => ~scan.spilled
    BY <1>1, <1>2 DEF CollapseInv, Scanned, ScanType
<1>17. Passing'
    <2> SUFFICES ASSUME ~scan.conflicts, NEW g \in DOMAIN groups, g < here + 1
                 PROVE  AllMerge(g)
        BY <1>7, <1>9, <1>14 DEF Passing
    <2>1. CASE g = here
        BY <1>10, <1>16, <2>1
    <2>2. CASE g < here
        BY <2>2 DEF CollapseInv, Passing, here
    <2> QED BY <1>2, <1>3, <2>1, <2>2
<1> QED BY <1>1, <1>6, <1>8, <1>11, <1>12, <1>13, <1>15, <1>17 DEF CollapseInv

LEMMA NextPassStep ==
    ASSUME Closed, Grouped, CollapseInv, NextPass
    PROVE  Scanned' /\ Comparisons' /\ Passing'
<1>1. UNCHANGED <<rules, states, mapping, groups, memo>> /\ scan' = Pass
    BY DEF NextPass, Go
<1>2. groups \in Seq(GroupType)
    BY DEF Grouped
<1> QED BY <1>1, <1>2 DEF Scanned, Comparisons, Passing, Pass, ScanType

\* A pass without a conflict has every group behind it.
LEMMA SettleStep ==
    ASSUME Closed, Grouped, CollapseInv, Settle
    PROVE  Sound'
<1>1. /\ UNCHANGED <<rules, states, mapping, groups>>
      /\ scan.group > scan.last /\ ~scan.conflicts
    BY DEF Settle
<1>2. StateIds' = StateIds /\ Mergeable' = Mergeable
    BY <1>1, MergeableKept DEF StateIds
<1>3. \A g \in DOMAIN groups : AllMerge(g)
    BY <1>1 DEF CollapseInv, Scanned, Passing, Grouped, ScanType
<1>4. ASSUME NEW s \in StateIds, NEW t \in StateIds, mapping[s] = mapping[t], s # t
      PROVE  <<s, t>> \in Mergeable \/ <<t, s>> \in Mergeable
    <2> DEFINE g == mapping[s]
    <2>1. g \in DOMAIN groups
        BY DEF Grouped, CollapseInv
    <2>2. PICK i \in DOMAIN groups[g].members : groups[g].members[i] = s
        BY DEF Grouped, CollapseInv
    <2>3. PICK j \in DOMAIN groups[g].members : groups[g].members[j] = t
        BY <1>4 DEF Grouped, CollapseInv
    <2>4. groups[g].members \in Seq(StateIds)
        BY <2>1, GroupedMembers
    <2>5. i < j \/ j < i
        BY <1>4, <2>2, <2>3, <2>4
    <2> HIDE DEF g
    <2> QED BY <1>3, <2>1, <2>2, <2>3, <2>4, <2>5 DEF AllMerge
<1>5. \A s, t \in StateIds : mapping'[s] = mapping'[t] /\ s # t =>
          <<s, t>> \in Mergeable' \/ <<t, s>> \in Mergeable'
    BY <1>1, <1>2, <1>4
<1>6. Mergeable' = {p \in StateIds \X StateIds : CanMerge(p[1], p[2], mapping')}
    BY <1>1, MergeableNow
<1> QED BY <1>2, <1>5 DEF Sound, Compatible, Mergeable

-----------------------------------------------------------------------------
(* A spill.                                                                *)

\* A state goes to a later group, or to a new one.
LEMMA DestinationLater ==
    ASSUME Grouped, NEW s, NEW g \in DOMAIN groups
    PROVE  Destination(s, g) \in (g + 1)..(Len(groups) + 1)
<1>1. groups \in Seq(GroupType)
    BY DEF Grouped
<1>2. CASE Takers(s, g) = {}
    BY <1>1, <1>2 DEF Destination
<1>3. CASE Takers(s, g) # {}
    <2>1. Takers(s, g) \subseteq (g + 1)..Len(groups)
        BY DEF Takers
    <2>2. Takers(s, g) \in SUBSET Nat
        BY <1>1, <2>1
    <2>3. \E h \in Takers(s, g) : \A k \in Takers(s, g) : h <= k
        BY <1>3, <2>2, LeastNumber
    <2>4. Destination(s, g) \in Takers(s, g)
        BY <1>3, <2>3 DEF Destination
    <2> QED BY <1>1, <2>1, <2>4
<1> QED BY <1>2, <1>3

\* What is left of a list: its members but one.
LEMMA SwapRemoves ==
    ASSUME NEW S, NEW list \in Seq(S), NEW i \in DOMAIN list,
           \A j, k \in DOMAIN list : list[j] = list[k] => j = k
    PROVE  /\ SwapRemove(list, i) \in Seq(S)
           /\ \A k \in DOMAIN SwapRemove(list, i) :
                 \E j \in DOMAIN list \ {i} : SwapRemove(list, i)[k] = list[j]
           /\ \A j \in DOMAIN list \ {i} :
                 \E k \in DOMAIN SwapRemove(list, i) : SwapRemove(list, i)[k] = list[j]
           /\ \A k, m \in DOMAIN SwapRemove(list, i) :
                 SwapRemove(list, i)[k] = SwapRemove(list, i)[m] => k = m
<1> DEFINE n == Len(list)
           new == SwapRemove(list, i)
<1>1. n \in Nat /\ DOMAIN list = 1..n /\ i \in 1..n
    OBVIOUS
<1>2. /\ DOMAIN new = 1..(n - 1)
      /\ \A k \in 1..(n - 1) : new[k] = IF k = i THEN list[n] ELSE list[k]
    BY <1>1 DEF SwapRemove
<1>3. new \in Seq(S)
    BY <1>1 DEF SwapRemove
<1> HIDE DEF new, n
<1>4. ASSUME NEW k \in DOMAIN new
      PROVE  \E j \in DOMAIN list \ {i} : new[k] = list[j]
    BY <1>1, <1>2
<1>5. ASSUME NEW j \in DOMAIN list \ {i}
      PROVE  \E k \in DOMAIN new : new[k] = list[j]
    <2>1. CASE j = n
        <3>1. i \in 1..(n - 1)
            BY <1>1, <2>1
        <3> QED BY <1>2, <2>1, <3>1
    <2>2. CASE j # n
        <3>1. j \in 1..(n - 1)
            BY <1>1, <2>2
        <3> QED BY <1>2, <3>1
    <2> QED BY <2>1, <2>2
<1>6. ASSUME NEW k \in DOMAIN new, NEW m \in DOMAIN new, new[k] = new[m]
      PROVE  k = m
    <2>1. k \in 1..n /\ m \in 1..n /\ k # n /\ m # n /\ n \in 1..n
        BY <1>1, <1>2
    <2>2. CASE k = i /\ m # i
        BY <1>1, <1>2, <1>6, <2>1, <2>2
    <2>3. CASE k # i /\ m = i
        BY <1>1, <1>2, <1>6, <2>1, <2>3
    <2>4. CASE k # i /\ m # i
        BY <1>1, <1>2, <1>6, <2>1, <2>4
    <2> QED BY <2>2, <2>3, <2>4
<1> QED BY <1>3, <1>4, <1>5, <1>6 DEF new

\* The groups when the state at i of group g has gone to group h.
AfterSpill(new, g, i, h) ==
    /\ new \in Seq(GroupType)
    /\ DOMAIN new = DOMAIN groups \union {h}
    /\ \A k \in DOMAIN groups \ {g, h} : new[k] = groups[k]
    /\ new[g].members = SwapRemove(groups[g].members, i)
    /\ new[g].validated = <<>> /\ new[h].validated = <<>>
    /\ new[h].members = IF h \in DOMAIN groups
                        THEN Append(groups[h].members, groups[g].members[i])
                        ELSE <<groups[g].members[i]>>

LEMMA SpillMoves ==
    ASSUME Grouped, NEW g \in DOMAIN groups, NEW i \in DOMAIN groups[g].members,
           NEW h \in (g + 1)..(Len(groups) + 1)
    PROVE  AfterSpill(Spilled(g, i, h), g, i, h)
<1> DEFINE s == groups[g].members[i]
           new == Spilled(g, i, h)
           n == Len(groups)
           without == [groups[g] EXCEPT !.members = SwapRemove(@, i)]
           with == IF h > n THEN Group(groups[g].origin, s)
                   ELSE [groups[h] EXCEPT !.members = Append(@, s)]
<1>1. /\ groups \in Seq(GroupType) /\ n \in Nat /\ DOMAIN groups = 1..n
      /\ groups[g] \in GroupType /\ groups[g].members \in Seq(StateIds)
      /\ s \in StateIds
    BY GroupedMembers DEF Grouped
<1>2. SwapRemove(groups[g].members, i) \in Seq(StateIds)
    BY <1>1, SwapRemoves DEF Grouped
<1>3. /\ without \in GroupType
      /\ without.members = SwapRemove(groups[g].members, i)
    BY <1>1, <1>2 DEF GroupType
<1>4. /\ with \in GroupType
      /\ with.members = IF h \in DOMAIN groups THEN Append(groups[h].members, s) ELSE <<s>>
    <2>1. CASE h > n
        <3>1. groups[g].origin \in Nat /\ <<s>> \in Seq(StateIds)
            BY <1>1 DEF GroupType
        <3>2. Group(groups[g].origin, s) \in GroupType
              /\ Group(groups[g].origin, s).members = <<s>>
            BY <3>1 DEF Group, GroupType
        <3> QED BY <1>1, <2>1, <3>2
    <2>2. CASE h <= n
        <3>1. h \in DOMAIN groups /\ ~(h > n)
            BY <1>1, <2>2
        <3>2. groups[h] \in GroupType /\ Append(groups[h].members, s) \in Seq(StateIds)
            BY <1>1, <3>1, GroupedMembers
        <3>3. /\ [groups[h] EXCEPT !.members = Append(groups[h].members, s)] \in GroupType
              /\ [groups[h] EXCEPT !.members = Append(groups[h].members, s)].members
                    = Append(groups[h].members, s)
            BY <3>2 DEF GroupType
        <3> QED BY <3>1, <3>3
    <2> QED BY <1>1, <2>1, <2>2
<1> HIDE DEF without, with
<1>5. ASSUME NEW group \in GroupType
      PROVE  /\ MembershipChanged(group) \in GroupType
             /\ MembershipChanged(group).members = group.members
             /\ MembershipChanged(group).validated = <<>>
    <2>1. group.revision + 1 \in Nat /\ <<>> \in Seq(Signed)
        BY DEF GroupType
    <2> QED BY <2>1 DEF MembershipChanged, GroupType
<1>6. new = [k \in 1..(IF h > n THEN h ELSE n) |->
                IF k = g THEN MembershipChanged(without)
                ELSE IF k = h THEN MembershipChanged(with)
                ELSE groups[k]]
    BY DEF Spilled, without, with
<1> HIDE DEF new
<1>7. h \in Nat /\ g < h /\ h <= n + 1 /\ g \in 1..n
    BY <1>1
<1>8. 1..(IF h > n THEN h ELSE n) = DOMAIN groups \union {h}
    BY <1>1, <1>7
<1>9. /\ DOMAIN new = DOMAIN groups \union {h}
      /\ new[g] = MembershipChanged(without)
      /\ new[h] = MembershipChanged(with)
      /\ \A k \in DOMAIN groups \ {g, h} : new[k] = groups[k]
    BY <1>6, <1>7, <1>8
<1>10. \A k \in DOMAIN new : new[k] \in GroupType
    BY <1>1, <1>3, <1>4, <1>5, <1>9
<1>11. new \in Seq(GroupType)
    <2> DEFINE m == IF h > n THEN h ELSE n
    <2>1. m \in Nat
        BY <1>1, <1>7
    <2>2. DOMAIN new = 1..m /\ new = [k \in 1..m |-> new[k]]
        BY <1>6
    <2> HIDE DEF m
    <2>3. new \in [1..m -> GroupType]
        BY <1>10, <2>2
    <2> QED BY <2>1, <2>3
<1>12. AfterSpill(new, g, i, h)
    BY <1>3, <1>4, <1>5, <1>9, <1>11 DEF AfterSpill
<1> QED BY <1>12 DEF new

LEMMA PairSpillsStep ==
    ASSUME Closed, Grouped, CollapseInv, PairSpills
    PROVE  Grouped' /\ CollapseInv'
<1> DEFINE g == scan.group
           s == groups[g].members[scan.right]
           h == Destination(s, g)
<1>1. /\ UNCHANGED <<rules, states>>
      /\ scan' = [scan EXCEPT !.spilled = TRUE, !.conflicts = TRUE]
      /\ g <= scan.last /\ scan.left > 0
      /\ scan.right <= Len(groups[g].members)
      /\ mapping' = [mapping EXCEPT ![s] = h]
      /\ groups' = Spilled(g, scan.right, h)
      /\ memo' = IF mapping[s] = h THEN memo ELSE MappingChanged(s)
    BY DEF PairSpills, Comparing, Scanning, Go, Members, RightState
<1>2. scan \in ScanType /\ scan.last <= Len(groups) /\ groups \in Seq(GroupType)
      /\ scan.right > scan.left
    BY <1>1 DEF CollapseInv, Scanned, Grouped
<1>3. g \in DOMAIN groups
    BY <1>1, <1>2 DEF ScanType
<1>4. groups[g].members \in Seq(StateIds)
    BY <1>3, GroupedMembers
<1>5. scan.right \in DOMAIN groups[g].members
    BY <1>1, <1>2, <1>4 DEF ScanType
<1>6. s \in StateIds /\ mapping[s] = g
    BY <1>3, <1>4, <1>5 DEF Grouped
<1>7. h \in (g + 1)..(Len(groups) + 1) /\ h # g
    BY <1>2, <1>3, DestinationLater
<1> DEFINE list == groups[g].members
           left == SwapRemove(list, scan.right)
<1> HIDE DEF h
<1>8. /\ groups' \in Seq(GroupType)
      /\ DOMAIN groups' = DOMAIN groups \union {h}
      /\ \A k \in DOMAIN groups \ {g, h} : groups'[k] = groups[k]
      /\ groups'[g].members = left
      /\ groups'[g].validated = <<>> /\ groups'[h].validated = <<>>
      /\ groups'[h].members = IF h \in DOMAIN groups THEN Append(groups[h].members, s)
                              ELSE <<s>>
    <2>1. AfterSpill(Spilled(g, scan.right, h), g, scan.right, h)
        BY <1>3, <1>5, <1>7, SpillMoves
    <2> QED BY <1>1, <2>1 DEF AfterSpill
<1>9. memo' = MappingChanged(s)
    BY <1>1, <1>6, <1>7
<1>10. /\ left \in Seq(StateIds)
       /\ \A k \in DOMAIN left : \E j \in DOMAIN list \ {scan.right} : left[k] = list[j]
       /\ \A j \in DOMAIN list \ {scan.right} : \E k \in DOMAIN left : left[k] = list[j]
       /\ \A k, m \in DOMAIN left : left[k] = left[m] => k = m
    <2>1. \A j, k \in DOMAIN list : list[j] = list[k] => j = k
        BY <1>3 DEF Grouped
    <2> HIDE DEF list
    <2> QED BY <1>4, <1>5, <2>1, SwapRemoves DEF list
<1> HIDE DEF left
<1>11. StateIds' = StateIds /\ Seq(GroupType)' = Seq(GroupType)
    BY <1>1 DEF StateIds, GroupType, Signed
<1>12. DOMAIN mapping = StateIds /\ mapping \in [StateIds -> DOMAIN groups]
    BY DEF CollapseInv, Grouped
<1>13. /\ DOMAIN mapping' = StateIds /\ mapping' \in [StateIds -> DOMAIN groups']
       /\ mapping'[s] = h /\ \A t \in StateIds \ {s} : mapping'[t] = mapping[t]
    BY <1>1, <1>6, <1>8, <1>12
<1> HIDE DEF s, g
<1>14. /\ list[scan.right] = s
       /\ \A k \in DOMAIN groups : \A i \in DOMAIN groups[k].members :
             /\ groups[k].members[i] \in StateIds
             /\ mapping[groups[k].members[i]] = k
       /\ \A k \in DOMAIN groups : \A i, j \in DOMAIN groups[k].members :
             groups[k].members[i] = groups[k].members[j] => i = j
    BY GroupedMembers DEF Grouped, s
<1>15. list = groups[g].members
    OBVIOUS
<1> HIDE DEF list
<1>16. \A j \in DOMAIN list \ {scan.right} : list[j] \in StateIds \ {s} /\ mapping[list[j]] = g
    BY <1>3, <1>5, <1>14, <1>15
<1>17. ASSUME NEW k \in DOMAIN groups'
       PROVE  /\ \A i \in DOMAIN groups'[k].members :
                    /\ groups'[k].members[i] \in StateIds
                    /\ mapping'[groups'[k].members[i]] = k
              /\ \A i, j \in DOMAIN groups'[k].members :
                    groups'[k].members[i] = groups'[k].members[j] => i = j
    <2>1. CASE k = g
        <3>1. \A i \in DOMAIN left : left[i] \in StateIds \ {s} /\ mapping[left[i]] = g
            BY <1>10, <1>16
        <3> QED BY <1>8, <1>10, <1>13, <2>1, <3>1
    <2>2. CASE k = h /\ h \in DOMAIN groups
        <3> DEFINE old == groups[h].members
        <3>1. old \in Seq(StateIds)
            BY <2>2, GroupedMembers
        <3>2. /\ \A i \in DOMAIN old : old[i] \in StateIds /\ mapping[old[i]] = h
              /\ \A i, j \in DOMAIN old : old[i] = old[j] => i = j
            BY <1>14, <2>2
        <3>3. groups'[k].members = Append(old, s)
            BY <1>8, <2>2
        <3> HIDE DEF old
        <3>4. \A i \in DOMAIN old : old[i] # s
            BY <1>6, <1>7, <3>2
        <3>5. /\ DOMAIN Append(old, s) = DOMAIN old \union {Len(old) + 1}
              /\ Len(old) + 1 \notin DOMAIN old
              /\ \A i \in DOMAIN old : Append(old, s)[i] = old[i]
              /\ Append(old, s)[Len(old) + 1] = s
            BY <1>6, <3>1
        <3> QED BY <1>6, <1>13, <2>2, <3>2, <3>3, <3>4, <3>5
    <2>3. CASE k = h /\ h \notin DOMAIN groups
        <3>1. groups'[k].members = <<s>>
            BY <1>8, <2>3
        <3> QED BY <1>6, <1>13, <2>3, <3>1
    <2>4. CASE k \in DOMAIN groups \ {g, h}
        <3>1. groups'[k] = groups[k]
            BY <1>8, <2>4
        <3>2. \A i \in DOMAIN groups[k].members : groups[k].members[i] # s
            BY <1>6, <1>14, <2>4
        <3> QED BY <1>13, <1>14, <2>4, <3>1, <3>2
    <2> QED BY <1>8, <2>1, <2>2, <2>3, <2>4
<1>18. ASSUME NEW t \in StateIds
       PROVE  \E i \in DOMAIN groups'[mapping'[t]].members : groups'[mapping'[t]].members[i] = t
    <2>1. CASE t = s
        <3>1. CASE h \in DOMAIN groups
            <4>1. /\ groups[h].members \in Seq(StateIds)
                  /\ groups'[h].members = Append(groups[h].members, s)
                BY <1>8, <3>1, GroupedMembers
            <4>2. /\ Len(groups[h].members) + 1 \in DOMAIN groups'[h].members
                  /\ groups'[h].members[Len(groups[h].members) + 1] = s
                BY <1>6, <4>1
            <4> QED BY <1>13, <2>1, <4>2
        <3>2. CASE h \notin DOMAIN groups
            <4>1. groups'[h].members = <<s>>
                BY <1>8, <3>2
            <4> QED BY <1>13, <2>1, <4>1
        <3> QED BY <3>1, <3>2
    <2>2. CASE t # s
        <3>1. mapping'[t] = mapping[t] /\ mapping[t] \in DOMAIN groups
            BY <1>12, <1>13, <2>2
        <3>2. PICK i \in DOMAIN groups[mapping[t]].members : groups[mapping[t]].members[i] = t
            BY <1>12 DEF Grouped
        <3>3. CASE mapping[t] = g
            <4>1. i \in DOMAIN list \ {scan.right} /\ list[i] = t
                BY <1>14, <1>15, <2>2, <3>2, <3>3
            <4> QED BY <1>8, <1>10, <3>1, <3>3, <4>1
        <3>4. CASE mapping[t] = h
            <4>1. h \in DOMAIN groups
                BY <3>1, <3>4
            <4>2. /\ groups[h].members \in Seq(StateIds)
                  /\ groups'[h].members = Append(groups[h].members, s)
                BY <1>8, <4>1, GroupedMembers
            <4>3. i \in DOMAIN groups'[h].members /\ groups'[h].members[i] = t
                BY <1>6, <3>2, <3>4, <4>2
            <4> QED BY <3>1, <3>4, <4>3
        <3>5. CASE mapping[t] \notin {g, h}
            BY <1>8, <3>1, <3>2, <3>5
        <3> QED BY <3>3, <3>4, <3>5
    <2> QED BY <2>1, <2>2
<1>19. Grouped'
    BY <1>8, <1>11, <1>13, <1>17, <1>18 DEF Grouped
<1>20. /\ memo \in [changed : [StateIds -> Nat], next : Nat, merges : [StateIds \X StateIds -> Int]]
       /\ \A l \in StateIds : memo.changed[l] <= memo.next
       /\ \A p \in StateIds \X StateIds : memo.merges[p] <= memo.next
    BY DEF CollapseInv, Stamped
<1>21. /\ memo' \in [changed : [StateIds -> Nat], next : Nat,
                     merges : [StateIds \X StateIds -> Int]]
       /\ memo'.next = memo.next + 1 /\ memo'.merges = memo.merges
       /\ \A l \in StateIds : memo'.changed[l] = IF s \in Targets(l) THEN memo.next + 1
                                                 ELSE memo.changed[l]
    <2>1. memo.next + 1 \in Nat
        BY <1>20
    <2>2. [l \in StateIds |-> IF s \in Targets(l) THEN memo.next + 1 ELSE memo.changed[l]]
              \in [StateIds -> Nat]
        BY <1>20, <2>1
    <2> QED BY <1>9, <1>20, <2>1, <2>2 DEF MappingChanged
<1>22. ASSUME NEW k \in DOMAIN groups', groups'[k].validated # <<>>
       PROVE  /\ k \in DOMAIN groups /\ k # g /\ k # h
              /\ groups'[k] = groups[k]
              /\ groups[k].validated # <<>>
              /\ groups[k].validated[1].dependency <= memo.next
    <2>1. k \in DOMAIN groups \ {g, h}
        BY <1>8, <1>22
    <2> QED BY <1>8, <1>22, <2>1 DEF CollapseInv, Stamped
<1>23. Stamped'
    <2>1. ASSUME NEW k \in DOMAIN groups', groups'[k].validated # <<>>
          PROVE  groups'[k].validated[1].dependency <= memo.next + 1
        <3>1. groups[k].validated \in Seq(Signed) /\ groups[k].validated # <<>>
            BY <1>22, <2>1, GroupedMembers
        <3>2. groups[k].validated[1] \in Signed
            BY <3>1
        <3>3. groups[k].validated[1].dependency \in Nat
            BY <3>2 DEF Signed
        <3> QED BY <1>20, <1>22, <2>1, <3>3
    <2> QED BY <1>11, <1>20, <1>21, <2>1 DEF Stamped
<1>24. ASSUME NEW l \in StateIds, NEW r \in StateIds, s \notin Targets(l) \union Targets(r)
       PROVE  <<l, r>> \in Mergeable' <=> <<l, r>> \in Mergeable
    BY <1>1, <1>6, <1>12, <1>24, MergeableMoved
<1>25. Remembering'
    <2> SUFFICES ASSUME NEW l \in StateIds, NEW r \in StateIds, Known(l, r)'
                 PROVE  <<l, r>> \in Mergeable'
        BY <1>11 DEF Remembering
    <2>1. memo'.merges[<<l, r>>] \in Int /\ memo'.merges[<<l, r>>] <= memo.next
        BY <1>20, <1>21
    <2>2. s \notin Targets(l) \union Targets(r)
        BY <1>20, <1>21, <2>1 DEF Known, PairRevision
    <2>3. Known(l, r)
        BY <1>21, <2>2 DEF Known, PairRevision
    <2> QED BY <1>24, <2>2, <2>3 DEF CollapseInv, Remembering
<1>26. Validating'
    <2> SUFFICES ASSUME NEW k \in DOMAIN groups', groups'[k].validated # <<>>,
                        groups'[k].validated[1].dependency = Latest(k)'
                 PROVE  AllMerge(k)'
        BY DEF Validating
    <2>1. /\ k \in DOMAIN groups /\ groups'[k] = groups[k]
          /\ groups[k].validated # <<>> /\ groups[k].validated[1].dependency <= memo.next
        BY <1>22
    <2> DEFINE old == groups[k].members
    <2>2. old \in Seq(StateIds) /\ \A i \in DOMAIN old : old[i] \in StateIds
        BY <2>1, GroupedMembers
    <2> DEFINE was == {0} \union {memo.changed[old[i]] : i \in DOMAIN old}
               is == {0} \union {memo'.changed[old[i]] : i \in DOMAIN old}
    <2>3. Latest(k) = Largest(was) /\ Latest(k)' = Largest(is)
        BY <2>1 DEF Latest, Revisions
    <2>4. groups[k].validated[1].dependency = Largest(is)
        BY <2>1, <2>3
    <2> HIDE DEF old
    <2>5. \A i \in DOMAIN old : s \notin Targets(old[i])
        <3> SUFFICES ASSUME NEW i \in DOMAIN old, s \in Targets(old[i])
                     PROVE  FALSE
            OBVIOUS
        <3>1. memo'.changed[old[i]] = memo.next + 1
            BY <1>21, <2>2
        <3>2. memo.next + 1 \in is
            BY <3>1
        <3>3. \A j \in DOMAIN old : memo'.changed[old[j]] \in 0..(memo.next + 1)
            BY <1>20, <1>21, <2>2
        <3>4. is \in SUBSET (0..(memo.next + 1)) /\ memo.next + 1 \in Nat
            BY <1>20, <3>3
        <3> HIDE DEF is
        <3>5. memo.next + 1 <= Largest(is) /\ Largest(is) \in 0..(memo.next + 1)
            BY <3>2, <3>4, LargestChosen
        <3> QED BY <1>20, <2>1, <2>4, <3>5
    <2>6. is = was
        <3>1. \A i \in DOMAIN old : memo'.changed[old[i]] = memo.changed[old[i]]
            BY <1>21, <2>2, <2>5
        <3> QED BY <3>1
    <2>7. AllMerge(k)
        BY <2>1, <2>3, <2>4, <2>6 DEF CollapseInv, Validating
    <2>8. ASSUME NEW j \in DOMAIN old, NEW i \in 1..(j - 1)
          PROVE  <<old[i], old[j]>> \in Mergeable'
        <3>1. i \in DOMAIN old
            BY <2>2
        <3>2. <<old[i], old[j]>> \in Mergeable
            BY <2>7 DEF AllMerge, old
        <3> QED BY <1>24, <2>2, <2>5, <3>1, <3>2
    <2> QED BY <2>1, <2>8 DEF AllMerge, old
<1>27. /\ scan' \in ScanType
       /\ scan'.spilled /\ scan'.conflicts
       /\ scan'.last = scan.last /\ scan'.left = scan.left /\ scan'.right = scan.right
    BY <1>1, <1>2 DEF ScanType
<1>28. Len(groups) <= Len(groups')
    BY <1>2, <1>8
<1>29. Scanned' /\ Comparisons' /\ Passing'
    BY <1>2, <1>8, <1>27, <1>28 DEF Scanned, Comparisons, Passing, ScanType
<1> QED BY <1>11, <1>13, <1>19, <1>23, <1>25, <1>26, <1>29 DEF CollapseInv

-----------------------------------------------------------------------------
(* The invariant.                                                          *)

LEMMA InitInv == Init => AutomatonInv
<1> SUFFICES ASSUME Init PROVE AutomatonInv
    OBVIOUS
<1>1. /\ stage = "inline" /\ groups = <<>> /\ mapping = <<>> /\ states = <<>>
    BY DEF Init
<1>2. DOMAIN states = {}
    BY <1>1
<1>3. Closed
    BY <1>2, FS_EmptySet DEF Closed, ClosedTable
<1> QED BY <1>1, <1>3 DEF AutomatonInv, Early, Late, Sound

LEMMA BuildKeeps ==
    ASSUME AutomatonInv, Build \/ Tokenizing
    PROVE  AutomatonInv'
<1>1. /\ stage \in Early
      /\ UNCHANGED <<groups, mapping>>
    BY DEF Build, Tokenizing, AssignTokens, RefuseTokens, InlineRules, MergeRules, FirstPass, Start, AddStartState, StartFilling,
           AddGoto, AddShift, AddReduction, CloseState, Finish, Transition, Filling, Early
<1>2. groups' = <<>> /\ mapping' = <<>>
    BY <1>1 DEF AutomatonInv
<1>3. Closed'
    BY BuildClosed, TokensClosed DEF AutomatonInv
<1>4. stage' \in Early \union {"rejected", "group"}
    BY <1>1 DEF Build, Tokenizing, AssignTokens, RefuseTokens, InlineRules, MergeRules, FirstPass, Start, AddStartState, StartFilling,
           AddGoto, AddShift, AddReduction, CloseState, Finish, Transition, Filling, Early
<1>5. Grouped' /\ Unscanned'
    <2>1. DOMAIN groups' = {} /\ DOMAIN mapping' = {} /\ DOMAIN mapping' = 1..0
        BY <1>2
    <2>2. groups' \in Seq(GroupType)' /\ mapping' \in [DOMAIN mapping' -> DOMAIN groups']
        BY <1>2, <2>1
    <2> QED BY <2>1, <2>2 DEF Grouped, Unscanned
<1> QED BY <1>2, <1>3, <1>4, <1>5 DEF AutomatonInv, Early, Late, Sound

\* What the passes keep when they only move on.
LEMMA Onward ==
    ASSUME Grouped, CollapseInv, UNCHANGED <<rules, states, mapping, groups, memo>>,
           Scanned' /\ Comparisons' /\ Passing'
    PROVE  Grouped' /\ CollapseInv'
BY Unmoved DEF CollapseInv, StateIds

LEMMA CollapseKeeps ==
    ASSUME AutomatonInv, CollapseNext
    PROVE  AutomatonInv'
<1>1. UNCHANGED <<rules, states>> /\ stage \in {"group", "collapse"}
    BY DEF CollapseNext, JoinGroup, OpenGroup, StartPasses, SkipGroup, EnterGroup, PairKnown,
           PairMerges, PairSpills, NextLeft, LeaveGroup, NextPass, Settle, Go, Comparing,
           Scanning, Entering
<1>2. Closed /\ Grouped /\ (stage = "group" => Unscanned) /\ (stage = "collapse" => CollapseInv)
    BY <1>1 DEF AutomatonInv
<1>3. Closed'
    BY <1>1, <1>2 DEF Closed, ClosedTable, IsState
<1>4. CASE JoinGroup \/ OpenGroup
    <2>1. stage = "group" /\ stage' = "group"
        BY <1>4 DEF JoinGroup, OpenGroup
    <2>2. Grouped' /\ Unscanned'
        BY <1>2, <1>4, <2>1, JoinGroupStep, OpenGroupStep
    <2> QED BY <1>3, <2>1, <2>2 DEF AutomatonInv, Early, Late, Sound
<1>5. CASE StartPasses
    <2>1. stage = "group" /\ stage' = "collapse"
        BY <1>5 DEF StartPasses
    <2>2. Grouped' /\ CollapseInv'
        BY <1>2, <1>5, <2>1, StartPassesStep
    <2> QED BY <1>3, <2>1, <2>2 DEF AutomatonInv, Early, Late, Sound
<1>6. CASE Settle
    <2>1. stage = "collapse" /\ stage' = "merge"
        BY <1>6 DEF Settle
    <2>2. Sound'
        BY <1>2, <1>6, <2>1, SettleStep
    <2> QED BY <1>3, <2>1, <2>2 DEF AutomatonInv, Early, Late
<1>7. CASE SkipGroup \/ EnterGroup \/ PairKnown \/ NextLeft \/ NextPass
    <2>1. stage = "collapse" /\ stage' = "collapse" /\ UNCHANGED <<mapping, groups, memo>>
        BY <1>7 DEF SkipGroup, EnterGroup, PairKnown, NextLeft, NextPass, Go, Comparing,
                    Scanning, Entering
    <2>2. Scanned' /\ Comparisons' /\ Passing'
        BY <1>2, <1>7, <2>1, SkipGroupStep, EnterGroupStep, PairKnownStep, NextLeftStep,
           NextPassStep
    <2>3. Grouped' /\ CollapseInv'
        BY <1>1, <1>2, <2>1, <2>2, Onward
    <2> QED BY <1>3, <2>1, <2>3 DEF AutomatonInv, Early, Late, Sound
<1>8. CASE PairMerges \/ PairSpills \/ LeaveGroup
    <2>1. stage = "collapse" /\ stage' = "collapse"
        BY <1>8 DEF PairMerges, PairSpills, LeaveGroup, Go, Comparing, Scanning
    <2>2. Grouped' /\ CollapseInv'
        BY <1>2, <1>8, <2>1, PairMergesStep, PairSpillsStep, LeaveGroupStep
    <2> QED BY <1>3, <2>1, <2>2 DEF AutomatonInv, Early, Late, Sound
<1> QED BY <1>4, <1>5, <1>6, <1>7, <1>8 DEF CollapseNext

\* After the passes nothing changes of what the groups are made of.
LEMMA LateKeeps ==
    ASSUME AutomatonInv, UNCHANGED <<rules, states, mapping>>,
           stage \in Late, stage' \in Late
    PROVE  AutomatonInv'
<1>1. Closed'
    BY DEF AutomatonInv, Closed, ClosedTable, IsState
<1>2. StateIds' = StateIds /\ Mergeable' = Mergeable
    BY MergeableKept DEF StateIds
<1>3. \A s, t \in StateIds : mapping[s] = mapping[t] /\ s # t =>
          <<s, t>> \in Mergeable \/ <<t, s>> \in Mergeable
    BY DEF AutomatonInv, Sound, Compatible, Mergeable, Late
<1>4. \A s, t \in StateIds' : mapping'[s] = mapping'[t] /\ s # t =>
          <<s, t>> \in Mergeable' \/ <<t, s>> \in Mergeable'
    BY <1>2, <1>3
<1>5. Sound'
    BY <1>4 DEF Sound, Compatible, Mergeable
<1> QED BY <1>1, <1>5 DEF AutomatonInv, Early, Late

LEMMA NextInv == AutomatonInv /\ [Next]_vars => AutomatonInv'
<1> SUFFICES ASSUME AutomatonInv, [Next]_vars PROVE AutomatonInv'
    OBVIOUS
<1>1. CASE Build \/ Tokenizing
    BY <1>1, BuildKeeps
<1>2. CASE Collapsing
    BY <1>2, CollapseKeeps DEF Collapsing
<1>3. CASE Merging
    <2>1. /\ UNCHANGED <<rules, states, mapping>>
          /\ stage \in Late /\ stage' \in Late
        BY <1>3 DEF Merging, MergeStates, MergeIdentical, Done, Late
    <2> QED BY <2>1, LateKeeps
<1>4. CASE UNCHANGED vars
    <2>1. UNCHANGED <<rules, states, stage, mapping, groups, memo, scan>>
        BY <1>4 DEF vars
    <2>2. CASE stage \in Late
        BY <2>1, <2>2, LateKeeps
    <2>3. CASE stage \notin Late
        <3>1. Closed' /\ (Grouped => Grouped')
            BY <2>1, Unmoved DEF AutomatonInv
        <3>2. Unscanned => Unscanned'
            BY <2>1 DEF Unscanned
        <3>3. CollapseInv => CollapseInv'
            <4>1. Mergeable' = Mergeable /\ StateIds' = StateIds
                BY <2>1, MergeableKept DEF StateIds
            <4>2. \A g \in DOMAIN groups : AllMerge(g) <=> AllMerge(g)'
                BY <2>1, Unmoved
            <4> QED BY <2>1, <4>1, <4>2, Unmoved
                    DEF CollapseInv, Scanned, Comparisons, Passing, ScanType
        <3>4. Sound'
            BY <2>1, <2>3 DEF Sound, Late
        <3> QED BY <2>1, <2>3, <3>1, <3>2, <3>3, <3>4 DEF AutomatonInv, Early, Late
    <2> QED BY <2>2, <2>3
<1> QED BY <1>1, <1>2, <1>3, <1>4 DEF Next

LEMMA InvHolds == Spec => []AutomatonInv
BY InitInv, NextInv, PTL DEF Spec

-----------------------------------------------------------------------------
(* The states of a group can be merged when the collapse is over: two      *)
(* states that share a merged state agree on every action and goto they    *)
(* have a term for (collapse_automaton).                                   *)
THEOREM CollapseSound == Spec => []Sound
<1>1. AutomatonInv => Sound
    BY DEF AutomatonInv
<1> QED BY <1>1, InvHolds, PTL

(* A pair that the memo calls compatible can be merged under the mapping   *)
(* as it is now (CollapseMemo).                                            *)
THEOREM MemoSound == Spec => []MemoHonest
<1>1. AutomatonInv => MemoHonest
    BY DEF AutomatonInv, CollapseInv, Remembering, MemoHonest, Mergeable
<1> QED BY <1>1, InvHolds, PTL

(* A group with a valid signature has no pair that would be spilled        *)
(* (Group::is_validated).                                                  *)
THEOREM SkipSound == Spec => []SkipHonest
<1>1. AutomatonInv => SkipHonest
    <2> SUFFICES ASSUME AutomatonInv, stage = "collapse",
                        NEW g \in DOMAIN groups, IsValidated(groups[g]),
                        NEW j \in DOMAIN groups[g].members, NEW i \in 1..(j - 1)
                 PROVE  CanMerge(groups[g].members[i], groups[g].members[j], mapping)
        BY DEF SkipHonest
    <2>1. AllMerge(g)
        BY ValidatedMerges DEF AutomatonInv, CollapseInv
    <2>2. <<groups[g].members[i], groups[g].members[j]>> \in Mergeable
        BY <2>1 DEF AllMerge
    <2> QED BY <2>2 DEF Mergeable
<1> QED BY <1>1, InvHolds, PTL
=============================================================================
