--------------------------- MODULE GrammarProofs ---------------------------
(***************************************************************************)
(* What the look-ups of the LR tables return, for every table.             *)
(***************************************************************************)
EXTENDS Grammar, NumberProofs

-----------------------------------------------------------------------------
\* Where an action that a row offers for a term comes from.
Entries(row) == {row[i][2] : i \in DOMAIN row}

\* visit_row keeps the actions it is given and adds actions of the row, or its
\* fallback where there is nothing else.
LEMMA VisitAdds ==
    ASSUME NEW actions \in Seq(Action), NEW row \in Seq(Nat \X Action),
           NEW otherwise \in Action, NEW term
    PROVE  LET visited == Visit(actions, row, otherwise, term)
           IN  /\ visited \in Seq(Action)
               /\ Len(visited) >= Len(actions)
               /\ \A k \in DOMAIN actions : visited[k] = actions[k]
               /\ \A k \in DOMAIN visited : k > Len(actions) =>
                     \/ visited[k] \in Entries(row)
                     \/ visited[k] = otherwise /\ otherwise # NoAction
<1>. DEFINE new == {i \in DOMAIN row :
                      /\ row[i][1] = term
                      /\ \A k \in DOMAIN actions : actions[k] # row[i][2]
                      /\ \A j \in 1 .. i - 1 : row[j] # row[i]}
            picked == Picked(row, new)
            added == [k \in DOMAIN picked |-> picked[k][2]]
            found == actions \o added
            visited == Visit(actions, row, otherwise, term)
<1>1. new \in SUBSET DOMAIN row
  OBVIOUS
<1>3. visited = IF found = << >> /\ otherwise # NoAction THEN <<otherwise>> ELSE found
  BY DEF Visit
<1>. HIDE DEF new, visited
<1>2. /\ picked \in Seq(Nat \X Action)
      /\ \A k \in DOMAIN picked : \E i \in new : picked[k] = row[i]
  BY <1>1, PickedMembers
<1>. HIDE DEF picked
<1>6. /\ added \in Seq(Action)
      /\ \A k \in DOMAIN added : added[k] \in Entries(row)
  <2>1. DOMAIN picked = 1 .. Len(picked) /\ Len(picked) \in Nat
    BY <1>2
  <2>2. \A k \in DOMAIN picked : picked[k][2] \in Action
    BY <1>2
  <2>3. \A k \in DOMAIN picked : picked[k][2] \in Entries(row)
    BY <1>1, <1>2 DEF Entries
  <2>. QED  BY <2>1, <2>2, <2>3
<1>. HIDE DEF added
<1>7. /\ found \in Seq(Action)
      /\ Len(found) = Len(actions) + Len(added)
      /\ \A k \in DOMAIN actions : found[k] = actions[k]
      /\ \A k \in DOMAIN found : k > Len(actions) => found[k] \in Entries(row)
  BY <1>6
<1>8. CASE found = << >> /\ otherwise # NoAction
  <2>1. Len(actions) = 0
    BY <1>6, <1>7, <1>8
  <2>2. visited = <<otherwise>>
    BY <1>3, <1>8
  <2>. QED  BY <1>8, <2>1, <2>2 DEF visited
<1>9. CASE ~(found = << >> /\ otherwise # NoAction)
  <2>1. visited = found
    BY <1>3, <1>9
  <2>2. Len(found) >= Len(actions)
    BY <1>6, <1>7
  <2>. QED  BY <1>7, <2>1, <2>2 DEF visited
<1>. QED  BY <1>8, <1>9

\* The actions that the tables hold for a state.
TableActions(state) ==
    Entries(ActionRow[state]) \cup Entries(SkipRow[state])
        \cup ({ActionElse[state], SkipElse[state]} \ {NoAction})

\* add_actions keeps the actions it is given and adds actions of the state.
LEMMA LookUpAdds ==
    ASSUME NEW actions \in Seq(Action), NEW state \in State, NEW term
    PROVE  LET all == Visit(Visit(actions, ActionRow[state], ActionElse[state], term),
                            SkipRow[state], SkipElse[state], term)
           IN  /\ all \in Seq(Action)
               /\ Len(all) >= Len(actions)
               /\ \A k \in DOMAIN all : k > Len(actions) => all[k] \in TableActions(state)
<1>. DEFINE first == Visit(actions, ActionRow[state], ActionElse[state], term)
            all == Visit(first, SkipRow[state], SkipElse[state], term)
<1>1. /\ ActionRow[state] \in Seq(Nat \X Action) /\ ActionElse[state] \in Action
      /\ SkipRow[state] \in Seq(Nat \X Action) /\ SkipElse[state] \in Action
  BY GrammarAssumption
<1>2. /\ first \in Seq(Action)
      /\ Len(first) >= Len(actions)
      /\ \A k \in DOMAIN first : k > Len(actions) =>
            \/ first[k] \in Entries(ActionRow[state])
            \/ first[k] = ActionElse[state] /\ ActionElse[state] # NoAction
  BY <1>1, VisitAdds
<1>. HIDE DEF first
<1>3. /\ all \in Seq(Action)
      /\ Len(all) >= Len(first)
      /\ \A k \in DOMAIN first : all[k] = first[k]
      /\ \A k \in DOMAIN all : k > Len(first) =>
            \/ all[k] \in Entries(SkipRow[state])
            \/ all[k] = SkipElse[state] /\ SkipElse[state] # NoAction
  BY <1>1, <1>2, VisitAdds
<1>. HIDE DEF all
<1>4. ASSUME NEW k \in DOMAIN all, k > Len(actions) PROVE all[k] \in TableActions(state)
  <2>1. CASE k > Len(first)
    BY <1>3, <2>1 DEF TableActions
  <2>2. CASE ~(k > Len(first))
    <3>1. k \in DOMAIN first
      BY <1>2, <1>3, <2>2
    <3>. QED  BY <1>2, <1>3, <1>4, <3>1 DEF TableActions
  <2>. QED  BY <2>1, <2>2
<1>5. Len(all) >= Len(actions)
  BY <1>2, <1>3
<1>. QED  BY <1>3, <1>4, <1>5 DEF all, first

\* What a state offers for a term are actions of the state.
LEMMA ActionsForType ==
    ASSUME NEW state \in State, NEW term
    PROVE  /\ ActionsFor(state, term) \in Seq(Action)
           /\ \A k \in DOMAIN ActionsFor(state, term) :
                 ActionsFor(state, term)[k] \in TableActions(state)
<1>1. << >> \in Seq(Action) /\ Len(<< >>) = 0
  OBVIOUS
<1>. DEFINE all == Visit(Visit(<< >>, ActionRow[state], ActionElse[state], term),
                            SkipRow[state], SkipElse[state], term)
<1>2. /\ all \in Seq(Action)
      /\ \A k \in DOMAIN all : k > Len(<< >>) => all[k] \in TableActions(state)
  BY <1>1, LookUpAdds
<1>3. ActionsFor(state, term) = all
  BY DEF ActionsFor
<1>. HIDE DEF all
<1>4. \A k \in DOMAIN all : k > Len(<< >>)
  BY <1>1, <1>2
<1>. QED  BY <1>2, <1>3, <1>4

\* A goto leads to a state, if anywhere.
LEMMA GotoType ==
    ASSUME NEW state \in State, NEW term, NEW loose
    PROVE  GetGoto(state, term, loose) \in State \cup {NoState}
BY GrammarAssumption DEF GetGoto, GrammarAssumption, GotoColumn, NoState

\* What the tables hold for a state can be applied to a stack.
LEMMA TableActionsProper ==
    ASSUME NEW state \in State
    PROVE  /\ TableActions(state) \subseteq {a \in Action : Proper(a)}
           /\ DefaultReduce[state] \in Action
           /\ DefaultReduce[state] # NoAction => IsReduce(DefaultReduce[state])
<1>1. /\ ActionRow[state] \in Seq(Nat \X Action) /\ SkipRow[state] \in Seq(Nat \X Action)
      /\ ActionElse[state] \in Action /\ SkipElse[state] \in Action
      /\ DefaultReduce[state] \in Action
      /\ \A i \in DOMAIN ActionRow[state] : Proper(ActionRow[state][i][2])
      /\ \A i \in DOMAIN SkipRow[state] : Proper(SkipRow[state][i][2])
      /\ ActionElse[state] = NoAction \/ Proper(ActionElse[state])
      /\ SkipElse[state] = NoAction \/ Proper(SkipElse[state])
      /\ DefaultReduce[state] = NoAction \/ IsReduce(DefaultReduce[state])
  BY GrammarAssumption DEF GrammarAssumption
<1>2. \A a \in Entries(ActionRow[state]) \cup Entries(SkipRow[state]) : a \in Action /\ Proper(a)
  BY <1>1 DEF Entries
<1>. QED  BY <1>1, <1>2 DEF TableActions

\* The states recover_by_insert may push.
LEMMA NextStatesType ==
    ASSUME NEW state \in State
    PROVE  NextStates[state] \in Seq(Nat \X State)
<1>. DEFINE row == ActionRow[state]
            shifts == {i \in DOMAIN row : ~IsReduce(row[i][2])}
            new == {i \in shifts : \A j \in shifts : j < i => row[j][2].value # row[i][2].value}
            kept == Picked(row, new)
<1>1. row \in Seq(Nat \X Action) /\ \A i \in DOMAIN row : Proper(row[i][2])
  BY GrammarAssumption DEF GrammarAssumption
<1>2. NextStates[state] = [k \in DOMAIN kept |-> <<kept[k][1], kept[k][2].value>>]
  BY <1>1 DEF NextStates, ShiftTargets
<1>3. new \in SUBSET DOMAIN row /\ \A i \in new : ~IsReduce(row[i][2])
  OBVIOUS
<1>. HIDE DEF row, new
<1>4. /\ kept \in Seq(Nat \X Action)
      /\ \A k \in DOMAIN kept : \E i \in new : kept[k] = row[i]
  BY <1>1, <1>3, PickedMembers
<1>5. \A k \in DOMAIN kept : kept[k][2].value \in State
  BY <1>1, <1>3, <1>4 DEF Proper
<1>. HIDE DEF kept
<1>6. \A k \in DOMAIN kept : <<kept[k][1], kept[k][2].value>> \in Nat \X State
  BY <1>4, <1>5
<1>7. DOMAIN kept = 1 .. Len(kept) /\ Len(kept) \in Nat
  BY <1>4
<1>. QED  BY <1>2, <1>6, <1>7

=============================================================================
