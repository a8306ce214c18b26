------------------------------ MODULE Grammar ------------------------------
(***************************************************************************)
(* The generated LR tables as the run time reads them (rezel-lr:           *)
(* constants.rs, action_index.rs, goto_index.rs and the look-ups of        *)
(* ParserCore in parse.rs).                                                *)
(*                                                                         *)
(* The compact u16/u32 encodings are abstracted to what a look-up returns: *)
(* an action is a record, an action row is a sequence of <<term, action>>  *)
(* entries, and a goto column is a set of exceptions with a default.       *)
(***************************************************************************)
EXTENDS Ranks

CONSTANTS
    State,             \* the LR states of the language
    TopRule,           \* the top rules: start state and strict flag
    ActionRow,         \* ActionRow[s]: the entries of the Actions field
    SkipRow,           \* SkipRow[s]: the entries of the Skip field
    ActionElse,        \* the SequenceCode::Other action that ends ActionRow[s]
    SkipElse,          \* the same for SkipRow[s]; NoAction when there is none
    DefaultReduce,     \* DefaultReduce[s]: an action or NoAction
    ForcedReduce,      \* ForcedReduce[s]: an action or NoAction
    SkippedState,      \* states with StateFlag::Skipped
    AcceptingState,    \* states with StateFlag::Accepting
    LexingState,       \* states whose tokenizer mask is not empty
    Goto,              \* Goto[t]: the goto column of nonterminal t
    MinRepeatTerm,     \* reductions below this term create named nodes
    MaxNode,           \* the last term that has a node type
    DynamicPrecedence  \* DynamicPrecedence[t]: score of a reduction of t

Error == 0
Eof == MaxNode + 1

ActionKind == {"none", "shift", "goto", "stay", "reduce", "repeat", "stayReduce"}
Action == [kind : ActionKind, value : Nat, depth : Nat]

NoAction == [kind |-> "none", value |-> 0, depth |-> 0]
IsReduce(a) == a.kind \in {"reduce", "repeat", "stayReduce"}

\* The actions and goto columns of a table, as a language module writes them.
ShiftTo(state) == [kind |-> "shift", value |-> state, depth |-> 0]
Enter(state) == [kind |-> "goto", value |-> state, depth |-> 0]
Skip(state) == [kind |-> "stay", value |-> state, depth |-> 0]
ReduceTo(term, depth) == [kind |-> "reduce", value |-> term, depth |-> depth]
Repeat(term, depth) == [kind |-> "repeat", value |-> term, depth |-> depth]
StayReduce(term, depth) == [kind |-> "stayReduce", value |-> term, depth |-> depth]
Column(exception, default, source) ==
    [exception |-> [s \in State |-> IF s \in DOMAIN exception THEN exception[s] ELSE -1],
     default |-> default, source |-> source]

\* Anonymous node types: the repeat terms inside the node set.
Anonymous(t) == t >= MinRepeatTerm /\ t <= MaxNode

GotoColumn == [exception : [State -> State \cup {-1}], default : State,
               source : SUBSET State]

\* An entry of a row is a reduction, or it names a state.
Proper(a) == IsReduce(a) \/ (a.kind # "none" /\ a.value \in State)

ASSUME GrammarAssumption ==
    /\ State \subseteq Nat /\ IsFiniteSet(State)
    /\ TopRule # {} /\ TopRule \subseteq [state : State, strict : BOOLEAN]
    /\ ActionRow \in [State -> Seq(Nat \X Action)]
    /\ SkipRow \in [State -> Seq(Nat \X Action)]
    /\ ActionElse \in [State -> Action]
    /\ SkipElse \in [State -> Action]
    /\ DefaultReduce \in [State -> Action]
    /\ ForcedReduce \in [State -> Action]
    /\ SkippedState \subseteq State
    /\ AcceptingState \subseteq State
    /\ LexingState \subseteq State
    /\ MinRepeatTerm \in Nat
    /\ MaxNode \in Nat
    /\ DOMAIN Goto \subseteq Nat
    /\ \A t \in DOMAIN Goto : Goto[t] \in GotoColumn
    /\ DOMAIN DynamicPrecedence \subseteq Nat
    /\ \A t \in DOMAIN DynamicPrecedence : DynamicPrecedence[t] \in Int
    /\ \A s \in State :
          /\ \A i \in DOMAIN ActionRow[s] : Proper(ActionRow[s][i][2])
          /\ \A i \in DOMAIN SkipRow[s] : Proper(SkipRow[s][i][2])
          /\ ActionElse[s] = NoAction \/ Proper(ActionElse[s])
          /\ SkipElse[s] = NoAction \/ Proper(SkipElse[s])
          /\ DefaultReduce[s] = NoAction \/ IsReduce(DefaultReduce[s])

NoState == -1

\* GotoIndex::get: an exception for the source state wins, a loose look-up
\* falls through to the default target, a strict one only from its sources.
GetGoto(state, term, loose) ==
    IF term \notin DOMAIN Goto THEN NoState
    ELSE LET column == Goto[term]
         IN  IF column.exception[state] # NoState THEN column.exception[state]
             ELSE IF loose \/ state \in column.source THEN column.default
             ELSE NoState

\* visit_row with TokenActions::put: the row's actions for a term are added to
\* actions unless already present; the fallback only when there is nothing.
Visit(actions, row, otherwise, term) ==
    LET new == {i \in DOMAIN row :
                   /\ row[i][1] = term
                   /\ \A k \in DOMAIN actions : actions[k] # row[i][2]
                   /\ \A j \in 1 .. i - 1 : row[j] # row[i]}
        added == Picked(row, new)
        found == actions \o [k \in DOMAIN added |-> added[k][2]]
    IN  IF found = << >> /\ otherwise # NoAction THEN <<otherwise>> ELSE found

\* add_actions: the action row, then the skip row.
\* Mutant: the skip row is not read.
ActionsForUnskipped(state, term) ==
    Visit(<< >>, ActionRow[state], ActionElse[state], term)
ActionsFor(state, term) ==
    Visit(Visit(<< >>, ActionRow[state], ActionElse[state], term),
          SkipRow[state], SkipElse[state], term)

\* first_action: a row's action for a term, or its fallback.
RowActs(row, otherwise, term) ==
    otherwise # NoAction \/ \E i \in DOMAIN row : row[i][1] = term
HasAction(state, term) == \/ RowActs(ActionRow[state], ActionElse[state], term)
                          \/ RowActs(SkipRow[state], SkipElse[state], term)

\* all_actions: the default reduction first, then the action row.
AllActions(state) ==
    LET row == [i \in DOMAIN ActionRow[state] |-> ActionRow[state][i][2]]
    IN  IF DefaultReduce[state] = NoAction THEN row ELSE <<DefaultReduce[state]>> \o row

ValidAction(state, action) ==
    \E i \in DOMAIN AllActions(state) : AllActions(state)[i] = action

\* next_states: one <<term, target>> for each distinct shift target of the
\* action row, the first term that reaches it.
ShiftTargets[row \in Seq(Nat \X Action)] ==
    LET shifts == {i \in DOMAIN row : ~IsReduce(row[i][2])}
        kept == Picked(row, {i \in shifts :
                                \A j \in shifts : j < i => row[j][2].value # row[i][2].value})
    IN  [k \in DOMAIN kept |-> <<kept[k][1], kept[k][2].value>>]
NextStates == [state \in State |-> ShiftTargets[ActionRow[state]]]
=============================================================================
