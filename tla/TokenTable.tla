------------------------------ MODULE TokenTable ------------------------------
(***************************************************************************)
(* A generated token automaton as read_token of rezel-lr/src/token.rs      *)
(* walks it.  A table is a record                                          *)
(*   groups[q]   the token groups that may be in state q                   *)
(*   accepts[q]  the terms q accepts, each with the groups it is for, in    *)
(*               the order of the table                                    *)
(*   edges[q]    a function from code points to the next state             *)
(*   eof[q]      the next state at the end of the input, or None           *)
(* The binary search over code-point ranges and the ASCII index built from *)
(* it give the same function edges[q].                                     *)
(***************************************************************************)
EXTENDS Integers, Sequences, SequencesExt

None == << >>
Ascii(value) == value < 128
StartState == 1

Active(table, state, group) == group \in table.groups[state]

HasEdge(table, state, value) == value \in DOMAIN table.edges[state]

\* overrides: a term the precedence list names earlier, or does not name at all,
\* wins over one it names; any term wins over one it does not name.
Offset(term, precedence) ==
    LET at == {i \in DOMAIN precedence : precedence[i] = term}
    IN  IF at = {} THEN 0 ELSE CHOOSE i \in at : \A j \in at : i <= j
Overrides(term, previous, precedence) ==
    \/ Offset(previous, precedence) = 0
    \/ Offset(term, precedence) < Offset(previous, precedence)

\* Where a state has the terms that may replace the one accepted so far.  A term
\* the dialect has disabled is passed over.
Candidates(table, state, group, current, precedence, disabled) ==
    {i \in DOMAIN table.accepts[state] :
        LET a == table.accepts[state][i]
        IN  /\ group \in a.groups
            /\ a.term \notin disabled
            /\ \/ current = None
               \/ current[1] = a.term
               \/ Overrides(a.term, current[1], precedence)}

\* The term accepted when the walk comes to a state.
Accepted(table, state, group, current, precedence, disabled) ==
    LET candidates == Candidates(table, state, group, current, precedence, disabled)
    IN  IF candidates = {} THEN None ELSE << table.accepts[state][Min(candidates)].term >>
=============================================================================
