-------------------------------- MODULE TokenDfa --------------------------------
(***************************************************************************)
(* The token automaton of the generator (rezel-generator: build.rs,        *)
(* token.rs): the expressions of the tokens become one nondeterministic    *)
(* automaton, which is compiled, minimized and written to a table.         *)
(*                                                                         *)
(* A lexicon has                                                           *)
(*   tokens      the expression of every token                             *)
(*   named       the expressions of the token rules                        *)
(*   base        the token that a specialized term is a reading of         *)
(*   precedence  the declarations, each a sequence of tokens               *)
(*   conflicts   the pairs of @conflict                                    *)
(* An expression is a record with its kind: set (ranges, inverted),        *)
(* literal (text), eof, choice and sequence (of), repeat (of, times) or    *)
(* name.  A range <<low, high>> ends before high.                          *)
(*                                                                         *)
(* A state of the compiled automaton is the set of states it stands for,   *)
(* a state of the minimized one the set of compiled states.                *)
(***************************************************************************)
EXTENDS Integers, Sequences, FiniteSets, SequencesExt

CONSTANT CodePointLimit   \* CODE_POINT_LIMIT: code points are below

Table == INSTANCE TokenTable

-----------------------------------------------------------------------------
(* Expressions to edges.                                                   *)

NewNfa == [size |-> 1, edges |-> {}, accepting |-> {}, nested |-> FALSE]
NfaStart == 1

Edge(kind, from, range, to) ==
    [kind |-> kind, from |-> from, low |-> range[1], high |-> range[2], to |-> to]

WithEdges(nfa, edges) == [nfa EXCEPT !.edges = @ \union edges]
WithEpsilon(nfa, from, to) == WithEdges(nfa, {Edge("epsilon", from, <<0, 0>>, to)})
WithNfaState(nfa) == [nfa EXCEPT !.size = @ + 1]

\* invert_ranges: what the ranges leave out.
InvertRanges(ranges) ==
    LET lows == {0} \union {r[2] : r \in ranges}
        highs == {CodePointLimit} \union {r[1] : r \in ranges}
    IN  {gap \in lows \X highs :
            gap[1] < gap[2] /\ \A r \in ranges : r[2] <= gap[1] \/ gap[2] <= r[1]}

RECURSIVE BuildExpression(_, _, _, _, _, _), BuildSequence(_, _, _, _, _, _),
          BuildChoice(_, _, _, _, _, _)

BuildSequence(nfa, named, list, from, to, building) ==
    IF list = <<>> THEN WithEpsilon(nfa, from, to)
    ELSE IF Len(list) = 1 THEN BuildExpression(nfa, named, list[1], from, to, building)
    ELSE LET middle == nfa.size + 1
         IN  BuildSequence(BuildExpression(WithNfaState(nfa), named, list[1], from, middle,
                                           building),
                           named, Tail(list), middle, to, building)

BuildChoice(nfa, named, list, from, to, building) ==
    IF list = <<>> THEN nfa
    ELSE BuildChoice(BuildExpression(nfa, named, list[1], from, to, building), named,
                     Tail(list), from, to, building)

BuildRepeat(nfa, named, e, from, to, building) ==
    LET loop == nfa.size + 1
        Again(n) == WithEpsilon(BuildExpression(n, named, e.of, loop, loop, building), loop, to)
    IN  CASE e.times = "*" -> Again(WithEpsilon(WithNfaState(nfa), from, loop))
          [] e.times = "+" ->
                Again(BuildExpression(WithNfaState(nfa), named, e.of, from, loop, building))
          [] e.times = "?" ->
                BuildExpression(WithEpsilon(nfa, from, to), named, e.of, from, to, building)

\* A rule that is being built is entered again only where it would end.
BuildTokenRule(nfa, named, name, from, to, building) ==
    LET known == {b \in building : b.name = name}
        start == nfa.size + 1
    IN  IF known = {}
        THEN BuildExpression(WithEpsilon(WithNfaState(nfa), from, start), named, named[name],
                             start, to,
                             building \union {[name |-> name, start |-> start, target |-> to]})
        ELSE IF \E b \in known : b.target = to
        THEN WithEpsilon(nfa, from, (CHOOSE b \in known : TRUE).start)
        ELSE [nfa EXCEPT !.nested = TRUE]

Single(code) == [kind |-> "set", ranges |-> {<<code, code + 1>>}, inverted |-> FALSE]

BuildExpression(nfa, named, e, from, to, building) ==
    CASE e.kind = "set" ->
            WithEdges(nfa, {Edge("range", from, r, to) :
                               r \in IF e.inverted THEN InvertRanges(e.ranges) ELSE e.ranges})
      [] e.kind = "literal" ->
            IF e.text = <<>> THEN nfa
            ELSE BuildSequence(nfa, named, [i \in DOMAIN e.text |-> Single(e.text[i])],
                               from, to, building)
      [] e.kind = "eof" -> WithEdges(nfa, {Edge("eof", from, <<0, 0>>, to)})
      [] e.kind = "choice" -> BuildChoice(nfa, named, e.of, from, to, building)
      [] e.kind = "sequence" -> BuildSequence(nfa, named, e.of, from, to, building)
      [] e.kind = "repeat" -> BuildRepeat(nfa, named, e, from, to, building)
      [] e.kind = "name" -> BuildTokenRule(nfa, named, e.name, from, to, building)

\* get_token and get_literal: an accepting state, and the edges that lead there.
AddToken(nfa, lexicon, term) ==
    LET target == nfa.size + 1
    IN  BuildExpression([WithNfaState(nfa) EXCEPT !.accepting = @ \union {<<target, term>>}],
                        lexicon.named, lexicon.tokens[term], NfaStart, target, {})

-----------------------------------------------------------------------------
(* TokenNfa::compile.                                                      *)

RECURSIVE EpsilonReach(_, _)
EpsilonReach(nfa, known) ==
    LET more == known \union {e.to : e \in {e \in nfa.edges :
                                               e.kind = "epsilon" /\ e.from \in known}}
    IN  IF more = known THEN known ELSE EpsilonReach(nfa, more)

AcceptedAt(nfa, s) == {a[2] : a \in {a \in nfa.accepting : a[1] = s}}

\* A state counts when it has an edge, or accepts what no state behind it does.
Stays(nfa, s) ==
    LET from == {e \in nfa.edges : e.from = s}
    IN  \/ \E e \in from : e.kind # "epsilon"
        \/ /\ AcceptedAt(nfa, s) # {}
           /\ \A e \in from : e.kind = "epsilon" => AcceptedAt(nfa, e.to) # AcceptedAt(nfa, s)

EpsilonClosure(nfa, s) == {t \in EpsilonReach(nfa, {s}) : Stays(nfa, t)}

Labeled(nfa, set, kind) == {e \in nfa.edges : e.kind = kind /\ e.from \in set}

\* merge_edges: the pieces between the bounds of the ranges, each with all targets.
MergeEdges(nfa, edges) ==
    LET bounds == {e.low : e \in edges} \union {e.high : e \in edges}
        pieces == {p \in bounds \X bounds :
                      p[1] < p[2] /\ \A b \in bounds : b <= p[1] \/ p[2] <= b}
        Targets(p) == UNION {EpsilonClosure(nfa, e.to) :
                                e \in {e \in edges : e.high > p[1] /\ e.low < p[2]}}
    IN  {[low |-> p[1], high |-> p[2], to |-> Targets(p)] :
            p \in {p \in pieces : Targets(p) # {}}}

\* get_state.
CompiledState(nfa, set) ==
    [accepting |-> UNION {AcceptedAt(nfa, s) : s \in set},
     edges |-> MergeEdges(nfa, Labeled(nfa, set, "range")),
     eof |-> {UNION {EpsilonClosure(nfa, e.to) : e \in Labeled(nfa, set, "eof")}} \ {{}}]

Successors(state) == {e.to : e \in state.edges} \union state.eof

NewDfa(nfa) == [start |-> EpsilonClosure(nfa, NfaStart), states |-> <<>>]

Undiscovered(dfa) ==
    ({dfa.start} \union UNION {Successors(dfa.states[q]) : q \in DOMAIN dfa.states})
    \ DOMAIN dfa.states

Discovered(nfa, dfa) ==
    [dfa EXCEPT !.states = [q \in DOMAIN @ \union Undiscovered(dfa) |->
                               IF q \in DOMAIN @ THEN @[q] ELSE CompiledState(nfa, q)]]

-----------------------------------------------------------------------------
(* minimize: the states that accept the same are parted until those that   *)
(* are together have the same ranges to the same parts.                    *)

ByAccepting(dfa) ==
    [q \in DOMAIN dfa.states |->
        {r \in DOMAIN dfa.states : dfa.states[r].accepting = dfa.states[q].accepting}]

Led(state, partition) ==
    [accepting |-> state.accepting,
     edges |-> {[e EXCEPT !.to = partition[@]] : e \in state.edges},
     eof |-> {partition[q] : q \in state.eof}]

Refined(dfa, partition) ==
    [q \in DOMAIN partition |->
        {r \in partition[q] : Led(dfa.states[r], partition) = Led(dfa.states[q], partition)}]

Minimized(dfa, partition) ==
    [start |-> partition[dfa.start],
     states |-> [part \in Range(partition) |->
                    Led(dfa.states[CHOOSE q \in part : TRUE], partition)]]

-----------------------------------------------------------------------------
(* find_conflicts.                                                         *)

RECURSIVE Below(_, _, _)
Below(dfa, all, fresh) ==
    IF fresh = {} THEN all
    ELSE LET next == UNION {Successors(dfa.states[q]) : q \in fresh}
         IN  Below(dfa, all \union next, next \ all)

ReachableFrom(dfa, q) == Below(dfa, {q}, {q})

Accepting(dfa, states) == UNION {dfa.states[q].accepting : q \in states}

\* cycle_terms: what is accepted in a state that is behind itself.
CycleTerms(dfa) ==
    LET behind == [q \in DOMAIN dfa.states |->
                      UNION {ReachableFrom(dfa, r) : r \in Successors(dfa.states[q])}]
    IN  Accepting(dfa, {q \in DOMAIN dfa.states : q \in behind[q]})

\* The tokens that are accepted in one state, and the pairs of a token and one
\* that is accepted before it.
Ties(dfa) ==
    UNION {{{a, b} : a, b \in dfa.states[q].accepting} : q \in DOMAIN dfa.states}

Longer(dfa) ==
    {p \in UNION {Accepting(dfa, ReachableFrom(dfa, q) \ {q}) \X dfa.states[q].accepting :
                     q \in DOMAIN dfa.states} : p[1] # p[2]}

\* A pair is soft, for the longer one to be read, when the tokens are expected
\* together and neither can be repeated; any other way to meet makes it hard.
Soft(dfa, together) ==
    LET cycles == CycleTerms(dfa)
        longer == Longer(dfa)
    IN  {p \in longer : /\ <<p[2], p[1]>> \notin longer /\ {p[1], p[2]} \notin Ties(dfa)
                        /\ p[1] \notin cycles /\ p[2] \notin cycles
                        /\ p \in together}

Pairs(dfa) ==
    {{p[1], p[2]} : p \in Longer(dfa)} \union {t \in Ties(dfa) : Cardinality(t) = 2}

-----------------------------------------------------------------------------
(* to_table, in the form of TokenTable, and read_token on it.              *)

\* The tokens of a state, those of the precedence list first and in its order.
AcceptOrder(terms, precedence) ==
    SelectSeq(precedence, LAMBDA t : t \in terms)
    \o SetToSeq({t \in terms : ~\E i \in DOMAIN precedence : precedence[i] = t})

ToTable(dfa, masks, precedence) ==
    LET ids == DOMAIN dfa.states
        Covered(q) == UNION {e.low..(e.high - 1) : e \in dfa.states[q].edges}
        Target(q, code) ==
            (CHOOSE e \in dfa.states[q].edges : e.low <= code /\ code < e.high).to
        accept == [q \in ids |-> AcceptOrder(dfa.states[q].accepting, precedence)]
    IN  [groups |-> [q \in ids |->
                        UNION {masks[t] : t \in Accepting(dfa, ReachableFrom(dfa, q))}],
         accepts |-> [q \in ids |-> [i \in DOMAIN accept[q] |->
                        [term |-> accept[q][i], groups |-> masks[accept[q][i]]]]],
         edges |-> [q \in ids |-> [code \in Covered(q) |-> Target(q, code)]],
         eof |-> [q \in ids |-> IF dfa.states[q].eof = {} THEN Table!None
                                ELSE <<CHOOSE r \in dfa.states[q].eof : TRUE>>],
         start |-> dfa.start]

RECURSIVE ReadOn(_, _, _, _, _, _, _)
ReadOn(table, precedence, group, text, at, state, accepted) ==
    LET term == Table!Accepted(table, state, group,
                               IF accepted = Table!None THEN accepted ELSE <<accepted[1].term>>,
                               precedence, {})
        now == IF term = Table!None THEN accepted ELSE <<[term |-> term[1], end |-> at]>>
    IN  IF ~Table!Active(table, state, group) THEN accepted
        ELSE IF at = Len(text)
        THEN IF table.eof[state] = Table!None THEN now
             ELSE ReadOn(table, precedence, group, text, at, table.eof[state][1], now)
        ELSE IF ~Table!HasEdge(table, state, text[at + 1]) THEN now
        ELSE ReadOn(table, precedence, group, text, at + 1,
                    table.edges[state][text[at + 1]], now)

\* The token a group reads from a text, or None.
ReadToken(table, precedence, group, text) ==
    ReadOn(table, precedence, group, text, 0, table.start, Table!None)
=============================================================================
