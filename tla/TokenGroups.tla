------------------------------- MODULE TokenGroups -------------------------------
(***************************************************************************)
(* The tokens of a grammar in its LR states (rezel-generator: build.rs,    *)
(* build_main_token_groups): the tokens that could be taken for each other *)
(* are kept in different token groups, unless they are ordered, and every  *)
(* LR state gets a group that has its tokens.  The groups are found        *)
(* between the building of the states and their collapse (Automaton.tla).  *)
(*                                                                         *)
(*   tokens   phase, and what is known so far: the lexicon, the relations  *)
(*            of its declarations and the tokens left to read; nfa, the    *)
(*            edges of their expressions; the compiled automaton and its   *)
(*            partition; dfa, the minimal one; the conflicts, hard as sets *)
(*            of two, soft as pairs with the longer token in front; the    *)
(*            constrained tokens of every group; at, the last LR state     *)
(*            that was given a group; overlapping, whether one of them     *)
(*            expects two tokens with a hard conflict; the precedence      *)
(*            list, what is not yet placed in it, and the table            *)
(***************************************************************************)
EXTENDS AutomatonLanguage, TokenDfa

CONSTANTS
    Lexicons(_),      \* the lexicons of a grammar
    MaxTokenGroups,   \* the bits of a group mask: 16
    Lexemes           \* texts to read tokens from

VARIABLE tokens
tokenVars == <<vars, tokens>>

AllGroups == 1..MaxTokenGroups

\* The term itself, or the token it is a specialization of.
RECURSIVE BaseOf(_, _)
BaseOf(lexicon, term) ==
    IF term \in DOMAIN lexicon.base THEN BaseOf(lexicon, lexicon.base[term]) ELSE term

\* The tokens that the grammar mentions, in the order of their ids.
Mentioned(lexicon) ==
    LET parts == (UNION {Range(source[r].parts) : r \in DOMAIN source}) \cap Terminals
        used == {BaseOf(lexicon, t) : t \in parts}
    IN  SelectSeq(Symbols, LAMBDA t : t \in used)

\* The tokens of the actions of a state; main_state_terms.
TokensOf(actions) == {BaseOf(tokens.lexicon, a.term) : a \in actions}

-----------------------------------------------------------------------------
(* Precedence.                                                             *)

\* add_precedence_relation, for every item of the declarations.
AddRelation(relations, term, after) ==
    IF \E i \in DOMAIN relations : relations[i].term = term
    THEN [i \in DOMAIN relations |->
             IF relations[i].term = term THEN [relations[i] EXCEPT !.after = @ \union after]
             ELSE relations[i]]
    ELSE Append(relations, [term |-> term, after |-> after])

FromDeclaration(relations, items) ==
    FoldLeft(LAMBDA rel, i : AddRelation(rel, items[i], {items[j] : j \in 1..(i - 1)}),
             relations, [i \in DOMAIN items |-> i])

Relations(lexicon) == FoldLeft(FromDeclaration, <<>>, lexicon.precedence)

\* preceded_by.
PrecededBy(term, other) ==
    \E r \in Range(tokens.relations) : r.term = term /\ other \in r.after

\* A soft conflict of two tokens with relations puts the longer one in front.
WithSoft(relations, soft) ==
    LET terms == {r.term : r \in Range(relations)}
    IN  [i \in DOMAIN relations |->
            [relations[i] EXCEPT
                !.after = @ \union {p[1] : p \in {p \in soft : /\ p[2] = relations[i].term
                                                               /\ p[1] \in terms}}]]

\* The relations whose token comes after none that is not placed yet.
Ready == {i \in DOMAIN tokens.unplaced :
             tokens.unplaced[i].after \subseteq Range(tokens.precedence)}

-----------------------------------------------------------------------------
(* Conflicts.                                                              *)

\* state_has_term, of one state with both: what is read is not looked at.
ExpectedTogether(a, b) ==
    \E s \in StateIds : {a, b} \subseteq {x.term : x \in states[s].actions}

Unordered(a, b) == ~PrecededBy(a, b) /\ ~PrecededBy(b, a)

\* main_token_conflicts, of what find_conflicts has found to be soft.
SoftConflicts(soft) ==
    {p \in soft : Unordered(p[1], p[2]) /\ {p[1], p[2]} \notin tokens.lexicon.conflicts}

HardConflicts(soft) ==
    {pair \in Pairs(tokens.dfa) : /\ \A a, b \in pair : Unordered(a, b)
                                  /\ \A p \in soft : {p[1], p[2]} # pair}
    \union tokens.lexicon.conflicts

-----------------------------------------------------------------------------
(* assign_main_token_groups.                                               *)

\* token_group_constraints.
Constrained(terms) == {t \in terms : \E pair \in tokens.hard : t \in pair}
Incompatible(terms) ==
    {u \in UNION tokens.hard : \E t \in terms : t # u /\ {t, u} \in tokens.hard}

Welcoming(terms) ==
    {g \in DOMAIN tokens.groups : Incompatible(terms) \cap tokens.groups[g] = {}}

GroupFor(terms) ==
    IF Welcoming(terms) = {} THEN Len(tokens.groups) + 1
    ELSE CHOOSE g \in Welcoming(terms) : \A h \in Welcoming(terms) : g <= h

\* Mutant: a group keeps the tokens it was made for.
WithTermsAtFirst(g, terms) ==
    IF g \in DOMAIN tokens.groups THEN tokens.groups
    ELSE Append(tokens.groups, Constrained(terms))

WithTerms(g, terms) ==
    IF g \in DOMAIN tokens.groups
    THEN [tokens.groups EXCEPT ![g] = @ \union Constrained(terms)]
    ELSE Append(tokens.groups, Constrained(terms))

\* token_group_masks: a token without a group of its own is in every group.
MaskOf(term) ==
    LET own == {g \in DOMAIN tokens.groups : term \in tokens.groups[g]}
    IN  IF own = {} THEN AllGroups ELSE own

-----------------------------------------------------------------------------
Unread ==
    [phase |-> "unread", lexicon |-> <<>>, relations |-> <<>>, left |-> <<>>, nfa |-> <<>>,
     compiled |-> <<>>, partition |-> <<>>, dfa |-> <<>>, hard |-> {}, soft |-> {},
     groups |-> <<>>, group |-> <<>>, at |-> 0, overlapping |-> FALSE,
     unplaced |-> <<>>, precedence |-> <<>>, table |-> <<>>, why |-> "none"]

Refused(why) == [tokens EXCEPT !.phase = "refused", !.why = why]

Phase(phase) == stage = "tokens" /\ tokens.phase = phase /\ UNCHANGED vars

ReadLexicon ==
    /\ Phase("unread")
    /\ \E lexicon \in Lexicons(source) :
          tokens' = [tokens EXCEPT !.phase = "expressions", !.lexicon = lexicon, !.nfa = NewNfa,
                                   !.left = Mentioned(lexicon),
                                   !.relations = Relations(lexicon)]

BuildToken ==
    /\ Phase("expressions") /\ tokens.left # <<>>
    /\ \E nfa \in {AddToken(tokens.nfa, tokens.lexicon, Head(tokens.left))} :
          tokens' = IF nfa.nested THEN Refused("recursion")
                    ELSE [tokens EXCEPT !.nfa = nfa, !.left = Tail(@)]

StartCompile ==
    /\ Phase("expressions") /\ tokens.left = <<>>
    /\ tokens' = [tokens EXCEPT !.phase = "compile", !.compiled = NewDfa(tokens.nfa)]

CompileStates ==
    /\ Phase("compile") /\ Undiscovered(tokens.compiled) # {}
    /\ tokens' = [tokens EXCEPT !.compiled = Discovered(tokens.nfa, @)]

StartMinimize ==
    /\ Phase("compile") /\ Undiscovered(tokens.compiled) = {}
    /\ tokens' = [tokens EXCEPT !.phase = "minimize", !.nfa = <<>>,
                                !.partition = ByAccepting(tokens.compiled)]

MinimizePass ==
    /\ Phase("minimize")
    /\ \E next \in {Refined(tokens.compiled, tokens.partition)} :
          /\ next # tokens.partition
          /\ tokens' = [tokens EXCEPT !.partition = next]

\* reject_zero_length_token, when the automaton is minimal.
Minimize ==
    /\ Phase("minimize")
    /\ Refined(tokens.compiled, tokens.partition) = tokens.partition
    /\ tokens' = IF tokens.compiled.states[tokens.compiled.start].accepting # {} THEN Refused("empty")
                 ELSE [tokens EXCEPT !.phase = "conflicts", !.compiled = <<>>, !.partition = <<>>,
                                     !.dfa = Minimized(tokens.compiled, tokens.partition)]

FindTokenConflicts ==
    /\ Phase("conflicts")
    /\ \E soft \in {Soft(tokens.dfa, {p \in Longer(tokens.dfa) : ExpectedTogether(p[1], p[2])})} :
          tokens' = [tokens EXCEPT !.phase = "assign", !.hard = HardConflicts(soft),
                                   !.soft = SoftConflicts(soft)]

\* One LR state: the first group that has none of the tokens it must not meet.
AssignGroup ==
    /\ Phase("assign") /\ tokens.at + 1 \in StateIds
    /\ \E state \in {states[tokens.at + 1]} :
       \E terms \in {TokensOf(state.actions)} :
       \E g \in {GroupFor(terms)} :
          tokens' =
              IF state.default # NoRule \/ terms = {}
              THEN [tokens EXCEPT !.at = @ + 1, !.group = Append(@, NoGroup)]
              ELSE [tokens EXCEPT !.at = @ + 1, !.group = Append(@, g),
                                  !.overlapping = @ \/ Incompatible(terms) \cap terms # {},
                                  !.groups = WithTerms(g, terms)]

\* build_precedence_table begins when every state has its group.
StartOrder ==
    /\ Phase("assign") /\ tokens.at + 1 \notin StateIds
    /\ tokens' =
          IF tokens.overlapping THEN Refused("overlap")
          ELSE IF Len(tokens.groups) > MaxTokenGroups THEN Refused("groups")
          ELSE [tokens EXCEPT !.phase = "order",
                              !.unplaced = WithSoft(tokens.relations, tokens.soft)]

PlaceToken ==
    /\ Phase("order") /\ tokens.unplaced # <<>>
    /\ tokens' =
          IF Ready = {} THEN Refused("cyclic")
          ELSE [tokens EXCEPT !.unplaced = SwapRemove(@, Min(Ready)),
                              !.precedence = Append(@, tokens.unplaced[Min(Ready)].term)]

WriteTokens ==
    /\ Phase("order") /\ tokens.unplaced = <<>>
    /\ tokens' = [tokens EXCEPT !.phase = "ready", !.dfa = <<>>,
                                !.table = ToTable(tokens.dfa, [t \in Terminals |-> MaskOf(t)],
                                                  tokens.precedence)]

\* The automaton goes on with the groups, or not at all.
Continue ==
    /\ \/ tokens.phase = "ready" /\ AssignTokens(tokens.group)
       \/ tokens.phase = "refused" /\ RefuseTokens
    /\ UNCHANGED tokens

Tokens ==
    \/ ReadLexicon \/ BuildToken \/ StartCompile \/ CompileStates
    \/ StartMinimize \/ MinimizePass \/ Minimize \/ FindTokenConflicts
    \/ AssignGroup \/ StartOrder \/ PlaceToken \/ WriteTokens \/ Continue

TokenInit == Init /\ tokens = Unread
TokenNext == Tokens \/ ((Build \/ Collapsing \/ Merging) /\ UNCHANGED tokens)
TokenSpec == TokenInit /\ [][TokenNext]_tokenVars /\ WF_tokenVars(TokenNext)

-----------------------------------------------------------------------------
(* What the tokens match, by their expressions.                            *)

InSet(e, code) ==
    (\E r \in e.ranges : r[1] <= code /\ code < r[2]) # e.inverted

RECURSIVE Spans(_, _, _, _, _), Iterated(_, _, _, _, _)

\* Where a match that begins at one of the positions may end, with a position of
\* its own behind the end of the input; a rule is entered no more often than there
\* are positions to enter it at.
Spans(named, e, text, from, depth) ==
    CASE e.kind = "set" ->
            {i + 1 : i \in {i \in from : i < Len(text) /\ InSet(e, text[i + 1])}}
      [] e.kind = "literal" ->
            {i + Len(e.text) : i \in {i \in from : /\ i + Len(e.text) <= Len(text)
                                                   /\ SubSeq(text, i + 1, i + Len(e.text)) = e.text}}
      [] e.kind = "eof" -> {Len(text) + 1 : i \in {i \in from : i >= Len(text)}}
      [] e.kind = "choice" ->
            UNION {Spans(named, e.of[k], text, from, depth) : k \in DOMAIN e.of}
      [] e.kind = "sequence" ->
            FoldLeft(LAMBDA ends, part : Spans(named, part, text, ends, depth), from, e.of)
      [] e.kind = "repeat" ->
            (CASE e.times = "?" -> from \union Spans(named, e.of, text, from, depth)
               [] e.times = "*" -> Iterated(named, e.of, text, from, depth)
               [] e.times = "+" ->
                     Iterated(named, e.of, text, Spans(named, e.of, text, from, depth), depth))
      [] e.kind = "name" ->
            IF depth = 0 \/ from = {} THEN {}
            ELSE Spans(named, named[e.name], text, from, depth - 1)

Iterated(named, e, text, from, depth) ==
    LET more == from \union Spans(named, e, text, from, depth)
    IN  IF more = from THEN from ELSE Iterated(named, e, text, more, depth)

Matches(term, text) ==
    LET lexicon == tokens.lexicon
    IN  Spans(lexicon.named, lexicon.tokens[term], text, {0}, Len(text) + 2)

-----------------------------------------------------------------------------
(* What the groups have to be right about.                                 *)

\* A token that is read up to some position is right where another one matches:
\* when it is declared before that one; or when it goes further, is not declared
\* after it, and there is a place in the grammar where both are expected.
Rightly(read, upTo, term, end) ==
    \/ read = term /\ end <= upTo
    \/ PrecededBy(term, read)
    \/ end < upTo /\ ~PrecededBy(read, term) /\ ExpectedTogether(read, term)

ReadRight(matched, expected, read, text) ==
    IF read = Table!None THEN \A t \in expected : matched[t] = {}
    ELSE \E upTo \in matched[read[1].term] :
            /\ read[1].end = IF upTo > Len(text) THEN Len(text) ELSE upTo
            /\ \A t \in expected : \A end \in matched[t] : Rightly(read[1].term, upTo, t, end)

\* Two tokens overlap and are not ordered, or were said to be in conflict.
Overlapping(a, b) ==
    \/ {a, b} \in tokens.lexicon.conflicts
    \/ /\ Unordered(a, b)
       /\ \E text \in Lexemes : Matches(a, text) # {} /\ Matches(b, text) # {}

(* After the collapse, every state reads every text in its token group as  *)
(* its tokens are declared: a token that the state expects is not lost to  *)
(* one that is expected elsewhere only, a longer match wins unless a       *)
(* declaration is against it, and what is read does match.  Tokens are     *)
(* refused as overlapping only where a state expects two that are.         *)
TokensAsDeclared ==
    /\ stage = "done" =>
          \A text \in Lexemes :
          \E matched \in {[t \in Range(Mentioned(tokens.lexicon)) |-> Matches(t, text)]} :
             \A s \in DOMAIN merged : merged[s].token # NoGroup =>
                ReadRight(matched, TokensOf(Range(merged[s].actions)) \cap DOMAIN matched,
                          ReadToken(tokens.table, tokens.precedence, merged[s].token, text),
                          text)
    /\ tokens.why = "overlap" /\ stage = "tokens" =>
          \E s \in StateIds : \E a, b \in TokensOf(states[s].actions) \ {Eof} :
              a # b /\ Overlapping(a, b)
=============================================================================
