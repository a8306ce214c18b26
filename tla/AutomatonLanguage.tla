---------------------------- MODULE AutomatonLanguage ----------------------------
(***************************************************************************)
(* The texts of a grammar, and the texts that an LR automaton accepts when *)
(* it is run as the parser does: default reductions first, every action of *)
(* a term where there are several.                                         *)
(***************************************************************************)
EXTENDS Automaton

CONSTANTS
    MaxText,     \* tokens of a text
    MaxStack     \* states of a stack: only nonterminals without text pass it

-----------------------------------------------------------------------------
(* What a grammar derives.                                                 *)

Short(texts) == {t \in texts : Len(t) <= MaxText}

Concatenated(left, right) == Short({t \o u : t \in left, u \in right})

TextsOf(parts, table) ==
    LET upto[k \in 0..Len(parts)] ==
            IF k = 0 THEN {<<>>}
            ELSE Concatenated(upto[k - 1], IF parts[k] \in Terminals THEN {<<parts[k]>>}
                                           ELSE table[parts[k]])
    IN  upto[Len(parts)]

MoreTexts(grammar, table) ==
    [t \in Nonterminals |->
        table[t] \union UNION {TextsOf(grammar[r].parts, table) :
                                  r \in {r \in DOMAIN grammar : grammar[r].name = t}}]

RECURSIVE Derived(_, _, _)
Derived(grammar, table, known) ==
    IF table = known THEN table
    ELSE Derived(grammar, MoreTexts(grammar, table), table)

NoTexts == [t \in Nonterminals |-> {}]

-----------------------------------------------------------------------------
(* What an automaton accepts.                                              *)

Ended(core) ==
    \E i \in core : i[2] = Length(i[1])
                    /\ \E k \in DOMAIN StartTerms : StartTerms[k] = rules[i[1]].name

Canonical ==
    [s \in StateIds |->
        [start |-> states[s].start, default |-> states[s].default,
         actions |-> states[s].actions, gotos |-> states[s].gotos,
         accepts |-> Ended(Core(s))]]

Collapsed ==
    [s \in DOMAIN merged |->
        [start |-> merged[s].start, default |-> merged[s].default,
         actions |-> Range(merged[s].actions), gotos |-> Range(merged[s].gotos),
         accepts |-> Ended(merged[s].core)]]

Reduced(machine, c, rule) ==
    LET below == SubSeq(c.stack, 1, Len(c.stack) - Length(rule))
    IN  {[c EXCEPT !.stack = Append(below, g.to)] :
            g \in On(machine[Last(below)].gotos, rules[rule].name)}

Acted(machine, c, action) ==
    IF action.kind = "reduce" THEN Reduced(machine, c, action.to)
    ELSE {[stack |-> Append(c.stack, action.to), text |-> Append(c.text, c.look),
           look |-> Nothing]}

StepsOf(machine, c) ==
    LET state == machine[Last(c.stack)]
    IN  IF state.default # NoRule THEN Reduced(machine, c, state.default)
        ELSE IF c.look = Nothing
        THEN {[c EXCEPT !.look = t] : t \in {a.term : a \in state.actions} \union {Eof}}
        ELSE UNION {Acted(machine, c, a) : a \in On(state.actions, c.look)}

InBounds(c) == Len(c.text) <= MaxText /\ Len(c.stack) <= MaxStack

RECURSIVE ReachedFrom(_, _, _)
ReachedFrom(machine, all, fresh) ==
    IF fresh = {} THEN all
    ELSE LET next == {c \in UNION {StepsOf(machine, c) : c \in fresh} : InBounds(c)}
         IN  ReachedFrom(machine, all \union next, next \ all)

Accepted(machine, term) ==
    LET begun == {[stack |-> <<s>>, text |-> <<>>, look |-> Nothing] :
                     s \in {s \in DOMAIN machine : machine[s].start = term}}
    IN  {c.text : c \in {c \in ReachedFrom(machine, begun, begun) :
                            machine[Last(c.stack)].accepts /\ c.look = Eof}}

-----------------------------------------------------------------------------
TopRules == {StartTerms[i] : i \in DOMAIN StartTerms}

Plain(grammar) ==
    \A r \in DOMAIN grammar : \A m \in DOMAIN grammar[r].marks :
        grammar[r].marks[m].precedence = 0 /\ grammar[r].marks[m].cut = 0

(* The parser accepts only texts of the grammar, as it was written before  *)
(* its rules were inlined and its names merged, and all of them unless a   *)
(* precedence or a cut has ruled a reading out.                            *)
Recognizes ==
    stage = "done" =>
        \E texts \in {Derived(source, MoreTexts(source, NoTexts), NoTexts)} :
            \A term \in TopRules :
                /\ Accepted(Collapsed, term) \subseteq texts[term]
                /\ Plain(source) => texts[term] \subseteq Accepted(Collapsed, term)

(* Collapsing the states of one core and merging the identical ones        *)
(* changes nothing of what is accepted, whatever a precedence, an          *)
(* ambiguity or a cut has made of the actions.                             *)
SameLanguage ==
    stage = "done" =>
        \A term \in TopRules : Accepted(Collapsed, term) = Accepted(Canonical, term)
=============================================================================
