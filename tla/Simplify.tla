-------------------------------- MODULE Simplify --------------------------------
(***************************************************************************)
(* simplify_rules of rezel-generator/src/build.rs: rules that are short or *)
(* marked inline are put in the place of their name, in passes, and the    *)
(* names whose rules are the same are made one.                            *)
(*                                                                         *)
(* A grammar is a sequence of rules [name, parts, marks], where marks has  *)
(* the conflict marker before, between and after the parts.  The skip set  *)
(* of all rules is the same.                                               *)
(***************************************************************************)
EXTENDS Ranks, SequencesExt

CONSTANTS
    Interesting,    \* the names that are kept: nodes, top rules, repetitions
    Inline,         \* the names declared inline
    Preserved       \* the start terms

-----------------------------------------------------------------------------
(* Conflicts::join.                                                        *)

Neutral == [precedence |-> 0, ambiguity |-> {}, cut |-> 0]

Greater(a, b) == IF a >= b THEN a ELSE b

Join(a, b) ==
    IF a = Neutral THEN b
    ELSE IF b = Neutral \/ a = b THEN a
    ELSE [precedence |-> Greater(a.precedence, b.precedence),
          ambiguity |-> a.ambiguity \union b.ambiguity,
          cut |-> Greater(a.cut, b.cut)]

-----------------------------------------------------------------------------
(* inline_rules.                                                           *)

Mentions(rule, names) == \E i \in DOMAIN rule.parts : rule.parts[i] \in names

RulesNamed(grammar, name) == Picked(grammar, {k \in DOMAIN grammar : grammar[k].name = name})

\* The first pass inlines the names declared inline, unless they recur.
Declared(grammar) ==
    {name \in Inline :
        /\ \E i \in DOMAIN grammar : grammar[i].name = name
        /\ \A i \in DOMAIN grammar :
              grammar[i].name = name => ~Mentions(grammar[i], {name})}

\* Every pass inlines the names of one short rule.
IsShort(grammar, k, names) ==
    LET rule == grammar[k]
    IN  /\ rule.name \notin Interesting \union Inline \union Preserved
        /\ ~Mentions(rule, {rule.name} \union names)
        /\ Len(rule.parts) < 3
        /\ \A i \in DOMAIN grammar \ {k} : grammar[i].name # rule.name

Inlinable(grammar, isFirst) ==
    LET taken[k \in 0..Len(grammar)] ==
            IF k = 0 THEN IF isFirst THEN Declared(grammar) ELSE {}
            ELSE UNION {names \union (IF IsShort(grammar, k, names)
                                      THEN {grammar[k].name} ELSE {}) :
                           names \in {taken[k - 1]}}
    IN  taken[Len(grammar)]

\* expand_inlined_rule.  partial has what the rule has become up to a part.
Kept(partial, outer, at) ==
    [parts |-> Append(partial.parts, outer.parts[at]),
     marks |-> Append(partial.marks, outer.marks[at + 1])]

Replaced(partial, outer, at, by) ==
    [parts |-> partial.parts \o by.parts,
     marks |-> Front(partial.marks)
               \o <<Join(partial.marks[at], by.marks[1])>>
               \o SubSeq(by.marks, 2, Len(by.marks) - 1)
               \o <<Join(outer.marks[at + 1], Last(by.marks))>>]

\* Mutant: only the first rule of a name is put in its place.
WidenedOnce(grammar, names, outer, partial, at) ==
    IF outer.parts[at] \notin names THEN <<Kept(partial, outer, at)>>
    ELSE <<Replaced(partial, outer, at, RulesNamed(grammar, outer.parts[at])[1])>>

Widened(grammar, names, outer, partial, at) ==
    IF outer.parts[at] \notin names THEN <<Kept(partial, outer, at)>>
    ELSE LET by == RulesNamed(grammar, outer.parts[at])
         IN  [j \in DOMAIN by |-> Replaced(partial, outer, at, by[j])]

\* expand[at] has one member: the rules that the parts up to at make.
Expanded(grammar, names, outer) ==
    LET expand[at \in 0..Len(outer.parts)] ==
            IF at = 0 THEN {<<[parts |-> <<>>, marks |-> <<outer.marks[1]>>]>>}
            ELSE {FlattenSeq([i \in DOMAIN partials |->
                                 Widened(grammar, names, outer, partials[i], at)]) :
                     partials \in expand[at - 1]}
        all == CHOOSE partials \in expand[Len(outer.parts)] : TRUE
    IN  [i \in DOMAIN all |-> [name |-> outer.name, parts |-> all[i].parts,
                               marks |-> all[i].marks]]

InlinePass(grammar, names) ==
    FlattenSeq([k \in DOMAIN grammar |->
        IF grammar[k].name \in names THEN <<>>
        ELSE IF ~Mentions(grammar[k], names) THEN <<grammar[k]>>
        ELSE Expanded(grammar, names, grammar[k])])

-----------------------------------------------------------------------------
(* merge_rules.                                                            *)

\* Two names with the same rules, neither of which is kept.
SameRules(grammar, left, right) ==
    LET l == RulesNamed(grammar, left)
        r == RulesNamed(grammar, right)
    IN  /\ {left, right} \cap (Interesting \union Inline) = {}
        /\ Len(l) = Len(r)
        /\ \A i \in DOMAIN l : l[i].parts = r[i].parts /\ l[i].marks = r[i].marks

\* For every name with a later one of the same rules the first of those.
MergedNames(grammar) ==
    LET firsts == {k \in DOMAIN grammar : \A j \in 1..(k - 1) :
                                              grammar[j].name # grammar[k].name}
        Later(k) == {j \in firsts : /\ j > k
                                    /\ SameRules(grammar, grammar[k].name, grammar[j].name)}
        First(set) == CHOOSE j \in set : \A k \in set : j <= k
        gone == {k \in firsts : Later(k) # {}}
    IN  [name \in {grammar[k].name : k \in gone} |->
            grammar[First(Later(CHOOSE k \in gone : grammar[k].name = name))].name]

Renamed(rule, new) ==
    [rule EXCEPT !.parts =
        [i \in DOMAIN @ |-> IF @[i] \in DOMAIN new THEN new[@[i]] ELSE @[i]]]

MergeNames(grammar, new) ==
    LET left == Picked(grammar, {k \in DOMAIN grammar : grammar[k].name \notin DOMAIN new})
    IN  [k \in DOMAIN left |-> Renamed(left[k], new)]
=============================================================================
