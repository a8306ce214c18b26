------------------------------- MODULE MergeProofs -------------------------------
(***************************************************************************)
(* The automaton has its type throughout, from the rules that are          *)
(* simplified to the states that are merged, and the states of a group can *)
(* be made one without a conflict that none of them had.                   *)
(***************************************************************************)
EXTENDS AutomatonProofs

\* What holds of the first value and is kept from one to the next.
LEMMA StepsKeep ==
    ASSUME NEW T, NEW n \in Nat, NEW f, f[0] \in T[0],
           \A i \in 1..n : f[i - 1] \in T[i - 1] => f[i] \in T[i]
    PROVE  \A i \in 0..n : f[i] \in T[i]
<1> DEFINE Bad == {i \in 0..n : f[i] \notin T[i]}
<1> SUFFICES ASSUME Bad # {} PROVE FALSE
    OBVIOUS
<1>0. Bad \in SUBSET Nat
    OBVIOUS
<1>1. PICK m \in Bad : \A k \in Bad : m <= k
    <2> HIDE DEF Bad
    <2> QED BY <1>0, LeastNumber
<1>2. m \in 1..n
    BY <1>1
<1>3. m - 1 \notin Bad /\ m - 1 \in 0..n
    <2>1. ~(m <= m - 1)
        BY <1>2
    <2> QED BY <1>1, <1>2, <2>1
<1> QED BY <1>2, <1>3

-----------------------------------------------------------------------------
(* Sequences of sequences.                                                 *)

\* The sequences of a sequence, one after another.
LEMMA FlattenedType ==
    ASSUME NEW T, NEW seqs \in Seq(Seq(T))
    PROVE  FlattenSeq(seqs) \in Seq(T)
<1> DEFINE n == Len(seqs)
           IsFlat(f) == f = [i \in 1..n |-> IF i = 1 THEN seqs[i] ELSE f[i - 1] \o seqs[i]]
           flat == CHOOSE f : IsFlat(f)
<1>1. n \in Nat /\ \A i \in 1..n : seqs[i] \in Seq(T)
    OBVIOUS
<1>2. CASE n = 0
    <2>1. FlattenSeq(seqs) = seqs /\ seqs = <<>>
        BY <1>2 DEF FlattenSeq
    <2> QED BY <2>1
<1>3. CASE n # 0
    <2>1. FlattenSeq(seqs) = flat[n]
        BY <1>3 DEF FlattenSeq
    <2> HIDE DEF n
    <2>2. \E f : IsFlat(f)
        <3> DEFINE step == [i \in 1..n |-> [t \in Seq(T) |-> t \o seqs[i]]]
        <3>1. step \in [1..n -> [Seq(T) -> Seq(T)]] /\ <<>> \in Seq(T)
            BY <1>1
        <3>2. \A i \in 1..n : \A t \in Seq(T) : step[i][t] = t \o seqs[i]
            OBVIOUS
        <3> HIDE DEF step
        <3>3. PICK f \in [0..n -> Seq(T)] :
                  f[0] = <<>> /\ \A i \in 1..n : f[i] = step[i][f[i - 1]]
            <4> DEFINE S == [i \in 0..n |-> Seq(T)]
                       none == <<>>
            <4>1. n \in Nat /\ none \in S[0] /\ Steps(step, n, S)
                <5>1. \A i \in 1..n : i \in 0..n /\ i - 1 \in 0..n
                    BY <1>1
                <5> QED BY <1>1, <3>1, <5>1 DEF Steps
            <4> HIDE DEF S, none
            <4>2. \E f : Walk(f, none, step, n, S)
                BY <4>1, StepByStep
            <4> QED BY <4>2 DEF Walk, S, none
        <3>4. \A i \in 1..n : f[i - 1] \in Seq(T) /\ f[i] = f[i - 1] \o seqs[i]
            <4> SUFFICES ASSUME NEW i \in 1..n
                         PROVE  f[i - 1] \in Seq(T) /\ f[i] = f[i - 1] \o seqs[i]
                OBVIOUS
            <4>1. i - 1 \in 0..n
                BY <1>1
            <4> QED BY <3>2, <3>3, <4>1
        <3>5. \A i \in 1..n : i = 1 => f[i] = seqs[i]
            <4> SUFFICES ASSUME NEW i \in 1..n, i = 1 PROVE f[i] = seqs[i]
                OBVIOUS
            <4>1. i - 1 = 0
                OBVIOUS
            <4>2. f[i] = <<>> \o seqs[i]
                BY <3>3, <3>4, <4>1
            <4> QED BY <1>1, <4>2
        <3> DEFINE g == [i \in 1..n |-> f[i]]
        <3>6. g = [i \in 1..n |-> IF i = 1 THEN seqs[i] ELSE g[i - 1] \o seqs[i]]
            <4>1. \A i \in 1..n : i # 1 => i - 1 \in 1..n
                BY <1>1
            <4>2. \A i \in 1..n : f[i] = IF i = 1 THEN seqs[i] ELSE g[i - 1] \o seqs[i]
                BY <3>4, <3>5, <4>1
            <4> QED BY <4>2
        <3> QED BY <3>6
    <2>3. flat = [i \in 1..n |-> IF i = 1 THEN seqs[i] ELSE flat[i - 1] \o seqs[i]]
        BY <2>2
    <2> HIDE DEF flat
    <2> DEFINE h == [i \in 0..n |-> IF i = 0 THEN <<>> ELSE flat[i]]
               S == [i \in 0..n |-> Seq(T)]
    <2>4. h[0] \in Seq(T)
        BY <1>1
    <2>5. ASSUME NEW i \in 1..n, h[i - 1] \in Seq(T) PROVE h[i] \in Seq(T)
        <3>1. h[i] = flat[i] /\ seqs[i] \in Seq(T)
            BY <1>1
        <3>2. CASE i = 1
            BY <2>3, <3>1, <3>2
        <3>3. CASE i # 1
            <4>1. i - 1 \in 1..n /\ h[i - 1] = flat[i - 1]
                BY <1>1, <3>3
            <4>2. flat[i] = flat[i - 1] \o seqs[i]
                BY <2>3, <3>3
            <4>3. flat[i - 1] \in Seq(T)
                BY <2>5, <4>1
            <4> HIDE DEF h
            <4> QED BY <3>1, <4>2, <4>3
        <3> QED BY <3>2, <3>3
    <2>6. h[n] \in Seq(T)
        <3>1. h[0] \in S[0] /\ \A i \in 1..n : h[i - 1] \in S[i - 1] => h[i] \in S[i]
            <4> HIDE DEF h
            <4>1. \A i \in 0..n : S[i] = Seq(T)
                OBVIOUS
            <4>2. \A i \in 1..n : i \in 0..n /\ i - 1 \in 0..n
                BY <1>1
            <4> QED BY <1>1, <2>4, <2>5, <4>1, <4>2
        <3> HIDE DEF h, S
        <3>2. \A i \in 0..n : h[i] \in S[i]
            BY <1>1, <3>1, StepsKeep
        <3> QED BY <1>1, <3>2 DEF S
    <2> QED BY <1>1, <1>3, <2>1, <2>6
<1> QED BY <1>2, <1>3

\* What is in it was in one of them.
LEMMA FlattenedFrom ==
    ASSUME NEW T, NEW seqs \in Seq(Seq(T)), NEW k \in DOMAIN FlattenSeq(seqs)
    PROVE  \E i \in DOMAIN seqs : \E j \in DOMAIN seqs[i] : FlattenSeq(seqs)[k] = seqs[i][j]
<1> DEFINE E == UNION {{seqs[i][j] : j \in DOMAIN seqs[i]} : i \in DOMAIN seqs}
<1>1. \A i \in DOMAIN seqs : seqs[i] \in Seq(E)
    <2> SUFFICES ASSUME NEW i \in DOMAIN seqs PROVE seqs[i] \in Seq(E)
        OBVIOUS
    <2>1. seqs[i] \in Seq(T)
        OBVIOUS
    <2>2. \A j \in DOMAIN seqs[i] : seqs[i][j] \in E
        OBVIOUS
    <2> HIDE DEF E
    <2> QED BY <2>1, <2>2
<1> HIDE DEF E
<1>2. seqs \in Seq(Seq(E))
    BY <1>1
<1>3. FlattenSeq(seqs) \in Seq(E)
    BY <1>2, FlattenedType
<1>4. FlattenSeq(seqs)[k] \in E
    BY <1>3
<1> QED BY <1>4 DEF E

-----------------------------------------------------------------------------
(* simplify_rules makes rules of rules.                                    *)

Spliced(a, b, c, d) == a \o <<b>> \o c \o <<d>>

LEMMA SplicedType ==
    ASSUME NEW T, NEW a \in Seq(T), NEW b \in T, NEW c \in Seq(T), NEW d \in T
    PROVE  /\ Spliced(a, b, c, d) \in Seq(T)
           /\ Len(Spliced(a, b, c, d)) = Len(a) + 1 + Len(c) + 1
<1>1. a \o <<b>> \in Seq(T) /\ Len(a \o <<b>>) = Len(a) + 1
    OBVIOUS
<1> DEFINE ab == a \o <<b>>
<1> HIDE DEF ab
<1>2. ab \o c \in Seq(T) /\ Len(ab \o c) = Len(ab) + Len(c)
    BY <1>1 DEF ab
<1> DEFINE abc == ab \o c
<1> HIDE DEF abc
<1>3. abc \o <<d>> \in Seq(T) /\ Len(abc \o <<d>>) = Len(abc) + 1
    BY <1>2 DEF abc
<1> QED BY <1>1, <1>2, <1>3 DEF Spliced, ab, abc

LEMMA ListType ==
    ASSUME NEW T, NEW n \in Nat, NEW f \in [1..n -> T]
    PROVE  f \in Seq(T) /\ Len(f) = n
OBVIOUS

LEMMA LengthNat == ASSUME NEW T, NEW s \in Seq(T) PROVE Len(s) \in Nat
OBVIOUS

LEMMA JoinType ==
    ASSUME NEW a \in MarkType, NEW b \in MarkType
    PROVE  Join(a, b) \in MarkType
BY DEF Join, Greater, MarkType, Neutral

\* What a rule has become up to its n-th part.
PartialType(n) ==
    {p \in [parts : Seq(Vocabulary), marks : Seq(MarkType)] :
        Len(p.marks) > Len(p.parts) /\ Len(p.marks) > n}

LEMMA KeptType ==
    ASSUME NEW outer \in RuleType, NEW at \in 1..Len(outer.parts),
           NEW partial \in PartialType(at - 1)
    PROVE  Kept(partial, outer, at) \in PartialType(at)
<1>1. /\ outer.parts \in Seq(Vocabulary) /\ outer.marks \in Seq(MarkType)
      /\ Len(outer.marks) > Len(outer.parts)
    BY DEF RuleType
<1>2. /\ partial.parts \in Seq(Vocabulary) /\ partial.marks \in Seq(MarkType)
      /\ Len(partial.marks) > Len(partial.parts) /\ Len(partial.marks) > at - 1
    BY DEF PartialType
<1> DEFINE parts == Append(partial.parts, outer.parts[at])
           marks == Append(partial.marks, outer.marks[at + 1])
<1>3. outer.parts[at] \in Vocabulary /\ outer.marks[at + 1] \in MarkType
    BY <1>1
<1>4. /\ parts \in Seq(Vocabulary) /\ marks \in Seq(MarkType)
      /\ Len(marks) > Len(parts) /\ Len(marks) > at
    BY <1>1, <1>2, <1>3
<1>5. Kept(partial, outer, at) = [parts |-> parts, marks |-> marks]
    BY DEF Kept
<1> HIDE DEF parts, marks
<1> QED BY <1>4, <1>5 DEF PartialType

LEMMA ReplacedType ==
    ASSUME NEW outer \in RuleType, NEW at \in 1..Len(outer.parts),
           NEW partial \in PartialType(at - 1), NEW by \in RuleType
    PROVE  Replaced(partial, outer, at, by) \in PartialType(at)
<1>1. /\ outer.parts \in Seq(Vocabulary) /\ outer.marks \in Seq(MarkType)
      /\ Len(outer.marks) > Len(outer.parts)
    BY DEF RuleType
<1>2. /\ partial.parts \in Seq(Vocabulary) /\ partial.marks \in Seq(MarkType)
      /\ Len(partial.marks) > Len(partial.parts) /\ Len(partial.marks) > at - 1
    BY DEF PartialType
<1>3. /\ by.parts \in Seq(Vocabulary) /\ by.marks \in Seq(MarkType)
      /\ Len(by.marks) > Len(by.parts)
    BY DEF RuleType
<1>4. partial.marks[at] \in MarkType /\ by.marks[1] \in MarkType
    BY <1>2, <1>3
<1>5. outer.marks[at + 1] \in MarkType /\ by.marks[Len(by.marks)] \in MarkType
    BY <1>1, <1>3
<1> DEFINE parts == partial.parts \o by.parts
           front == SubSeq(partial.marks, 1, Len(partial.marks) - 1)
           left == Join(partial.marks[at], by.marks[1])
           inner == SubSeq(by.marks, 2, Len(by.marks) - 1)
           right == Join(outer.marks[at + 1], by.marks[Len(by.marks)])
           marks == Spliced(front, left, inner, right)
<1>6. left \in MarkType /\ right \in MarkType
    BY <1>4, <1>5, JoinType
<1>7. front \in Seq(MarkType) /\ Len(front) = Len(partial.marks) - 1
    BY <1>2
<1>8. /\ inner \in Seq(MarkType)
      /\ Len(inner) = IF Len(by.marks) >= 2 THEN Len(by.marks) - 2 ELSE 0
    BY <1>3
<1>9. Replaced(partial, outer, at, by) = [parts |-> parts, marks |-> marks]
    BY DEF Replaced, Front, Last, Spliced
<1> HIDE DEF left, right, front, inner
<1>10. /\ marks \in Seq(MarkType)
       /\ Len(marks) = Len(front) + 1 + Len(inner) + 1
    <2>1. front \in Seq(MarkType) /\ inner \in Seq(MarkType)
        BY <1>7, <1>8
    <2>2. /\ Spliced(front, left, inner, right) \in Seq(MarkType)
          /\ Len(Spliced(front, left, inner, right)) = Len(front) + 1 + Len(inner) + 1
        BY <1>6, <2>1, SplicedType
    <2> QED BY <2>2
<1>11. parts \in Seq(Vocabulary) /\ Len(parts) = Len(partial.parts) + Len(by.parts)
    BY <1>2, <1>3
<1> HIDE DEF parts, marks
<1>12. Len(marks) > Len(parts) /\ Len(marks) > at
    <2> DEFINE bp == Len(by.parts)
               bm == Len(by.marks)
               pp == Len(partial.parts)
               pm == Len(partial.marks)
    <2>1. bp \in Nat /\ bm \in Nat /\ pp \in Nat /\ pm \in Nat
        BY <1>2, <1>3, LengthNat, Zenon
    <2>2. bm > bp /\ pm > pp /\ pm > at - 1 /\ at \in Nat
        BY <1>2, <1>3
    <2>3. /\ Len(front) = pm - 1
          /\ Len(inner) = IF bm >= 2 THEN bm - 2 ELSE 0
          /\ Len(marks) = Len(front) + 1 + Len(inner) + 1
          /\ Len(parts) = pp + bp
        BY <1>7, <1>8, <1>10, <1>11
    <2> HIDE DEF bp, bm, pp, pm
    <2> QED BY <2>1, <2>2, <2>3
<1> QED BY <1>9, <1>10, <1>11, <1>12 DEF PartialType

LEMMA RulesNamedType ==
    ASSUME NEW grammar \in Seq(RuleType), NEW name
    PROVE  RulesNamed(grammar, name) \in Seq(RuleType)
<1> DEFINE S == {k \in DOMAIN grammar : grammar[k].name = name}
<1>1. S \in SUBSET DOMAIN grammar
    OBVIOUS
<1> HIDE DEF S
<1>2. Picked(grammar, S) \in Seq(RuleType)
    BY <1>1, PickedMembers
<1> QED BY <1>2 DEF RulesNamed, S

LEMMA WidenedType ==
    ASSUME NEW grammar \in Seq(RuleType), NEW names,
           NEW outer \in RuleType, NEW at \in 1..Len(outer.parts),
           NEW partial \in PartialType(at - 1)
    PROVE  Widened(grammar, names, outer, partial, at) \in Seq(PartialType(at))
<1>1. CASE outer.parts[at] \notin names
    <2>1. Widened(grammar, names, outer, partial, at) = <<Kept(partial, outer, at)>>
        BY <1>1 DEF Widened
    <2> QED BY <2>1, KeptType
<1>2. CASE outer.parts[at] \in names
    <2> DEFINE by == RulesNamed(grammar, outer.parts[at])
    <2>1. by \in Seq(RuleType)
        BY RulesNamedType
    <2>2. Widened(grammar, names, outer, partial, at)
              = [j \in DOMAIN by |-> Replaced(partial, outer, at, by[j])]
        BY <1>2 DEF Widened
    <2> HIDE DEF by
    <2>3. \A j \in DOMAIN by : Replaced(partial, outer, at, by[j]) \in PartialType(at)
        <3>1. \A j \in DOMAIN by : by[j] \in RuleType
            BY <2>1
        <3> QED BY <3>1, ReplacedType
    <2>4. DOMAIN by = 1..Len(by) /\ Len(by) \in Nat
        BY <2>1
    <2> QED BY <2>2, <2>3, <2>4
<1> QED BY <1>1, <1>2

\* What the rules of the parts up to one become with the next part.
Extended(grammar, names, outer, at, partials) ==
    FlattenSeq([i \in DOMAIN partials |-> Widened(grammar, names, outer, partials[i], at)])

LEMMA ExtendedType ==
    ASSUME NEW grammar \in Seq(RuleType), NEW names,
           NEW outer \in RuleType, NEW at \in 1..Len(outer.parts),
           NEW partials \in Seq(PartialType(at - 1))
    PROVE  Extended(grammar, names, outer, at, partials) \in Seq(PartialType(at))
<1> DEFINE wide == [i \in DOMAIN partials |-> Widened(grammar, names, outer, partials[i], at)]
<1>1. DOMAIN partials = 1..Len(partials) /\ Len(partials) \in Nat
    OBVIOUS
<1>2. \A i \in DOMAIN partials : partials[i] \in PartialType(at - 1)
    OBVIOUS
<1>3. \A i \in DOMAIN partials : wide[i] \in Seq(PartialType(at))
    BY <1>2, WidenedType
<1>4. wide \in Seq(Seq(PartialType(at)))
    <2>1. wide = [i \in DOMAIN partials |-> wide[i]]
        OBVIOUS
    <2> HIDE DEF wide
    <2> QED BY <1>1, <1>3, <2>1
<1> HIDE DEF wide
<1>5. FlattenSeq(wide) \in Seq(PartialType(at))
    BY <1>4, FlattenedType
<1> QED BY <1>5 DEF Extended, wide

LEMMA BegunType ==
    ASSUME NEW mark \in MarkType
    PROVE  [parts |-> <<>>, marks |-> <<mark>>] \in PartialType(0)
<1> DEFINE parts == <<>>
           marks == <<mark>>
<1>1. parts \in Seq(Vocabulary) /\ Len(parts) = 0
    OBVIOUS
<1>2. marks \in Seq(MarkType) /\ Len(marks) = 1
    OBVIOUS
<1> HIDE DEF parts, marks
<1>3. [parts |-> parts, marks |-> marks] \in PartialType(0)
    <2>1. Len(marks) > Len(parts) /\ Len(marks) > 0
        BY <1>1, <1>2
    <2> QED BY <1>1, <1>2, <2>1 DEF PartialType
<1> QED BY <1>3 DEF parts, marks

LEMMA ExpandedType ==
    ASSUME NEW grammar \in Seq(RuleType), NEW names, NEW outer \in RuleType
    PROVE  Expanded(grammar, names, outer) \in Seq(RuleType)
<1> DEFINE n == Len(outer.parts)
           start == {<<[parts |-> <<>>, marks |-> <<outer.marks[1]>>]>>}
           Ahead(at, set) == {Extended(grammar, names, outer, at, q) : q \in set}
           IsExpand(f) == f = [at \in 0..n |-> IF at = 0 THEN start ELSE Ahead(at, f[at - 1])]
           expand == CHOOSE f : IsExpand(f)
           all == CHOOSE partials \in expand[n] : TRUE
           T == [i \in 0..n |-> {{q} : q \in Seq(PartialType(i))}]
<1>1. /\ outer.parts \in Seq(Vocabulary) /\ outer.marks \in Seq(MarkType)
      /\ Len(outer.marks) > n /\ n \in Nat /\ outer.name \in Nonterminals
    BY DEF RuleType
<1>2. Expanded(grammar, names, outer)
          = [i \in DOMAIN all |-> [name |-> outer.name, parts |-> all[i].parts,
                                   marks |-> all[i].marks]]
    BY DEF Expanded, Extended
<1> HIDE DEF n
<1>3. start \in T[0]
    <2> DEFINE begun == [parts |-> <<>>, marks |-> <<outer.marks[1]>>]
    <2>1. outer.marks[1] \in MarkType
        BY <1>1
    <2>3. begun \in PartialType(0)
        BY <2>1, BegunType
    <2> HIDE DEF begun
    <2>4. <<begun>> \in Seq(PartialType(0))
        BY <2>3
    <2>5. 0 \in 0..n
        BY <1>1
    <2> QED BY <2>4, <2>5 DEF begun
<1>4. ASSUME NEW at \in 1..n, NEW set \in T[at - 1]
      PROVE  Ahead(at, set) \in T[at]
    <2>1. at \in 0..n /\ at - 1 \in 0..n /\ at \in 1..Len(outer.parts)
        BY <1>1 DEF n
    <2>2. T[at - 1] = {{q} : q \in Seq(PartialType(at - 1))}
        BY <2>1
    <2>3. PICK q \in Seq(PartialType(at - 1)) : set = {q}
        BY <1>4, <2>2
    <2>4. Extended(grammar, names, outer, at, q) \in Seq(PartialType(at))
        BY <2>1, ExtendedType
    <2>5. Ahead(at, set) = {Extended(grammar, names, outer, at, q)}
        BY <2>3
    <2> QED BY <2>1, <2>4, <2>5
<1>5. \E f : IsExpand(f)
    <2> DEFINE step == [at \in 1..n |-> [set \in T[at - 1] |-> Ahead(at, set)]]
    <2>1. \A at \in 1..n : \A set \in T[at - 1] : step[at][set] = Ahead(at, set)
        OBVIOUS
    <2> HIDE DEF step, T, start, Ahead
    <2>2. Steps(step, n, T)
        BY <1>4, <2>1 DEF Steps
    <2>3. PICK f : Walk(f, start, step, n, T)
        BY <1>1, <1>3, <2>2, StepByStep
    <2>4. /\ f = [i \in 0..n |-> f[i]] /\ f[0] = start
          /\ \A i \in 0..n : f[i] \in T[i]
          /\ \A i \in 1..n : f[i] = step[i][f[i - 1]]
        BY <2>3 DEF Walk
    <2>5. \A i \in 1..n : i - 1 \in 0..n
        BY <1>1
    <2>6. \A i \in 1..n : f[i] = Ahead(i, f[i - 1])
        BY <2>1, <2>4, <2>5
    <2>7. \A i \in 0..n : f[i] = IF i = 0 THEN start ELSE Ahead(i, f[i - 1])
        <3>1. \A i \in 0..n : i = 0 \/ i \in 1..n
            BY <1>1
        <3> QED BY <2>4, <2>6, <3>1
    <2>8. f = [i \in 0..n |-> IF i = 0 THEN start ELSE Ahead(i, f[i - 1])]
        BY <2>4, <2>7, Zenon
    <2> QED BY <2>8
<1>6. IsExpand(expand)
    BY <1>5
<1> HIDE DEF expand
<1>7. \A i \in 0..n : expand[i] \in T[i]
    <2>1. expand[0] = start /\ \A i \in 1..n : expand[i] = Ahead(i, expand[i - 1])
        <3>1. 0 \in 0..n /\ \A i \in 1..n : i \in 0..n /\ i # 0
            BY <1>1
        <3> HIDE DEF start, Ahead
        <3> QED BY <1>6, <3>1
    <2> HIDE DEF T, start, Ahead
    <2>2. expand[0] \in T[0] /\ \A i \in 1..n : expand[i - 1] \in T[i - 1] => expand[i] \in T[i]
        BY <1>3, <1>4, <2>1
    <2> QED BY <1>1, <2>2, StepsKeep
<1>8. all \in Seq(PartialType(n))
    <2>1. n \in 0..n /\ expand[n] \in T[n]
        BY <1>1, <1>7
    <2>2. PICK q \in Seq(PartialType(n)) : expand[n] = {q}
        BY <2>1
    <2>3. all \in expand[n]
        BY <2>2
    <2> QED BY <2>2, <2>3
<1> HIDE DEF all
<1>9. \A i \in DOMAIN all :
          [name |-> outer.name, parts |-> all[i].parts, marks |-> all[i].marks] \in RuleType
    <2> SUFFICES ASSUME NEW i \in DOMAIN all
                 PROVE  [name |-> outer.name, parts |-> all[i].parts, marks |-> all[i].marks]
                            \in RuleType
        OBVIOUS
    <2>1. all[i] \in PartialType(n)
        BY <1>8
    <2> QED BY <1>1, <2>1 DEF PartialType, RuleType
<1>10. DOMAIN all = 1..Len(all) /\ Len(all) \in Nat
    BY <1>8
<1> QED BY <1>2, <1>9, <1>10

LEMMA InlinePassType ==
    ASSUME NEW grammar \in Seq(RuleType), NEW names
    PROVE  InlinePass(grammar, names) \in Seq(RuleType)
<1> DEFINE passed == [k \in DOMAIN grammar |->
                         IF grammar[k].name \in names THEN <<>>
                         ELSE IF ~Mentions(grammar[k], names) THEN <<grammar[k]>>
                         ELSE Expanded(grammar, names, grammar[k])]
<1>1. \A k \in DOMAIN grammar : grammar[k] \in RuleType
    OBVIOUS
<1>2. \A k \in DOMAIN grammar : passed[k] \in Seq(RuleType)
    <2> SUFFICES ASSUME NEW k \in DOMAIN grammar PROVE passed[k] \in Seq(RuleType)
        OBVIOUS
    <2>1. Expanded(grammar, names, grammar[k]) \in Seq(RuleType)
        BY <1>1, ExpandedType
    <2>2. <<grammar[k]>> \in Seq(RuleType) /\ <<>> \in Seq(RuleType)
        BY <1>1
    <2>3. \/ passed[k] = <<>> \/ passed[k] = <<grammar[k]>>
          \/ passed[k] = Expanded(grammar, names, grammar[k])
        OBVIOUS
    <2> QED BY <2>1, <2>2, <2>3
<1>3. DOMAIN grammar = 1..Len(grammar) /\ Len(grammar) \in Nat
    OBVIOUS
<1>4. passed = [k \in DOMAIN grammar |-> passed[k]]
    OBVIOUS
<1> HIDE DEF passed
<1>5. passed \in Seq(Seq(RuleType))
    BY <1>2, <1>3, <1>4
<1>6. FlattenSeq(passed) \in Seq(RuleType)
    BY <1>5, FlattenedType
<1> QED BY <1>6 DEF InlinePass, passed

\* A name is merged into one of the names.
LEMMA MergedNamesType ==
    ASSUME NEW grammar \in Seq(RuleType)
    PROVE  \A name \in DOMAIN MergedNames(grammar) :
              MergedNames(grammar)[name] \in Nonterminals
<1> DEFINE firsts == {k \in DOMAIN grammar : \A j \in 1..(k - 1) :
                                                 grammar[j].name # grammar[k].name}
           Later(k) == {j \in firsts : j > k /\ SameRules(grammar, grammar[k].name, grammar[j].name)}
           First(set) == CHOOSE j \in set : \A k \in set : j <= k
           gone == {k \in firsts : Later(k) # {}}
           Of(name) == CHOOSE k \in gone : grammar[k].name = name
<1>1. MergedNames(grammar) = [name \in {grammar[k].name : k \in gone} |->
                                 grammar[First(Later(Of(name)))].name]
    BY DEF MergedNames
<1>2. ASSUME NEW name \in {grammar[k].name : k \in gone}
      PROVE  grammar[First(Later(Of(name)))].name \in Nonterminals
    <2>1. Of(name) \in gone
        BY <1>2
    <2> DEFINE later == Later(Of(name))
    <2>2. later # {} /\ later \in SUBSET DOMAIN grammar
        BY <2>1
    <2>3. later \in SUBSET Nat
        BY <2>2
    <2> HIDE DEF later
    <2>4. \E j \in later : \A k \in later : j <= k
        BY <2>2, <2>3, LeastNumber
    <2>5. First(later) \in later
        BY <2>4
    <2>6. grammar[First(later)] \in RuleType
        BY <2>2, <2>5
    <2> QED BY <2>6 DEF RuleType, later
<1> HIDE DEF gone, First, Later, Of
<1> QED BY <1>1, <1>2

LEMMA MergeNamesType ==
    ASSUME NEW grammar \in Seq(RuleType), NEW new,
           \A name \in DOMAIN new : new[name] \in Nonterminals
    PROVE  MergeNames(grammar, new) \in Seq(RuleType)
<1> DEFINE S == {k \in DOMAIN grammar : grammar[k].name \notin DOMAIN new}
           left == Picked(grammar, S)
<1>1. S \in SUBSET DOMAIN grammar
    OBVIOUS
<1>2. left \in Seq(RuleType)
    <2> HIDE DEF S
    <2> QED BY <1>1, PickedMembers
<1>3. MergeNames(grammar, new) = [k \in DOMAIN left |-> Renamed(left[k], new)]
    BY DEF MergeNames
<1> HIDE DEF left
<1>4. ASSUME NEW rule \in RuleType PROVE Renamed(rule, new) \in RuleType
    <2>1. /\ rule \in [name : Nonterminals, parts : Seq(Vocabulary), marks : Seq(MarkType)]
          /\ Len(rule.marks) > Len(rule.parts)
        BY DEF RuleType
    <2> DEFINE parts == [i \in DOMAIN rule.parts |->
                            IF rule.parts[i] \in DOMAIN new THEN new[rule.parts[i]]
                            ELSE rule.parts[i]]
    <2>2. \A i \in DOMAIN rule.parts : parts[i] \in Vocabulary
        <3>1. \A i \in DOMAIN rule.parts : rule.parts[i] \in Vocabulary
            BY <2>1
        <3>2. \A name \in DOMAIN new : new[name] \in Vocabulary
            BY DEF Nonterminals
        <3> QED BY <3>1, <3>2
    <2>3. DOMAIN rule.parts = 1..Len(rule.parts) /\ Len(rule.parts) \in Nat
        BY <2>1
    <2>4. parts \in [1..Len(rule.parts) -> Vocabulary]
        BY <2>2, <2>3
    <2>5. Renamed(rule, new) = [rule EXCEPT !.parts = parts]
        BY DEF Renamed
    <2> HIDE DEF parts
    <2>6. parts \in Seq(Vocabulary) /\ Len(parts) = Len(rule.parts)
        BY <2>3, <2>4, ListType
    <2> QED BY <2>1, <2>5, <2>6 DEF RuleType
<1>5. \A k \in DOMAIN left : Renamed(left[k], new) \in RuleType
    BY <1>2, <1>4
<1>6. DOMAIN left = 1..Len(left) /\ Len(left) \in Nat
    BY <1>2
<1> QED BY <1>3, <1>5, <1>6

-----------------------------------------------------------------------------
(* First sets.                                                             *)

FirstType == [Nonterminals -> SUBSET (Terminals \union {Nothing})]

LEMMA BeginsType ==
    ASSUME NEW parts \in Seq(Vocabulary), NEW table \in FirstType
    PROVE  Begins(parts, table) \subseteq Terminals \union {Nothing}
<1> DEFINE From(t) == IF t \in Terminals THEN {t} ELSE table[t]
           reached == {k \in DOMAIN parts : \A j \in 1..(k - 1) : Nothing \in From(parts[j])}
<1>1. \A t \in Vocabulary : From(t) \subseteq Terminals \union {Nothing}
    BY DEF FirstType, Nonterminals
<1>2. \A k \in DOMAIN parts : parts[k] \in Vocabulary
    OBVIOUS
<1> DEFINE all == UNION {From(parts[k]) : k \in reached}
           terms == all \ {Nothing}
<1>3. all \subseteq Terminals \union {Nothing}
    <2> HIDE DEF From
    <2> QED BY <1>1, <1>2
<1>4. \/ Begins(parts, table) = terms \union {Nothing}
      \/ Begins(parts, table) = terms
    <2>1. Begins(parts, table) = IF \A k \in DOMAIN parts : Nothing \in From(parts[k])
                                 THEN terms \union {Nothing} ELSE terms
        BY DEF Begins
    <2> HIDE DEF terms
    <2> QED BY <2>1
<1> HIDE DEF all
<1> QED BY <1>3, <1>4

LEMMA MoreFirstType ==
    ASSUME rules \in Seq(RuleType), first \in FirstType
    PROVE  MoreFirst \in FirstType
<1>1. \A r \in RuleIds : rules[r].parts \in Seq(Vocabulary)
    BY DEF RuleIds, RuleType
<1>2. \A r \in RuleIds : Begins(rules[r].parts, first) \subseteq Terminals \union {Nothing}
    BY <1>1, BeginsType
<1>3. \A t \in Nonterminals :
          first[t] \union UNION {Begins(rules[r].parts, first) : r \in RulesOf(t)}
              \subseteq Terminals \union {Nothing}
    BY <1>2 DEF RulesOf, FirstType
<1> QED BY <1>3 DEF MoreFirst, FirstType

-----------------------------------------------------------------------------
(* Positions.                                                              *)

LEMMA InPositions ==
    ASSUME NEW p
    PROVE  p \in AllPositions <=>
              \E r \in RuleIds : \E d \in 0..Length(r), l \in Terminals \union AmbiguityGroups :
                  p = <<r, d, l>>
BY DEF AllPositions

LEMMA PositionParts ==
    ASSUME NEW p \in AllPositions
    PROVE  /\ p = <<p[1], p[2], p[3]>>
           /\ p[1] \in RuleIds /\ p[2] \in 0..Length(p[1])
           /\ p[3] \in Terminals \union AmbiguityGroups
BY InPositions

LEMMA RuleParts ==
    ASSUME rules \in Seq(RuleType), NEW r \in RuleIds
    PROVE  /\ rules[r].name \in Nonterminals
           /\ rules[r].parts \in Seq(Vocabulary) /\ rules[r].marks \in Seq(MarkType)
           /\ Len(rules[r].marks) > Length(r) /\ Length(r) \in Nat
<1>1. rules[r] \in RuleType
    BY DEF RuleIds
<1> QED BY <1>1, LengthNat DEF RuleType, Length

LEMMA ConflictsType ==
    ASSUME rules \in Seq(RuleType), NEW positions \in SUBSET AllPositions,
           NEW item, item[1] \in RuleIds, NEW dot \in 0..Length(item[1])
    PROVE  Conflicts(item, positions, dot) \in MarkType
<1> DEFINE r == item[1]
           groupsOf == Looks(positions, item) \ Terminals
           inherited == [Neutral EXCEPT !.ambiguity = groupsOf]
<1>1. Mark(r, dot) \in MarkType
    <2>1. rules[r].marks \in Seq(MarkType) /\ Len(rules[r].marks) > Length(r) /\ Length(r) \in Nat
        BY RuleParts
    <2>2. dot + 1 \in 1..Len(rules[r].marks)
        BY <2>1
    <2> QED BY <2>1, <2>2 DEF Mark
<1>2. groupsOf \subseteq AmbiguityGroups
    BY PositionParts DEF Looks
<1> HIDE DEF groupsOf
<1>3. inherited \in MarkType
    BY <1>2 DEF MarkType, Neutral
<1>4. \/ Conflicts(item, positions, dot) = Mark(r, dot)
      \/ Conflicts(item, positions, dot) = Join(Mark(r, dot), inherited)
    BY DEF Conflicts, groupsOf
<1> HIDE DEF r, inherited
<1> QED BY <1>1, <1>3, <1>4, JoinType

LEMMA ContributionType ==
    ASSUME rules \in Seq(RuleType), first \in FirstType,
           NEW positions \in SUBSET AllPositions, NEW p \in positions
    PROVE  Contribution(Item(p), positions) \subseteq AllPositions
<1> DEFINE item == Item(p)
           r == item[1]
           parts == rules[r].parts
           next == parts[item[2] + 1]
           rest == SubSeq(parts, item[2] + 2, Len(parts))
           ahead == TermsAhead(Begins(rest, first), Looks(positions, item) \cap Terminals)
           inherited == Conflicts(item, positions, item[2] + 1).ambiguity
<1>1. item[1] = p[1] /\ item[2] = p[2] /\ r \in RuleIds /\ item[2] \in 0..Length(r)
    BY PositionParts DEF Item
<1>2. parts \in Seq(Vocabulary) /\ Len(parts) = Length(r) /\ Length(r) \in Nat
    BY <1>1, RuleParts DEF Length
<1>3. CASE item[2] = Len(parts) \/ next \in Terminals
    <2>1. Contribution(Item(p), positions) = {}
        BY <1>3 DEF Contribution
    <2> QED BY <2>1
<1>4. CASE ~(item[2] = Len(parts) \/ next \in Terminals)
    <2>1. Contribution(Item(p), positions) = RulesOf(next) \X {0} \X (ahead \union inherited)
        BY <1>4 DEF Contribution
    <2>2. item[2] + 1 \in 0..Length(r)
        BY <1>1, <1>2, <1>4
    <2> HIDE DEF item
    <2>3. rest \in Seq(Vocabulary)
        BY <1>1, <1>2, <2>2
    <2>4. Begins(rest, first) \subseteq Terminals \union {Nothing}
        BY <2>3, BeginsType
    <2>5. ahead \subseteq Terminals
        BY <2>4 DEF TermsAhead
    <2>6. Conflicts(item, positions, item[2] + 1) \in MarkType
        BY <1>1, <2>2, ConflictsType
    <2>7. inherited \subseteq AmbiguityGroups
        BY <2>6 DEF MarkType
    <2>8. \A q \in RulesOf(next) : q \in RuleIds /\ 0 \in 0..Length(q)
        BY RuleParts DEF RulesOf
    <2> HIDE DEF next, ahead, inherited
    <2> QED BY <2>1, <2>5, <2>7, <2>8, InPositions
<1> QED BY <1>3, <1>4

-----------------------------------------------------------------------------
(* Closures.                                                               *)

LEMMA ImageFinite ==
    ASSUME NEW S, IsFiniteSet(S), NEW f
    PROVE  IsFiniteSet({f[x] : x \in S})
<1> DEFINE T == {f[x] : x \in S}
           g == [x \in S |-> f[x]]
<1>1. g \in Surjection(S, T)
    BY DEF Surjection
<1> HIDE DEF g, T
<1>2. IsFiniteSet(T)
    BY <1>1, FS_Surjection
<1> QED BY <1>2 DEF T

LEMMA PositionsFinite ==
    ASSUME rules \in Seq(RuleType)
    PROVE  IsFiniteSet(AllPositions)
<1> DEFINE looks == Terminals \union AmbiguityGroups
           At(r) == {r} \X (0..Length(r)) \X looks
<1>1. IsFiniteSet(Terminals)
    <2>1. DOMAIN Symbols = 1..Len(Symbols) /\ Len(Symbols) \in Nat
        BY AutomatonAssumption
    <2>2. IsFiniteSet(DOMAIN Symbols)
        BY <2>1, IntervalSize
    <2>3. IsFiniteSet(Vocabulary)
        BY <2>2, ImageFinite DEF Vocabulary
    <2> QED BY <2>3, FS_Subset, AutomatonAssumption
<1>2. IsFiniteSet(looks)
    BY <1>1, FS_Union, AutomatonAssumption
<1>3. ASSUME NEW r \in RuleIds PROVE IsFiniteSet(At(r))
    <2> HIDE DEF looks
    <2> DEFINE pairs == (0..Length(r)) \X looks
               f == [q \in pairs |-> <<r, q[1], q[2]>>]
    <2>1. IsFiniteSet(0..Length(r))
        BY RuleParts, FS_Interval
    <2>2. IsFiniteSet(pairs)
        BY <1>2, <2>1, FS_Product
    <2>3. At(r) = {f[q] : q \in pairs}
        <3>1. ASSUME NEW p \in At(r) PROVE p \in {f[q] : q \in pairs}
            <4>1. PICK d \in 0..Length(r), l \in looks : p = <<r, d, l>>
                OBVIOUS
            <4>2. <<d, l>> \in pairs /\ f[<<d, l>>] = p
                BY <4>1
            <4> QED BY <4>2
        <3>2. \A q \in pairs : f[q] \in At(r)
            OBVIOUS
        <3> HIDE DEF f, pairs, At
        <3> QED BY <3>1, <3>2
    <2> HIDE DEF f, pairs
    <2> QED BY <2>2, <2>3, ImageFinite
<1> DEFINE at == [r \in RuleIds |-> At(r)]
           family == {at[r] : r \in RuleIds}
<1>4. IsFiniteSet(family)
    <2>1. RuleIds = 1..Len(rules) /\ Len(rules) \in Nat
        BY DEF RuleIds
    <2>2. IsFiniteSet(RuleIds)
        BY <2>1, IntervalSize
    <2> HIDE DEF at
    <2> QED BY <2>2, ImageFinite
<1>5. \A T \in family : IsFiniteSet(T)
    <2> HIDE DEF At
    <2> QED BY <1>3
<1>6. AllPositions = UNION family
    BY DEF AllPositions
<1> HIDE DEF family
<1> QED BY <1>4, <1>5, <1>6, FS_UNION

\* A set that only grows, within a finite one, has a last value: f has them.
Iterates(f, W, all) == f = [s \in SUBSET all |-> IF W[s] = s THEN s ELSE f[W[s]]]

\* There is such a function, whatever the growth.
LEMMA IterationExists ==
    ASSUME NEW all, NEW W \in [SUBSET all -> SUBSET all], \A s \in SUBSET all : s \subseteq W[s]
    PROVE  \E f : Iterates(f, W, all)
<1> DEFINE ClosedFamily(F) == F \subseteq SUBSET all /\ \A t \in F : W[t] \in F
           Reach(s) == {t \in SUBSET all : \A F \in SUBSET SUBSET all :
                                               ClosedFamily(F) /\ s \in F => t \in F}
           f == [s \in SUBSET all |-> UNION Reach(s)]
<1>1. ASSUME NEW s \in SUBSET all
      PROVE  s \in Reach(s) /\ ClosedFamily(Reach(s))
    OBVIOUS
<1>2. ASSUME NEW s \in SUBSET all, W[s] = s PROVE UNION Reach(s) = s
    <2>1. {s} \in SUBSET SUBSET all /\ ClosedFamily({s}) /\ s \in {s}
        BY <1>2
    <2>2. Reach(s) \subseteq {s}
        BY <2>1
    <2> HIDE DEF Reach
    <2>3. Reach(s) = {s}
        BY <1>1, <2>2
    <2> QED BY <2>3
<1>3. ASSUME NEW s \in SUBSET all PROVE UNION Reach(s) = UNION Reach(W[s])
    <2>1. W[s] \in SUBSET all /\ s \subseteq W[s]
        OBVIOUS
    <2> DEFINE more == {s} \union Reach(W[s])
    <2>2. more \in SUBSET SUBSET all /\ ClosedFamily(more) /\ s \in more
        BY <1>1, <2>1
    <2>3. Reach(s) \subseteq more
        <3> HIDE DEF more
        <3> QED BY <2>2
    <2>4. Reach(s) \in SUBSET SUBSET all /\ ClosedFamily(Reach(s)) /\ W[s] \in Reach(s)
        BY <1>1
    <2>5. Reach(W[s]) \subseteq Reach(s)
        BY <2>1, <2>4
    <2>6. W[s] \in Reach(W[s])
        BY <1>1, <2>1
    <2> HIDE DEF Reach
    <2> QED BY <2>1, <2>3, <2>5, <2>6
<1>4. \A s \in SUBSET all : f[s] = IF W[s] = s THEN s ELSE f[W[s]]
    <2>1. \A s \in SUBSET all : W[s] \in SUBSET all /\ f[s] = UNION Reach(s)
        OBVIOUS
    <2> HIDE DEF Reach, f
    <2> QED BY <1>2, <1>3, <2>1
<1>5. f = [s \in SUBSET all |-> f[s]]
    OBVIOUS
<1> HIDE DEF f
<1>6. f = [s \in SUBSET all |-> IF W[s] = s THEN s ELSE f[W[s]]]
    BY <1>4, <1>5
<1> QED BY <1>6 DEF Iterates

\* And it stays within that set.
LEMMA IterationType ==
    ASSUME NEW all, IsFiniteSet(all), NEW W \in [SUBSET all -> SUBSET all],
           \A s \in SUBSET all : s \subseteq W[s], NEW f, Iterates(f, W, all)
    PROVE  \A s \in SUBSET all : f[s] \in SUBSET all
<1> DEFINE left == [s \in SUBSET all |-> Cardinality(all \ s)]
           bad == {s \in SUBSET all : f[s] \notin SUBSET all}
           Bad == {left[s] : s \in bad}
<1> SUFFICES ASSUME bad # {} PROVE FALSE
    OBVIOUS
<1>1. \A s \in SUBSET all : IsFiniteSet(all \ s) /\ left[s] = Cardinality(all \ s) /\ left[s] \in Nat
    BY FS_Difference, FS_CardinalityType
<1> HIDE DEF left
<1>2. Bad \in SUBSET Nat /\ Bad # {}
    <2>1. \A s \in bad : s \in SUBSET all
        OBVIOUS
    <2>2. bad # {}
        OBVIOUS
    <2> HIDE DEF bad
    <2> QED BY <1>1, <2>1, <2>2
<1>3. PICK n \in Bad : \A m \in Bad : n <= m
    <2> HIDE DEF Bad
    <2> QED BY <1>2, LeastNumber
<1>4. PICK s \in bad : left[s] = n
    OBVIOUS
<1>5. W[s] # s /\ f[s] = f[W[s]]
    BY <1>4 DEF Iterates
<1>6. W[s] \in bad
    BY <1>4, <1>5
<1>7. left[W[s]] < left[s]
    <2>1. PICK x : x \in W[s] \ s
        BY <1>4, <1>5
    <2>2. W[s] \in SUBSET all /\ x \in all \ s
        BY <1>6, <2>1
    <2>3. all \ W[s] \in SUBSET ((all \ s) \ {x})
        BY <1>4, <2>1
    <2>4. IsFiniteSet((all \ s) \ {x}) /\ Cardinality((all \ s) \ {x}) = Cardinality(all \ s) - 1
        BY <1>1, <1>4, <2>2, FS_RemoveElement
    <2>5. Cardinality(all \ W[s]) <= Cardinality((all \ s) \ {x})
        BY <2>3, <2>4, FS_Subset
    <2>6. left[W[s]] <= left[s] - 1 /\ left[W[s]] \in Nat /\ left[s] \in Nat
        BY <1>1, <1>4, <2>2, <2>4, <2>5
    <2> QED BY <2>6
<1>8. left[W[s]] \in Bad /\ n \in Nat /\ left[W[s]] \in Nat
    BY <1>2, <1>6
<1> HIDE DEF Bad
<1> QED BY <1>3, <1>4, <1>7, <1>8

\* A set of positions with what its positions contribute.
Widening(set) == set \union UNION {Contribution(item, set) : item \in {Item(p) : p \in set}}

LEMMA ClosureType ==
    ASSUME rules \in Seq(RuleType), first \in FirstType, NEW core \in SUBSET AllPositions
    PROVE  Closure(core) \in SUBSET AllPositions
<1> DEFINE W == [s \in SUBSET AllPositions |-> Widening(s)]
           IsWiden(f) ==
               f = [s \in SUBSET AllPositions |->
                       IF Widening(s) = s THEN s ELSE f[Widening(s)]]
           widen == CHOOSE f : IsWiden(f)
<1>1. Closure(core) = widen[core]
    BY DEF Closure, Widening
<1>2. ASSUME NEW s \in SUBSET AllPositions
      PROVE  s \subseteq Widening(s) /\ Widening(s) \in SUBSET AllPositions
    <2>1. \A p \in s : Contribution(Item(p), s) \subseteq AllPositions
        BY ContributionType
    <2> QED BY <2>1 DEF Widening
<1>3. /\ W \in [SUBSET AllPositions -> SUBSET AllPositions]
      /\ \A s \in SUBSET AllPositions : W[s] = Widening(s) /\ s \subseteq W[s]
    BY <1>2
<1> HIDE DEF W
<1>4. \A f : IsWiden(f) <=> Iterates(f, W, AllPositions)
    BY <1>3 DEF Iterates
<1> HIDE DEF IsWiden
<1>5. \E f : Iterates(f, W, AllPositions)
    BY <1>3, IterationExists
<1>6. Iterates(widen, W, AllPositions)
    BY <1>4, <1>5
<1> HIDE DEF widen
<1>7. IsFiniteSet(AllPositions)
    BY PositionsFinite
<1>8. \A s \in SUBSET AllPositions : widen[s] \in SUBSET AllPositions
    BY <1>3, <1>6, <1>7, IterationType
<1> QED BY <1>1, <1>8

-----------------------------------------------------------------------------
(* The type of the automaton.                                              *)

EndPositions == {p \in AllPositions : p[3] \in Terminals}

FillingType ==
    [started : Nat, at : Nat, terms : SUBSET Vocabulary, ends : SUBSET EndPositions,
     replaced : BOOLEAN]

ShiftsTo(ids) == [kind : {"shift"}, term : Terminals, to : ids, order : Nat]
GotosTo(ids) == [kind : {"shift"}, term : Nonterminals, to : ids, order : Nat]
Reductions == [kind : {"reduce"}, term : Terminals, to : RuleIds, order : Nat]

\* No two actions of a state were added at the same time.
IsActionSet(actions, ids) ==
    /\ IsFiniteSet(actions)
    /\ \A a \in actions : a \in ShiftsTo(ids) \/ a \in Reductions
    /\ \A a, b \in actions : a.order = b.order => a = b

IsTyped(state, ids) ==
    /\ state.positions \in SUBSET AllPositions
    /\ IsActionSet(state.actions, ids)
    /\ \A g \in state.gotos : g \in GotosTo(ids)

TableType(table) == \A s \in DOMAIN table : IsTyped(table[s], DOMAIN table)

\* The rules change before there is a state, and no longer.
Simplifying == {"inline", "again", "alike"}

AutomatonType ==
    /\ rules \in Seq(RuleType)
    /\ first \in FirstType
    /\ filling \in FillingType
    /\ TableType(states)
    /\ stage \in Simplifying => states = <<>> /\ filling.ends = {}
    /\ stage \in Simplifying \union {"first", "start"} \/ 1 \in StateIds

LEMMA TypedUnmoved ==
    ASSUME UNCHANGED rules
    PROVE  /\ AllPositions' = AllPositions /\ EndPositions' = EndPositions
           /\ FillingType' = FillingType /\ RuleIds' = RuleIds
           /\ \A state, ids : IsTyped(state, ids)' <=> IsTyped(state, ids)
BY DEF AllPositions, Length, RuleIds, EndPositions, FillingType, IsTyped, IsActionSet,
       Reductions, ShiftsTo, GotosTo

LEMMA TypedWider ==
    ASSUME NEW state, NEW ids, NEW more, ids \subseteq more, IsTyped(state, ids)
    PROVE  IsTyped(state, more)
<1>1. ShiftsTo(ids) \subseteq ShiftsTo(more) /\ GotosTo(ids) \subseteq GotosTo(more)
    BY DEF ShiftsTo, GotosTo
<1> QED BY <1>1 DEF IsTyped, IsActionSet

LEMMA NewTyped ==
    ASSUME NEW positions \in SUBSET AllPositions, NEW start, NEW ids
    PROVE  IsTyped(NewState(positions, start), ids)
BY FS_EmptySet DEF IsTyped, IsActionSet, NewState

LEMMA WithNewTyped ==
    ASSUME TableType(states), NEW positions \in SUBSET AllPositions, NEW start
    PROVE  TableType(WithNew(NewState(positions, start)))
<1> DEFINE new == NewState(positions, start)
           table == WithNew(new)
<1>1. \A ids : IsTyped(new, ids)
    BY NewTyped
<1> HIDE DEF new
<1>2. /\ DOMAIN table = StateIds \union {NextId}
      /\ \A s \in DOMAIN table : table[s] = IF s \in StateIds THEN states[s] ELSE new
    BY DEF WithNew
<1> HIDE DEF table
<1>3. \A s \in StateIds : IsTyped(states[s], StateIds)
    BY DEF TableType, StateIds
<1>4. \A s \in StateIds : IsTyped(states[s], DOMAIN table)
    BY <1>2, <1>3, TypedWider
<1>5. TableType(table)
    BY <1>1, <1>2, <1>4 DEF TableType
<1> QED BY <1>5 DEF table, new

LEMMA ReachedTyped ==
    ASSUME TableType(states), NEW positions \in SUBSET AllPositions
    PROVE  TableType(Reached(positions).states)
<1>1. \/ Reached(positions).states = WithNew(NewState(positions, NoStart))
      \/ Reached(positions).states = states
    BY DEF Reached
<1> QED BY <1>1, WithNewTyped

\* A state of a table that has other actions or gotos.
LEMMA WithActionsTyped ==
    ASSUME NEW table, ClosedTable(table), TableType(table), NEW at, NEW actions,
           IsActionSet(actions, DOMAIN table)
    PROVE  TableType([table EXCEPT ![at].actions = actions])
<1> DEFINE new == [table EXCEPT ![at].actions = actions]
<1>1. /\ DOMAIN new = DOMAIN table
      /\ \A s \in DOMAIN table :
            new[s] = IF s = at THEN [table[s] EXCEPT !.actions = actions] ELSE table[s]
    OBVIOUS
<1> HIDE DEF new
<1>2. ASSUME NEW s \in DOMAIN table PROVE IsTyped(new[s], DOMAIN table)
    <2>1. IsTyped(table[s], DOMAIN table) /\ IsState(table[s])
        BY DEF TableType, ClosedTable
    <2>2. s = at => /\ new[s].positions = table[s].positions
                    /\ new[s].gotos = table[s].gotos /\ new[s].actions = actions
        BY <1>1, <2>1 DEF IsState
    <2> QED BY <1>1, <2>1, <2>2 DEF IsTyped
<1> QED BY <1>1, <1>2 DEF TableType, new

LEMMA WithGotosTyped ==
    ASSUME NEW table, ClosedTable(table), TableType(table), NEW at, NEW gotos,
           \A g \in gotos : g \in GotosTo(DOMAIN table)
    PROVE  TableType([table EXCEPT ![at].gotos = gotos])
<1> DEFINE new == [table EXCEPT ![at].gotos = gotos]
<1>1. /\ DOMAIN new = DOMAIN table
      /\ \A s \in DOMAIN table :
            new[s] = IF s = at THEN [table[s] EXCEPT !.gotos = gotos] ELSE table[s]
    OBVIOUS
<1> HIDE DEF new
<1>2. ASSUME NEW s \in DOMAIN table PROVE IsTyped(new[s], DOMAIN table)
    <2>1. IsTyped(table[s], DOMAIN table) /\ IsState(table[s])
        BY DEF TableType, ClosedTable
    <2>2. s = at => /\ new[s].positions = table[s].positions
                    /\ new[s].actions = table[s].actions /\ new[s].gotos = gotos
        BY <1>1, <2>1 DEF IsState
    <2> QED BY <1>1, <2>1, <2>2 DEF IsTyped
<1> QED BY <1>1, <1>2 DEF TableType, new

\* A state that has only another default or token group.
LEMMA SameActionsTyped ==
    ASSUME NEW table, TableType(table), NEW new, DOMAIN new = DOMAIN table,
           \A s \in DOMAIN table : /\ new[s].positions = table[s].positions
                                   /\ new[s].actions = table[s].actions
                                   /\ new[s].gotos = table[s].gotos
    PROVE  TableType(new)
BY DEF TableType, IsTyped

-----------------------------------------------------------------------------
(* What fill_state does keeps the type.                                    *)

LEMMA LargestOf ==
    ASSUME NEW T \in SUBSET Nat, IsFiniteSet(T), T # {}
    PROVE  Largest(T) \in T /\ \A k \in T : k <= Largest(T)
<1> DEFINE list == InOrder(T)
           n == Len(list)
<1>1. /\ list \in Seq(T) /\ n = Cardinality(T)
      /\ \A i \in T : \E k \in DOMAIN list : list[k] = i
      /\ \A k, l \in DOMAIN list : k < l => list[k] < list[l]
    BY InOrderMembers
<1>2. n \in Nat /\ DOMAIN list = 1..n
    BY <1>1
<1>3. n # 0
    BY <1>1, FS_EmptySet
<1> HIDE DEF list, n
<1>4. n \in DOMAIN list /\ list[n] \in T
    BY <1>1, <1>2, <1>3
<1>5. ASSUME NEW i \in T PROVE i <= list[n]
    <2>1. PICK k \in DOMAIN list : list[k] = i
        BY <1>1
    <2>2. k = n \/ k < n
        BY <1>2
    <2>3. k < n => i < list[n]
        BY <1>1, <1>4, <2>1
    <2>4. i \in Nat /\ list[n] \in Nat
        BY <1>4
    <2> QED BY <2>1, <2>2, <2>3, <2>4
<1>6. \E m \in T : \A k \in T : k <= m
    BY <1>4, <1>5
<1> QED BY <1>6 DEF Largest

LEMMA AddedByTyped ==
    ASSUME NEW ids, NEW state, IsActionSet(state.actions, ids), NEW verdict,
           NEW kind, NEW term, NEW target,
           NEW new, new = [kind |-> kind, term |-> term, to |-> target, order |-> 0],
           new \in ShiftsTo(ids) \/ new \in Reductions
    PROVE  IsActionSet(AddedBy(state, new, verdict).actions, ids)
<1> DEFINE old == state.actions
           orders == {0} \union {a.order : a \in old}
           order == 1 + Largest(orders)
           last == [new EXCEPT !.order = order]
           actions == AddedBy(state, new, verdict).actions
<1>1. IsFiniteSet(old) /\ \A a \in old : a.order \in Nat
    BY DEF IsActionSet, ShiftsTo, Reductions
<1>2. orders \in SUBSET Nat /\ IsFiniteSet(orders) /\ orders # {}
    <2> DEFINE f == [a \in old |-> a.order]
               image == {f[a] : a \in old}
    <2>1. orders = image \union {0}
        OBVIOUS
    <2>2. IsFiniteSet(image)
        <3> HIDE DEF f
        <3> QED BY <1>1, ImageFinite
    <2> HIDE DEF image
    <2>3. IsFiniteSet(image \union {0})
        BY <2>2, FS_AddElement
    <2>4. orders \in SUBSET Nat /\ 0 \in orders
        BY <1>1
    <2> HIDE DEF orders
    <2> QED BY <2>1, <2>3, <2>4
<1>3. Largest(orders) \in Nat /\ \A k \in orders : k <= Largest(orders)
    <2> HIDE DEF orders
    <2> QED BY <1>2, LargestOf
<1>4. order \in Nat /\ \A a \in old : a.order < order
    BY <1>1, <1>3
<1>5. last = [kind |-> kind, term |-> term, to |-> target, order |-> order]
    OBVIOUS
<1>6. last.order = order /\ (last \in ShiftsTo(ids) \/ last \in Reductions)
    <2> HIDE DEF order, last
    <2> QED BY <1>4, <1>5 DEF ShiftsTo, Reductions
<1>7. actions \in SUBSET (old \union {last})
    <2> HIDE DEF old
    <2> QED BY DEF AddedBy, old
<1> HIDE DEF old, order, last, actions
<1>8. IsFiniteSet(actions)
    <2>1. IsFiniteSet(old \union {last})
        BY <1>1, FS_AddElement
    <2> QED BY <1>7, <2>1, FS_Subset
<1>9. \A a \in actions : a \in ShiftsTo(ids) \/ a \in Reductions
    BY <1>6, <1>7 DEF IsActionSet, old
<1>10. \A a, b \in actions : a.order = b.order => a = b
    <2>1. \A a, b \in old : a.order = b.order => a = b
        BY DEF IsActionSet, old
    <2>2. \A a \in old : a.order # order
        BY <1>1, <1>4
    <2> QED BY <1>6, <1>7, <2>1, <2>2
<1> QED BY <1>8, <1>9, <1>10 DEF IsActionSet, actions

LEMMA AddedTyped ==
    ASSUME NEW ids, NEW state, IsActionSet(state.actions, ids),
           NEW kind, NEW term, NEW target,
           NEW new, new = [kind |-> kind, term |-> term, to |-> target, order |-> 0],
           new \in ShiftsTo(ids) \/ new \in Reductions
    PROVE  IsActionSet(Added(state, new).actions, ids)
BY AddedByTyped DEF Added

LEMMA AfterTyped ==
    ASSUME rules \in Seq(RuleType), TableType(states), NEW s \in StateIds, NEW term \in Vocabulary
    PROVE  After(s, term) \in SUBSET AllPositions
<1>1. ASSUME NEW p \in states[s].positions, NextOf(p) = term
      PROVE  <<p[1], p[2] + 1, p[3]>> \in AllPositions
    <2>1. p \in AllPositions
        BY DEF TableType, IsTyped, StateIds
    <2>2. /\ p[1] \in RuleIds /\ p[2] \in 0..Length(p[1])
          /\ p[3] \in Terminals \union AmbiguityGroups
        BY <2>1, PositionParts
    <2>3. p[2] # Length(p[1])
        BY <1>1, AutomatonAssumption DEF NextOf, AtEnd
    <2>4. Length(p[1]) \in Nat
        BY <2>2, RuleParts
    <2>5. p[2] + 1 \in 0..Length(p[1])
        BY <2>2, <2>3, <2>4
    <2> QED BY <2>2, <2>5, InPositions
<1> QED BY <1>1 DEF After, Advance

LEMMA OpenedType ==
    ASSUME rules \in Seq(RuleType), filling \in FillingType, TableType(states),
           NEW s \in StateIds, s \in Nat
    PROVE  Opened(s) \in FillingType
<1> DEFINE terms == {NextOf(p) : p \in states[s].positions} \ {Nothing}
           ends == Ends(states[s].positions)
<1>1. states[s].positions \in SUBSET AllPositions
    BY DEF TableType, IsTyped, StateIds
<1>2. terms \in SUBSET Vocabulary
    <2> SUFFICES ASSUME NEW p \in states[s].positions, NextOf(p) # Nothing
                 PROVE  NextOf(p) \in Vocabulary
        OBVIOUS
    <2>1. p[1] \in RuleIds /\ p[2] \in 0..Length(p[1])
        BY <1>1, PositionParts
    <2>2. p[2] # Length(p[1]) /\ NextOf(p) = rules[p[1]].parts[p[2] + 1]
        BY DEF NextOf, AtEnd
    <2>3. rules[p[1]].parts \in Seq(Vocabulary) /\ Length(p[1]) \in Nat
        BY <2>1, RuleParts
    <2>4. p[2] + 1 \in DOMAIN rules[p[1]].parts
        BY <2>1, <2>2, <2>3 DEF Length
    <2> QED BY <2>2, <2>3, <2>4
<1>3. ends \in SUBSET EndPositions
    BY <1>1 DEF Ends, EndPositions
<1>4. Opened(s) = [filling EXCEPT !.at = s, !.terms = terms, !.ends = ends, !.replaced = FALSE]
    BY DEF Opened
<1> HIDE DEF terms, ends
<1> QED BY <1>2, <1>3, <1>4 DEF FillingType

\* The first of the reductions is one of them.
LEMMA FirstEndIn ==
    ASSUME rules \in Seq(RuleType), NEW ends \in SUBSET EndPositions, ends # {}
    PROVE  FirstEnd(ends) \in ends
<1>1. \A p \in ends : p[1] \in Nat /\ Ordinal(p[3]) \in Nat
    <2> SUFFICES ASSUME NEW p \in ends PROVE p[1] \in Nat /\ Ordinal(p[3]) \in Nat
        OBVIOUS
    <2>1. p[1] \in RuleIds /\ p[3] \in Terminals
        BY PositionParts DEF EndPositions
    <2>2. p[1] \in Nat
        BY <2>1 DEF RuleIds
    <2>3. p[3] \in Vocabulary
        BY <2>1, AutomatonAssumption
    <2>4. \E i \in DOMAIN Symbols : Symbols[i] = p[3]
        BY <2>3 DEF Vocabulary
    <2>5. Ordinal(p[3]) \in DOMAIN Symbols
        BY <2>4 DEF Ordinal
    <2>6. DOMAIN Symbols = 1..Len(Symbols) /\ Len(Symbols) \in Nat
        BY AutomatonAssumption
    <2> QED BY <2>2, <2>5, <2>6
<1> DEFINE R == {p[1] : p \in ends}
<1>2. PICK r \in R : \A q \in R : r <= q
    <2>1. R \in SUBSET Nat /\ R # {}
        BY <1>1
    <2> HIDE DEF R
    <2> QED BY <2>1, LeastNumber
<1> DEFINE O == {Ordinal(p[3]) : p \in {p \in ends : p[1] = r}}
<1>3. PICK o \in O : \A q \in O : o <= q
    <2>1. O \in SUBSET Nat /\ O # {}
        BY <1>1, <1>2
    <2> HIDE DEF O
    <2> QED BY <2>1, LeastNumber
<1>4. PICK p \in ends : p[1] = r /\ Ordinal(p[3]) = o
    BY <1>3
<1>5. \A q \in ends : p[1] < q[1] \/ (p[1] = q[1] /\ Ordinal(p[3]) <= Ordinal(q[3]))
    <2> SUFFICES ASSUME NEW q \in ends
                 PROVE  p[1] < q[1] \/ (p[1] = q[1] /\ Ordinal(p[3]) <= Ordinal(q[3]))
        OBVIOUS
    <2>1. r <= q[1] /\ q[1] \in Nat /\ r \in Nat
        BY <1>1, <1>2, <1>4
    <2>2. q[1] = r => o <= Ordinal(q[3])
        BY <1>3
    <2> HIDE DEF R, O
    <2>3. r < q[1] \/ r = q[1]
        BY <2>1
    <2>4. CASE r < q[1]
        BY <1>4, <2>4
    <2>5. CASE r = q[1]
        BY <1>4, <2>2, <2>5
    <2> QED BY <2>3, <2>4, <2>5
<1>6. \E e \in ends : \A q \in ends :
          e[1] < q[1] \/ (e[1] = q[1] /\ Ordinal(e[3]) <= Ordinal(q[3]))
    BY <1>5
<1> QED BY <1>6 DEF FirstEnd

-----------------------------------------------------------------------------
(* The type is an invariant.                                               *)

LEMMA InitType == Init => AutomatonType
<1> SUFFICES ASSUME Init PROVE AutomatonType
    OBVIOUS
<1>1. rules \in Seq(RuleType) /\ states = <<>> /\ stage = "inline"
    BY AutomatonAssumption DEF Init
<1>2. first \in FirstType
    BY DEF Init, FirstType
<1>3. filling \in FillingType /\ filling.ends = {}
    BY DEF Init, FillingType
<1>4. TableType(states)
    BY <1>1 DEF TableType
<1> QED BY <1>1, <1>2, <1>3, <1>4 DEF AutomatonType, Simplifying

\* The steps that leave the rules, the states and what is left to do as they are.
LEMMA UnmovedType ==
    ASSUME AutomatonType, UNCHANGED <<rules, states, filling>>, first' \in FirstType',
           stage' \in Simplifying => stage \in Simplifying,
           stage \in Simplifying \union {"first", "start"}
               => stage' \in Simplifying \union {"first", "start"}
    PROVE  AutomatonType'
<1>1. /\ rules' \in Seq(RuleType)' /\ filling' \in FillingType'
      /\ first' \in FirstType' /\ TableType(states)'
    BY TypedUnmoved DEF AutomatonType, RuleType, MarkType, TableType
<1>2. StateIds' = StateIds
    BY DEF StateIds
<1> QED BY <1>1, <1>2 DEF AutomatonType, Simplifying

LEMMA RulesStep ==
    ASSUME AutomatonType, InlineRules \/ MergeRules
    PROVE  AutomatonType'
<1>1. /\ stage \in Simplifying /\ stage' \in Simplifying \union {"first"}
      /\ UNCHANGED <<states, first, filling>>
    BY DEF InlineRules, MergeRules, Simplifying
<1>2. states = <<>> /\ filling.ends = {}
    BY <1>1 DEF AutomatonType
<1>3. rules' \in Seq(RuleType)
    <2>1. CASE UNCHANGED rules
        BY <2>1 DEF AutomatonType
    <2>2. CASE InlineRules /\ ~UNCHANGED rules
        <3>1. PICK names : rules' = InlinePass(rules, names)
            BY <2>2 DEF InlineRules
        <3> QED BY <3>1, InlinePassType DEF AutomatonType
    <2>3. CASE MergeRules
        <3>1. rules' = MergeNames(rules, MergedNames(rules))
            BY <2>3 DEF MergeRules
        <3> DEFINE new == MergedNames(rules)
        <3>2. \A name \in DOMAIN new : new[name] \in Nonterminals
            BY MergedNamesType DEF AutomatonType
        <3> HIDE DEF new
        <3>3. MergeNames(rules, new) \in Seq(RuleType)
            BY <3>2, MergeNamesType DEF AutomatonType
        <3> QED BY <3>1, <3>3 DEF new
    <2> QED BY <2>1, <2>2, <2>3
<1>4. filling' \in FillingType'
    BY <1>1, <1>2 DEF AutomatonType, FillingType
<1>5. TableType(states)'
    BY <1>1, <1>2 DEF TableType
<1>6. rules' \in Seq(RuleType)' /\ first' \in FirstType'
    BY <1>1, <1>3 DEF AutomatonType, FirstType, RuleType, MarkType
<1> QED BY <1>1, <1>2, <1>4, <1>5, <1>6 DEF AutomatonType, Simplifying

LEMMA FirstStep ==
    ASSUME AutomatonType, FirstPass \/ Start
    PROVE  AutomatonType'
<1>1. /\ UNCHANGED <<rules, states, filling>>
      /\ stage = "first" /\ stage' \in {"first", "start"}
      /\ first' = first \/ first' = MoreFirst
    BY DEF FirstPass, Start
<1>2. first' \in FirstType
    BY <1>1, MoreFirstType DEF AutomatonType
<1>3. FirstType' = FirstType
    BY DEF FirstType
<1> QED BY <1>1, <1>2, <1>3, UnmovedType DEF Simplifying

\* A step that fills the states.
LEMMA FillType ==
    ASSUME AutomatonType, UNCHANGED <<rules, first>>, stage \notin Simplifying,
           stage' \notin Simplifying, filling' \in FillingType, TableType(states'),
           stage' \in {"first", "start"} \/ 1 \in DOMAIN states'
    PROVE  AutomatonType'
<1>1. /\ rules' \in Seq(RuleType)' /\ filling' \in FillingType' /\ first' \in FirstType'
    BY TypedUnmoved DEF AutomatonType, RuleType, MarkType, FirstType
<1>2. TableType(states)'
    BY TypedUnmoved DEF TableType
<1> QED BY <1>1, <1>2 DEF AutomatonType, StateIds

LEMMA StartStep ==
    ASSUME Closed, AutomatonType, AddStartState \/ StartFilling
    PROVE  AutomatonType'
<1>1. /\ UNCHANGED <<rules, first>> /\ stage = "start"
      /\ rules \in Seq(RuleType) /\ first \in FirstType
      /\ filling \in FillingType /\ TableType(states)
    BY DEF AddStartState, StartFilling, AutomatonType
<1>2. CASE AddStartState
    <2> DEFINE term == StartTerms[filling.started + 1]
               core == RulesOf(term) \X {0} \X {Eof}
    <2>1. /\ stage' = "start" /\ filling' = [filling EXCEPT !.started = @ + 1]
          /\ states' = states \/ states' = WithNew(NewState(Closure(core), term))
        BY <1>2 DEF AddStartState
    <2>2. core \in SUBSET AllPositions
        <3>1. \A r \in RulesOf(term) : r \in RuleIds /\ 0 \in 0..Length(r)
            BY <1>1, RuleParts DEF RulesOf
        <3>2. Eof \in Terminals \union AmbiguityGroups
            BY AutomatonAssumption
        <3> QED BY <3>1, <3>2, InPositions
    <2> HIDE DEF core
    <2>3. Closure(core) \in SUBSET AllPositions
        BY <1>1, <2>2, ClosureType
    <2>4. TableType(states')
        BY <1>1, <2>1, <2>3, WithNewTyped
    <2>5. filling' \in FillingType
        BY <1>1, <2>1 DEF FillingType
    <2> QED BY <1>1, <2>1, <2>4, <2>5, FillType DEF Simplifying
<1>3. CASE StartFilling
    <2>1. 1 \in StateIds /\ stage' = "fill" /\ filling' = Opened(1) /\ UNCHANGED states
        BY <1>3 DEF StartFilling
    <2>2. filling' \in FillingType
        BY <1>1, <2>1, OpenedType
    <2> QED BY <1>1, <2>1, <2>2, FillType DEF Simplifying, StateIds
<1> QED BY <1>2, <1>3

LEMMA GotoStep ==
    ASSUME Closed, AutomatonType, AddGoto
    PROVE  AutomatonType'
<1>1. PICK term \in Nonterminals :
          /\ Transition(term)
          /\ \E reached \in {Reached(Closure(After(filling.at, term)))} :
                states' = [reached.states EXCEPT
                             ![filling.at].gotos = @ \union {Shift(term, reached.to)}]
    BY DEF AddGoto
<1> DEFINE positions == Closure(After(filling.at, term))
           reached == Reached(positions)
           gotos == reached.states[filling.at].gotos \union {Shift(term, reached.to)}
<1>2. /\ UNCHANGED <<rules, first, stage>> /\ stage = "fill" /\ filling.at \in StateIds
      /\ filling' = [filling EXCEPT !.terms = @ \ {term}]
      /\ rules \in Seq(RuleType) /\ first \in FirstType
      /\ filling \in FillingType /\ TableType(states) /\ 1 \in StateIds
    BY <1>1 DEF Transition, Filling, AutomatonType, Simplifying
<1>3. states' = [reached.states EXCEPT ![filling.at].gotos = gotos]
    BY <1>1
<1>4. positions \in SUBSET AllPositions
    BY <1>2, AfterTyped, ClosureType DEF Nonterminals
<1> HIDE DEF positions
<1>5. /\ ClosedTable(reached.states) /\ reached.to \in DOMAIN reached.states
      /\ StateIds \subseteq DOMAIN reached.states
    BY ReachedCloses
<1>6. TableType(reached.states)
    BY <1>2, <1>4, ReachedTyped
<1> HIDE DEF reached
<1>7. \A g \in gotos : g \in GotosTo(DOMAIN reached.states)
    <2>1. Shift(term, reached.to) \in GotosTo(DOMAIN reached.states)
        BY <1>5 DEF Shift, GotosTo
    <2>2. \A g \in reached.states[filling.at].gotos : g \in GotosTo(DOMAIN reached.states)
        BY <1>2, <1>5, <1>6 DEF TableType, IsTyped
    <2> QED BY <2>1, <2>2
<1> HIDE DEF gotos
<1>8. TableType(states') /\ DOMAIN states' = DOMAIN reached.states
    BY <1>3, <1>5, <1>6, <1>7, WithGotosTyped
<1>9. filling' \in FillingType
    BY <1>2 DEF FillingType
<1> QED BY <1>2, <1>5, <1>8, <1>9, FillType DEF Simplifying

LEMMA ShiftStep ==
    ASSUME Closed, AutomatonType, AddShift
    PROVE  AutomatonType'
<1>1. PICK term \in Terminals :
          /\ Transition(term)
          /\ \E reached \in {Reached(Closure(ApplyCut(After(filling.at, term))))} :
                states' = [reached.states EXCEPT
                             ![filling.at].actions =
                                 Added(states[filling.at], Shift(term, reached.to)).actions]
    BY DEF AddShift
<1> DEFINE positions == Closure(ApplyCut(After(filling.at, term)))
           reached == Reached(positions)
           new == Shift(term, reached.to)
           actions == Added(states[filling.at], new).actions
<1>2. /\ UNCHANGED <<rules, first, stage>> /\ stage = "fill" /\ filling.at \in StateIds
      /\ filling' = [filling EXCEPT !.terms = @ \ {term}]
      /\ rules \in Seq(RuleType) /\ first \in FirstType
      /\ filling \in FillingType /\ TableType(states) /\ 1 \in StateIds
    BY <1>1 DEF Transition, Filling, AutomatonType, Simplifying
<1>3. states' = [reached.states EXCEPT ![filling.at].actions = actions]
    BY <1>1
<1>4. positions \in SUBSET AllPositions
    <2>1. After(filling.at, term) \in SUBSET AllPositions
        BY <1>2, AfterTyped, AutomatonAssumption
    <2>2. ApplyCut(After(filling.at, term)) \subseteq After(filling.at, term)
        BY DEF ApplyCut
    <2> QED BY <1>2, <2>1, <2>2, ClosureType
<1> HIDE DEF positions
<1>5. /\ ClosedTable(reached.states) /\ reached.to \in DOMAIN reached.states
      /\ StateIds \subseteq DOMAIN reached.states
    BY ReachedCloses
<1>6. TableType(reached.states)
    BY <1>2, <1>4, ReachedTyped
<1> HIDE DEF reached
<1>7. IsActionSet(actions, DOMAIN reached.states)
    <2>1. IsTyped(states[filling.at], DOMAIN reached.states)
        BY <1>2, <1>5, TypedWider DEF TableType, StateIds
    <2>2. /\ new = [kind |-> "shift", term |-> term, to |-> reached.to, order |-> 0]
          /\ new \in ShiftsTo(DOMAIN reached.states)
        BY <1>5 DEF Shift, ShiftsTo
    <2> HIDE DEF new
    <2> QED BY <2>1, <2>2, AddedTyped DEF IsTyped
<1> HIDE DEF actions
<1>8. TableType(states') /\ DOMAIN states' = DOMAIN reached.states
    BY <1>3, <1>5, <1>6, <1>7, WithActionsTyped
<1>9. filling' \in FillingType
    BY <1>2 DEF FillingType
<1> QED BY <1>2, <1>5, <1>8, <1>9, FillType DEF Simplifying

LEMMA ReductionStep ==
    ASSUME Closed, AutomatonType, AddReduction
    PROVE  AutomatonType'
<1>1. /\ UNCHANGED <<rules, first>> /\ stage = "fill" /\ filling.at \in StateIds
      /\ rules \in Seq(RuleType) /\ first \in FirstType
      /\ filling \in FillingType /\ TableType(states) /\ 1 \in StateIds
      /\ filling.ends # {} /\ filling.ends \in SUBSET EndPositions
    BY DEF AddReduction, Filling, AutomatonType, Simplifying, FillingType
<1> DEFINE end == FirstEnd(filling.ends)
           new == Reduce(end[3], end[1])
           added == Added(states[filling.at], new)
<1>2. \/ stage' = "rejected" /\ UNCHANGED <<states, filling>>
      \/ /\ UNCHANGED stage
         /\ states' = [states EXCEPT ![filling.at].actions = added.actions]
         /\ \E replaced \in BOOLEAN :
               filling' = [filling EXCEPT !.ends = @ \ {end}, !.replaced = replaced]
    BY <1>1 DEF AddReduction, FillingType
<1>3. end \in EndPositions
    BY <1>1, FirstEndIn
<1> HIDE DEF end
<1>4. IsActionSet(added.actions, StateIds)
    <2>1. IsActionSet(states[filling.at].actions, StateIds)
        BY <1>1 DEF TableType, IsTyped, StateIds
    <2>2. end[1] \in RuleIds /\ end[3] \in Terminals
        BY <1>3, PositionParts DEF EndPositions
    <2>3. /\ new = [kind |-> "reduce", term |-> end[3], to |-> end[1], order |-> 0]
          /\ new \in Reductions
        BY <2>2 DEF Reduce, Reductions
    <2> HIDE DEF new
    <2> QED BY <2>1, <2>3, AddedTyped
<1> HIDE DEF added
<1>5. TableType(states') /\ DOMAIN states' = StateIds
    <2>1. TableType([states EXCEPT ![filling.at].actions = added.actions])
        BY <1>1, <1>4, WithActionsTyped DEF Closed, StateIds
    <2>2. \/ UNCHANGED states
          \/ states' = [states EXCEPT ![filling.at].actions = added.actions]
        BY <1>2
    <2> QED BY <1>1, <2>1, <2>2 DEF StateIds
<1>6. filling' \in FillingType
    BY <1>1, <1>2 DEF FillingType
<1>7. stage' \in {"fill", "rejected"}
    BY <1>1, <1>2
<1> QED BY <1>1, <1>5, <1>6, <1>7, FillType DEF Simplifying

LEMMA CloseStep ==
    ASSUME Closed, AutomatonType, CloseState
    PROVE  AutomatonType'
<1>1. /\ UNCHANGED <<rules, first, stage>> /\ stage = "fill" /\ filling.at \in StateIds
      /\ rules \in Seq(RuleType) /\ first \in FirstType
      /\ filling \in FillingType /\ TableType(states) /\ 1 \in StateIds
    BY DEF CloseState, Filling, AutomatonType, Simplifying
<1>2. \/ UNCHANGED states
      \/ states' = [states EXCEPT ![filling.at].gotos = Retained(states[filling.at])]
    BY DEF CloseState
<1>3. TableType(states') /\ DOMAIN states' = StateIds
    <2>1. \A g \in Retained(states[filling.at]) : g \in GotosTo(DOMAIN states)
        BY <1>1 DEF Retained, TableType, IsTyped, StateIds
    <2>2. TableType([states EXCEPT ![filling.at].gotos = Retained(states[filling.at])])
        BY <1>1, <2>1, WithGotosTyped DEF Closed
    <2> QED BY <1>1, <1>2, <2>2 DEF StateIds
<1>4. filling' \in FillingType
    <2>1. filling.at \in Nat /\ filling.at + 1 \in Nat
        BY <1>1 DEF FillingType
    <2>2. filling.at + 1 \in StateIds => Opened(filling.at + 1) \in FillingType
        BY <1>1, <2>1, OpenedType
    <2>3. [filling EXCEPT !.at = @ + 1] \in FillingType
        BY <1>1, <2>1 DEF FillingType
    <2> QED BY <2>2, <2>3 DEF CloseState
<1> QED BY <1>1, <1>3, <1>4, FillType DEF Simplifying

\* The steps that change the default or the token group of the states.
LEMMA DecidedStep ==
    ASSUME Closed, AutomatonType, Finish \/ \E token \in [StateIds -> Nat] : AssignTokens(token)
    PROVE  AutomatonType'
<1>1. /\ UNCHANGED <<rules, first, filling>> /\ stage \in {"fill", "tokens"}
      /\ stage' \in {"tokens", "group"}
      /\ filling \in FillingType /\ TableType(states) /\ 1 \in StateIds
    BY DEF Finish, AssignTokens, AutomatonType, Simplifying
<1>2. /\ DOMAIN states' = DOMAIN states
      /\ \A s \in DOMAIN states : \E d :
            \/ states'[s] = [states[s] EXCEPT !.default = d]
            \/ states'[s] = [states[s] EXCEPT !.token = d]
    BY DEF Finish, AssignTokens, StateIds
<1>3. \A s \in DOMAIN states : /\ states'[s].positions = states[s].positions
                               /\ states'[s].actions = states[s].actions
                               /\ states'[s].gotos = states[s].gotos
    BY <1>2 DEF Closed, ClosedTable, IsState
<1>4. TableType(states')
    BY <1>1, <1>2, <1>3, SameActionsTyped
<1> QED BY <1>1, <1>2, <1>4, FillType DEF Simplifying, StateIds

LEMMA NextType == Closed /\ AutomatonType /\ [Next]_vars => AutomatonType'
<1> SUFFICES ASSUME Closed, AutomatonType, [Next]_vars PROVE AutomatonType'
    OBVIOUS
<1>1. CASE InlineRules \/ MergeRules
    BY <1>1, RulesStep
<1>2. CASE FirstPass \/ Start
    BY <1>2, FirstStep
<1>3. CASE AddStartState \/ StartFilling
    BY <1>3, StartStep
<1>4. CASE AddGoto
    BY <1>4, GotoStep
<1>5. CASE AddShift
    BY <1>5, ShiftStep
<1>6. CASE AddReduction
    BY <1>6, ReductionStep
<1>7. CASE CloseState
    BY <1>7, CloseStep
<1>8. CASE Finish \/ \E token \in [StateIds -> Nat] : AssignTokens(token)
    BY <1>8, DecidedStep
<1>9. CASE RefuseTokens \/ Collapsing \/ Merging \/ UNCHANGED vars
    <2>1. /\ UNCHANGED <<rules, states, first, filling>>
          /\ stage = stage' \/ (/\ stage \notin Simplifying \union {"first", "start"}
                                /\ stage' \notin Simplifying \union {"first", "start"})
        BY <1>9 DEF RefuseTokens, Collapsing, CollapseNext, JoinGroup, OpenGroup, StartPasses,
                    SkipGroup, EnterGroup, PairKnown, PairMerges, PairSpills, NextLeft, LeaveGroup,
                    NextPass, Settle, Go, Merging, MergeStates, MergeIdentical, Done, vars,
                    Simplifying
    <2>2. first' \in FirstType'
        BY <2>1 DEF AutomatonType, FirstType
    <2> QED BY <2>1, <2>2, UnmovedType
<1> QED BY <1>1, <1>2, <1>3, <1>4, <1>5, <1>6, <1>7, <1>8, <1>9
        DEF Next, Build, Tokenizing

LEMMA TypeHolds == Spec => [](AutomatonInv /\ AutomatonType)
<1>1. Init => AutomatonInv /\ AutomatonType
    BY InitInv, InitType
<1>2. AutomatonInv /\ AutomatonType /\ [Next]_vars => (AutomatonInv /\ AutomatonType)'
    BY NextInv, NextType DEF AutomatonInv
<1> QED BY <1>1, <1>2, PTL DEF Spec

-----------------------------------------------------------------------------
(* compare_actions is an order, in which a set of actions can be listed.   *)

\* What two actions are compared by.
KeyOf(x) ==
    <<IF x.kind = "shift" THEN 0 ELSE 1, Ordinal(x.term),
      IF x.kind = "shift" THEN x.to ELSE Ordinal(rules[x.to].name),
      IF x.kind = "shift" THEN 0 ELSE Length(x.to), x.order>>

Lexicographic(u, v) == \E k \in 1..5 : u[k] < v[k] /\ \A j \in 1..(k - 1) : u[j] = v[j]

LEMMA LexicographicOrder ==
    ASSUME NEW u \in [1..5 -> Int], NEW v \in [1..5 -> Int], NEW w \in [1..5 -> Int]
    PROVE  /\ ~Lexicographic(u, u)
           /\ Lexicographic(u, v) /\ Lexicographic(v, w) => Lexicographic(u, w)
           /\ u[5] # v[5] => Lexicographic(u, v) \/ Lexicographic(v, u)
<1>1. \A k \in 1..5 : u[k] \in Int /\ v[k] \in Int /\ w[k] \in Int
    OBVIOUS
<1>2. ~Lexicographic(u, u)
    BY <1>1 DEF Lexicographic
<1>3. ASSUME Lexicographic(u, v), Lexicographic(v, w) PROVE Lexicographic(u, w)
    <2>1. PICK k \in 1..5 : u[k] < v[k] /\ \A j \in 1..(k - 1) : u[j] = v[j]
        BY <1>3 DEF Lexicographic
    <2>2. PICK l \in 1..5 : v[l] < w[l] /\ \A j \in 1..(l - 1) : v[j] = w[j]
        BY <1>3 DEF Lexicographic
    <2> DEFINE m == IF k <= l THEN k ELSE l
    <2>3. m \in 1..5 /\ \A j \in 1..(m - 1) : j \in 1..(k - 1) /\ j \in 1..(l - 1) /\ j \in 1..5
        OBVIOUS
    <2>4. u[m] < w[m]
        <3>1. CASE k < l
            <4>1. m = k /\ k \in 1..(l - 1)
                BY <3>1
            <4> QED BY <2>1, <2>2, <4>1
        <3>2. CASE k = l
            <4>1. m = k /\ m = l
                BY <3>2
            <4> QED BY <1>1, <2>1, <2>2, <4>1
        <3>3. CASE k > l
            <4>1. m = l /\ l \in 1..(k - 1)
                BY <3>3
            <4> QED BY <2>1, <2>2, <4>1
        <3> QED BY <3>1, <3>2, <3>3
    <2> HIDE DEF m
    <2>5. \A j \in 1..(m - 1) : u[j] = w[j]
        BY <2>1, <2>2, <2>3
    <2> QED BY <2>3, <2>4, <2>5 DEF Lexicographic
<1>4. ASSUME u[5] # v[5] PROVE Lexicographic(u, v) \/ Lexicographic(v, u)
    <2> DEFINE D == {k \in 1..5 : u[k] # v[k]}
    <2>1. D \in SUBSET Nat /\ 5 \in D
        BY <1>4
    <2>2. PICK k \in D : \A j \in D : k <= j
        <3> HIDE DEF D
        <3> QED BY <2>1, LeastNumber
    <2>3. k \in 1..5 /\ u[k] # v[k]
        OBVIOUS
    <2>4. \A j \in 1..(k - 1) : j \in 1..5 /\ ~(k <= j)
        BY <2>3
    <2>5. \A j \in 1..(k - 1) : u[j] = v[j] /\ v[j] = u[j]
        BY <2>2, <2>4
    <2>6. u[k] < v[k] \/ v[k] < u[k]
        BY <1>1, <2>3
    <2> QED BY <2>3, <2>5, <2>6 DEF Lexicographic
<1> QED BY <1>2, <1>3, <1>4

LEMMA OrdinalType ==
    ASSUME NEW term \in Vocabulary
    PROVE  Ordinal(term) \in Int
<1>1. \E i \in DOMAIN Symbols : Symbols[i] = term
    BY DEF Vocabulary
<1>2. Ordinal(term) \in DOMAIN Symbols
    BY <1>1 DEF Ordinal
<1>3. DOMAIN Symbols = 1..Len(Symbols) /\ Len(Symbols) \in Nat
    BY AutomatonAssumption
<1> QED BY <1>2, <1>3

LEMMA KeyType ==
    ASSUME rules \in Seq(RuleType), NEW ids \in SUBSET Nat,
           NEW x, x \in ShiftsTo(ids) \/ x \in Reductions
    PROVE  KeyOf(x) \in [1..5 -> Int] /\ KeyOf(x)[5] = x.order
<1>1. x.term \in Terminals /\ x.order \in Nat /\ x.kind \in {"shift", "reduce"}
    BY DEF ShiftsTo, Reductions
<1>2. Ordinal(x.term) \in Int
    BY <1>1, OrdinalType, AutomatonAssumption
<1>3. CASE x.kind = "shift"
    <2>1. x.to \in Int
        BY <1>3 DEF ShiftsTo, Reductions
    <2>2. KeyOf(x) = <<0, Ordinal(x.term), x.to, 0, x.order>>
        BY <1>3 DEF KeyOf
    <2> QED BY <1>1, <1>2, <2>1, <2>2
<1>4. CASE x.kind # "shift"
    <2>1. x.to \in RuleIds
        BY <1>4 DEF ShiftsTo, Reductions
    <2>2. Length(x.to) \in Int /\ rules[x.to].name \in Vocabulary
        BY <2>1, RuleParts DEF Nonterminals
    <2>3. Ordinal(rules[x.to].name) \in Int
        BY <2>2, OrdinalType
    <2>4. KeyOf(x) = <<1, Ordinal(x.term), Ordinal(rules[x.to].name), Length(x.to), x.order>>
        BY <1>4 DEF KeyOf
    <2> QED BY <1>1, <1>2, <2>2, <2>3, <2>4
<1> QED BY <1>3, <1>4

\* Listing the actions of a state gives them all a place.
LEMMA SortedMembers ==
    ASSUME rules \in Seq(RuleType), NEW ids \in SUBSET Nat, NEW actions, IsActionSet(actions, ids)
    PROVE  /\ DOMAIN Sorted(actions, Before) = 1..Cardinality(actions)
           /\ Cardinality(actions) \in Nat
           /\ \A i \in 1..Cardinality(actions) : Sorted(actions, Before)[i] \in actions
<1> DEFINE under == [x \in actions |-> {y \in actions : Before(y, x)}]
           below == [x \in actions |-> under[x] \union {x}]
<1>1. \A a, b : Before(a, b) <=> Lexicographic(KeyOf(a), KeyOf(b))
    BY DEF Before, Lexicographic, KeyOf
<1>2. \A a \in actions : KeyOf(a) \in [1..5 -> Int] /\ KeyOf(a)[5] = a.order
    BY KeyType DEF IsActionSet
<1>3. \A a, b \in actions : a # b => a.order # b.order
    BY DEF IsActionSet
<1>4. \A a \in actions : ~Before(a, a)
    BY <1>1, <1>2, LexicographicOrder
<1>5. \A a, b, c \in actions : Before(a, b) /\ Before(b, c) => Before(a, c)
    BY <1>1, <1>2, LexicographicOrder
<1>6. \A a, b \in actions : a # b => Before(a, b) \/ Before(b, a)
    BY <1>1, <1>2, <1>3, LexicographicOrder
<1>7. IsFiniteSet(actions)
    BY DEF IsActionSet
<1>8. /\ \A x \in actions : under[x] = {y \in actions : Before(y, x)} /\ x \notin under[x]
      /\ \A x \in actions : below[x] = under[x] \union {x}
    BY <1>4
<1> HIDE DEF under, below
<1>9. \A x \in actions : x \in below[x] /\ below[x] \subseteq actions
    BY <1>8
<1>10. \A x, y \in actions : Before(x, y) => below[x] \subseteq below[y] /\ y \notin below[x]
    BY <1>4, <1>5, <1>8
<1>11. \A x, y \in actions : below[x] \subseteq below[y] \/ below[y] \subseteq below[x]
    BY <1>6, <1>10
<1>12. \A x, y \in actions : below[x] = below[y] => x = y
    BY <1>6, <1>9, <1>10
<1>13. /\ Cardinality(actions) \in Nat
       /\ \A k \in 1..Cardinality(actions) : \E x \in actions : Cardinality(below[x]) = k
    BY <1>7, <1>9, <1>11, <1>12, RankOnto
<1>14. \A x \in actions : Cardinality(under[x]) = Cardinality(below[x]) - 1
    <2> SUFFICES ASSUME NEW x \in actions
                 PROVE  Cardinality(under[x]) = Cardinality(below[x]) - 1
        OBVIOUS
    <2>1. IsFiniteSet(under[x])
        BY <1>7, <1>8, FS_Subset
    <2>2. Cardinality(under[x] \union {x}) = Cardinality(under[x]) + 1 /\ Cardinality(under[x]) \in Nat
        BY <1>8, <2>1, FS_AddElement, FS_CardinalityType
    <2>3. below[x] = under[x] \union {x}
        BY <1>8
    <2>4. Cardinality(below[x]) = Cardinality(under[x]) + 1
        BY <2>2, <2>3
    <2> QED BY <2>2, <2>4
<1>15. \A i \in 1..Cardinality(actions) : \E x \in actions :
           Cardinality({y \in actions : Before(y, x)}) = i - 1
    BY <1>8, <1>13, <1>14
<1>16. Sorted(actions, Before) =
           [i \in 1..Cardinality(actions) |->
               CHOOSE x \in actions : Cardinality({y \in actions : Before(y, x)}) = i - 1]
    BY DEF Sorted
<1> QED BY <1>13, <1>15, <1>16

LEMMA OrderedMembers ==
    ASSUME rules \in Seq(RuleType), NEW ids \in SUBSET Nat, NEW actions, IsActionSet(actions, ids)
    PROVE  OrderedActions(actions) \in Seq({MappedAction(a) : a \in actions})
<1> DEFINE o == Sorted(actions, Before)
           n == Cardinality(actions)
           list == [k \in DOMAIN o |-> MappedAction(o[k])]
<1>1. DOMAIN o = 1..n /\ n \in Nat /\ \A i \in 1..n : o[i] \in actions
    BY SortedMembers
<1>2. OrderedActions(actions) = list
    BY DEF OrderedActions
<1> HIDE DEF o, n
<1>3. \A k \in 1..n : list[k] \in {MappedAction(a) : a \in actions}
    BY <1>1
<1>4. list \in [1..n -> {MappedAction(a) : a \in actions}]
    BY <1>1, <1>3
<1> HIDE DEF list
<1>5. list \in Seq({MappedAction(a) : a \in actions})
    BY <1>1, <1>4, ListType
<1> QED BY <1>2, <1>5

\* What is distinct in a sequence was in it, and comes once.
LEMMA DistinctMembers ==
    ASSUME NEW T, NEW list \in Seq(T)
    PROVE  /\ \A k \in DOMAIN DistinctOf(list) : DistinctOf(list)[k] \in T
           /\ \A k, l \in DOMAIN DistinctOf(list) :
                  k # l => DistinctOf(list)[k] # DistinctOf(list)[l]
<1> DEFINE S == {i \in DOMAIN list : \A j \in 1..(i - 1) : list[j] # list[i]}
           picked == Picked(list, S)
           order == InOrder(S)
<1>1. DOMAIN list = 1..Len(list) /\ Len(list) \in Nat
    OBVIOUS
<1>2. S \in SUBSET DOMAIN list
    OBVIOUS
<1>3. IsFiniteSet(S) /\ S \in SUBSET Int
    <2>1. IsFiniteSet(DOMAIN list)
        BY <1>1, IntervalSize
    <2> HIDE DEF S
    <2> QED BY <1>1, <1>2, <2>1, FS_Subset
<1>4. \A i, j \in S : i # j => list[i] # list[j]
    <2> SUFFICES ASSUME NEW i \in S, NEW j \in S, i < j PROVE list[i] # list[j]
        BY <1>1
    <2>1. i \in 1..(j - 1)
        BY <1>1
    <2> QED BY <2>1
<1>5. DistinctOf(list) = picked
    BY DEF DistinctOf
<1> HIDE DEF S
<1>6. \A k \in DOMAIN picked : picked[k] \in T
    BY <1>2, PickedMembers
<1>7. /\ order \in Seq(S) /\ Len(order) = Cardinality(S)
      /\ \A k, l \in DOMAIN order : k < l => order[k] < order[l]
    BY <1>3, InOrderMembers
<1>8. picked = [k \in 1..Cardinality(S) |-> list[order[k]]]
    BY DEF Picked
<1> HIDE DEF order, picked
<1>9. Cardinality(S) \in Nat /\ DOMAIN order = 1..Cardinality(S)
    BY <1>7
<1>10. \A k, l \in 1..Cardinality(S) : k # l => order[k] \in S /\ order[l] \in S /\ order[k] # order[l]
    <2> SUFFICES ASSUME NEW k \in 1..Cardinality(S), NEW l \in 1..Cardinality(S), k # l
                 PROVE  order[k] \in S /\ order[l] \in S /\ order[k] # order[l]
        OBVIOUS
    <2>1. order[k] \in S /\ order[l] \in S
        BY <1>7, <1>9
    <2>2. order[k] \in Int /\ order[l] \in Int
        BY <1>3, <2>1
    <2>3. k < l \/ l < k
        BY <1>9
    <2>4. order[k] < order[l] \/ order[l] < order[k]
        BY <1>7, <1>9, <2>3
    <2> QED BY <2>1, <2>2, <2>4
<1>11. \A k, l \in DOMAIN picked : k # l => picked[k] # picked[l]
    BY <1>4, <1>8, <1>10
<1> QED BY <1>5, <1>6, <1>11

-----------------------------------------------------------------------------
(* What a merged state has for a term.                                     *)

\* Reductions by rules that reduce alike are represented by the same rule.
LEMMA RepresentativeSame ==
    ASSUME rules \in Seq(RuleType), NEW a \in RuleIds, NEW b \in RuleIds, SameReduce(a, b)
    PROVE  Representative(a) = Representative(b)
<1> DEFINE IsFirst(r, rule) ==
               SameReduce(r, rule) /\ \A q \in RuleIds : (SameReduce(q, rule) => r <= q)
           First(rule) == CHOOSE r \in RuleIds : IsFirst(r, rule)
<1>1. RuleIds \in SUBSET Nat /\ 0 \notin RuleIds
    BY DEF RuleIds
<1>2. Representative(a) = First(a) /\ Representative(b) = First(b)
    BY <1>1 DEF Representative, NoRule
<1>3. ASSUME NEW rule \in RuleIds
      PROVE  First(rule) \in RuleIds /\ IsFirst(First(rule), rule)
    <2> DEFINE alike == {r \in RuleIds : SameReduce(r, rule)}
    <2>1. alike \in SUBSET Nat /\ alike # {}
        BY <1>1 DEF SameReduce
    <2>2. \E r \in alike : \A q \in alike : r <= q
        <3> HIDE DEF alike
        <3> QED BY <2>1, LeastNumber
    <2>3. \E r \in RuleIds : IsFirst(r, rule)
        BY <2>2
    <2> HIDE DEF IsFirst
    <2> QED BY <2>3
<1> HIDE DEF First
<1>4. \A r \in RuleIds : SameReduce(r, a) <=> SameReduce(r, b)
    BY DEF SameReduce
<1>5. First(a) <= First(b) /\ First(b) <= First(a)
    BY <1>3, <1>4
<1>6. First(a) \in Nat /\ First(b) \in Nat
    BY <1>1, <1>3
<1>7. First(a) = First(b)
    BY <1>5, <1>6
<1> QED BY <1>2, <1>7

\* Actions that are the same under the mapping become one.
LEMMA EquivalentOne ==
    ASSUME rules \in Seq(RuleType), NEW ids,
           NEW a, a \in ShiftsTo(ids) \/ a \in Reductions,
           NEW b, b \in ShiftsTo(ids) \/ b \in Reductions,
           EquivalentMapped(a, b, mapping)
    PROVE  MappedAction(a) = MappedAction(b)
<1>1. a.kind = b.kind /\ a.term = b.term
    BY DEF EquivalentMapped
<1>2. CASE a.kind = "shift"
    BY <1>1, <1>2 DEF EquivalentMapped, MappedAction
<1>3. CASE a.kind # "shift"
    <2>1. a.to \in RuleIds /\ b.to \in RuleIds /\ SameReduce(a.to, b.to)
        BY <1>1, <1>3 DEF ShiftsTo, Reductions, EquivalentMapped
    <2>2. Representative(a.to) = Representative(b.to)
        BY <2>1, RepresentativeSame
    <2> QED BY <1>1, <1>3, <2>2 DEF MappedAction
<1> QED BY <1>2, <1>3

\* Two actions on one term that a merged state tells apart, in states that can
\* be merged, were together in one of the states.
LEMMA ToldApart ==
    ASSUME rules \in Seq(RuleType), TableType(states),
           NEW l \in StateIds, NEW r \in StateIds, CanMerge(l, r, mapping),
           NEW a \in states[l].actions, NEW b \in states[r].actions,
           a.term = b.term, MappedAction(a) # MappedAction(b)
    PROVE  Cardinality(On(states[l].actions, a.term)) > 1
<1> DEFINE left == On(states[l].actions, a.term)
           right == On(states[r].actions, a.term)
<1>1. IsActionSet(states[l].actions, StateIds) /\ IsActionSet(states[r].actions, StateIds)
    BY DEF TableType, IsTyped, StateIds
<1>2. /\ a \in ShiftsTo(StateIds) \/ a \in Reductions
      /\ b \in ShiftsTo(StateIds) \/ b \in Reductions
    BY <1>1 DEF IsActionSet
<1>3. a \in left /\ b \in right
    BY DEF On
<1>4. RangesCompatible(left, right, mapping)
    BY DEF CanMerge, ActionsCompatible
<1>5. ~EquivalentMapped(b, a, mapping)
    BY <1>2, EquivalentOne
<1>6. Cardinality(left) # 1
    BY <1>3, <1>4, <1>5 DEF RangesCompatible
<1>7. IsFiniteSet(left)
    BY <1>1, FS_Subset DEF IsActionSet, On
<1>8. Cardinality(left) \in Nat /\ Cardinality(left) # 0
    BY <1>3, <1>7, FS_CardinalityType, FS_EmptySet
<1> HIDE DEF left
<1>9. Cardinality(left) > 1
    BY <1>6, <1>8
<1> QED BY <1>9 DEF left

\* Two actions of one state on one term.
LEMMA TwoOfOne ==
    ASSUME TableType(states), NEW s \in StateIds,
           NEW a \in states[s].actions, NEW b \in states[s].actions,
           a.term = b.term, a # b
    PROVE  Cardinality(On(states[s].actions, a.term)) > 1
<1> DEFINE all == On(states[s].actions, a.term)
<1>1. IsFiniteSet(all)
    BY FS_Subset DEF TableType, IsTyped, StateIds, IsActionSet, On
<1>2. a \in all /\ b \in all
    BY DEF On
<1> HIDE DEF all
<1>3. Cardinality(all) \in Nat /\ Cardinality(all) # 0 /\ Cardinality(all) # 1
    BY <1>1, <1>2, FS_CardinalityType, FS_EmptySet, FS_Singleton
<1>4. Cardinality(all) > 1
    BY <1>3
<1> QED BY <1>4 DEF all

\* Two actions of a list for one term were together in a state of a group.
Faithful(g, list) ==
    \A i, j \in DOMAIN list :
        i # j /\ list[j].term = list[i].term =>
            \E s \in StateIds :
                mapping[s] = g /\ Cardinality(On(states[s].actions, list[i].term)) > 1

\* The actions of the states of a group.
ActionsIn(g) == UNION {states[s].actions : s \in {s \in StateIds : mapping[s] = g}}

LEMMA TogetherFaithful ==
    ASSUME rules \in Seq(RuleType), Closed, TableType(states),
           \A s, t \in StateIds : mapping[s] = mapping[t] /\ s # t => Compatible(s, t),
           NEW g
    PROVE  Faithful(g, DistinctOf(Together(Sources(g)).actions))
<1> DEFINE S == {s \in StateIds : mapping[s] = g}
           sources == Sources(g)
           T == {MappedAction(a) : a \in ActionsIn(g)}
           lists == [i \in DOMAIN sources |-> OrderedActions(states[sources[i]].actions)]
           all == FlattenSeq(lists)
           list == DistinctOf(all)
<1>1. StateIds \in SUBSET Nat /\ IsFiniteSet(StateIds)
    BY DEF Closed, ClosedTable, StateIds
<1>2. sources \in Seq(S)
    <2>1. S \in SUBSET Int /\ IsFiniteSet(S)
        <3>1. S \in SUBSET StateIds
            OBVIOUS
        <3> HIDE DEF S
        <3>2. IsFiniteSet(S)
            BY <1>1, <3>1, FS_Subset
        <3> QED BY <1>1, <3>1, <3>2
    <2> HIDE DEF S
    <2>2. InOrder(S) \in Seq(S)
        BY <2>1, InOrderMembers
    <2> QED BY <2>2 DEF Sources, S
<1>3. Together(sources).actions = all
    BY DEF Together, AllMapped
<1> HIDE DEF sources
<1>4. ASSUME NEW s \in S PROVE OrderedActions(states[s].actions) \in Seq(T)
    <2>1. IsActionSet(states[s].actions, StateIds)
        BY DEF TableType, IsTyped, StateIds
    <2>2. OrderedActions(states[s].actions) \in Seq({MappedAction(a) : a \in states[s].actions})
        BY <1>1, <2>1, OrderedMembers
    <2>3. ASSUME NEW a \in states[s].actions PROVE MappedAction(a) \in T
        BY DEF ActionsIn
    <2>4. {MappedAction(a) : a \in states[s].actions} \in SUBSET T
        BY <2>3
    <2> HIDE DEF T
    <2> QED BY <2>2, <2>4
<1>5. lists \in Seq(Seq(T))
    <2>1. DOMAIN sources = 1..Len(sources) /\ Len(sources) \in Nat
        BY <1>2
    <2>2. \A i \in DOMAIN sources : sources[i] \in S
        BY <1>2
    <2> HIDE DEF S, T
    <2>3. \A i \in DOMAIN sources : lists[i] \in Seq(T)
        BY <1>4, <2>2
    <2>4. lists = [i \in DOMAIN sources |-> lists[i]]
        OBVIOUS
    <2> HIDE DEF lists
    <2> QED BY <2>1, <2>3, <2>4
<1> HIDE DEF lists, T
<1>6. all \in Seq(T)
    BY <1>5, FlattenedType
<1> HIDE DEF all
<1>7. /\ \A k \in DOMAIN list : list[k] \in T
      /\ \A k, l \in DOMAIN list : k # l => list[k] # list[l]
    BY <1>6, DistinctMembers
<1> HIDE DEF list
<1>8. ASSUME NEW i \in DOMAIN list, NEW j \in DOMAIN list, i # j, list[j].term = list[i].term
      PROVE  \E s \in StateIds :
                 mapping[s] = g /\ Cardinality(On(states[s].actions, list[i].term)) > 1
    <2>0. \A m \in T : \E s \in S : \E a \in states[s].actions : m = MappedAction(a)
        <3> SUFFICES ASSUME NEW m \in T
                     PROVE  \E s \in S : \E a \in states[s].actions : m = MappedAction(a)
            OBVIOUS
        <3>1. PICK a \in ActionsIn(g) : m = MappedAction(a)
            BY DEF T
        <3>2. PICK s \in S : a \in states[s].actions
            BY DEF ActionsIn
        <3> QED BY <3>1, <3>2
    <2>s. PICK s \in S : \E a \in states[s].actions : list[i] = MappedAction(a)
        BY <1>7, <2>0
    <2>1. PICK a \in states[s].actions : list[i] = MappedAction(a)
        BY <2>s
    <2>t. PICK t \in S : \E b \in states[t].actions : list[j] = MappedAction(b)
        BY <1>7, <2>0
    <2>2. PICK b \in states[t].actions : list[j] = MappedAction(b)
        BY <2>t
    <2>3. MappedAction(a) # MappedAction(b)
        BY <1>7, <1>8, <2>1, <2>2
    <2>4. a.term = list[i].term /\ b.term = list[i].term
        BY <1>8, <2>1, <2>2 DEF MappedAction
    <2>5. CASE s = t
        <3>1. Cardinality(On(states[s].actions, a.term)) > 1
            BY <2>2, <2>3, <2>4, <2>5, TwoOfOne
        <3> QED BY <2>4, <3>1
    <2>6. CASE s # t /\ CanMerge(s, t, mapping)
        <3>1. Cardinality(On(states[s].actions, a.term)) > 1
            BY <2>3, <2>4, <2>6, ToldApart
        <3> QED BY <2>4, <3>1
    <2>7. CASE s # t /\ CanMerge(t, s, mapping)
        <3>1. Cardinality(On(states[t].actions, b.term)) > 1
            BY <2>3, <2>4, <2>7, ToldApart
        <3> QED BY <2>4, <3>1
    <2> QED BY <2>5, <2>6, <2>7 DEF Compatible
<1>9. Faithful(g, list)
    BY <1>8 DEF Faithful
<1> QED BY <1>3, <1>9 DEF list, sources

-----------------------------------------------------------------------------
(* The merged states.                                                      *)

\* The groups are what the states are mapped to.
Placed ==
    stage \in Late => groups \in Seq(GroupType) /\ mapping \in [StateIds -> DOMAIN groups]

\* There are as many merged states as groups after merge_states, if at all, and
\* fewer after a pass of merge_identical.
Merged ==
    stage = "identical" =>
        \E m \in 0..Len(groups) :
            /\ DOMAIN merged = 1..m
            /\ m = Len(groups) => \A g \in 1..m : Faithful(g, merged[g].actions)

MergeInv == Placed /\ Merged

LEMMA PlacedStep ==
    ASSUME AutomatonInv, Placed, [Next]_vars
    PROVE  Placed'
<1>1. CASE stage \in Late \/ stage' \notin Late
    <2>1. stage' \in Late => stage \in Late /\ UNCHANGED <<states, groups, mapping>>
        BY <1>1 DEF Next, Build, Tokenizing, AssignTokens, RefuseTokens, InlineRules, MergeRules,
            FirstPass, Start, AddStartState, StartFilling, AddGoto, AddShift, AddReduction,
            CloseState, Finish, Transition, Filling, Collapsing, CollapseNext, JoinGroup,
            OpenGroup, StartPasses, SkipGroup, EnterGroup, PairKnown, PairMerges, PairSpills,
            NextLeft, LeaveGroup, NextPass, Settle, Go, Comparing, Scanning, Entering,
            Merging, MergeStates, MergeIdentical, Done, vars, Late
    <2> QED BY <2>1 DEF Placed, GroupType, StateIds
<1>2. CASE stage \notin Late /\ stage' \in Late
    <2>1. /\ stage = "collapse" /\ UNCHANGED <<states, groups, mapping>>
        BY <1>2 DEF Next, Build, Tokenizing, AssignTokens, RefuseTokens, InlineRules, MergeRules,
            FirstPass, Start, AddStartState, StartFilling, AddGoto, AddShift, AddReduction,
            CloseState, Finish, Transition, Filling, Collapsing, CollapseNext, JoinGroup,
            OpenGroup, StartPasses, SkipGroup, EnterGroup, PairKnown, PairMerges, PairSpills,
            NextLeft, LeaveGroup, NextPass, Settle, Go, Comparing, Scanning, Entering,
            Merging, MergeStates, MergeIdentical, Done, vars, Late
    <2>2. groups \in Seq(GroupType) /\ mapping \in [StateIds -> DOMAIN groups]
        BY <2>1 DEF AutomatonInv, Grouped, CollapseInv
    <2> QED BY <2>1, <2>2 DEF Placed, GroupType, StateIds
<1> QED BY <1>1, <1>2

LEMMA MergeStatesStep ==
    ASSUME AutomatonInv, AutomatonType, Placed, MergeStates
    PROVE  Merged'
<1>1. /\ stage = "merge" /\ UNCHANGED <<rules, states, mapping, groups>>
      /\ rules \in Seq(RuleType) /\ TableType(states) /\ 1 \in StateIds
      /\ groups \in Seq(GroupType) /\ mapping \in [StateIds -> DOMAIN groups]
      /\ Closed
      /\ \A s, t \in StateIds : mapping[s] = mapping[t] /\ s # t => Compatible(s, t)
    BY DEF MergeStates, AutomatonType, AutomatonInv, Placed, Late, Sound, Simplifying
<1> DEFINE used == {mapping[s] : s \in StateIds}
           m == Largest(used)
           all == [g \in 1..m |-> Together(Sources(g))]
<1>2. m \in 0..Len(groups)
    <2>1. Len(groups) \in Nat /\ DOMAIN groups = 1..Len(groups)
        BY <1>1
    <2>2. used \in SUBSET (0..Len(groups)) /\ used # {}
        BY <1>1, <2>1
    <2> HIDE DEF used
    <2> QED BY <2>1, <2>2, LargestChosen
<1>3. merged' = [g \in DOMAIN all |-> [all[g] EXCEPT !.actions = DistinctOf(@),
                                                     !.gotos = DistinctOf(@)]]
    BY DEF MergeStates
<1> HIDE DEF m
<1>4. DOMAIN merged' = 1..m
    BY <1>3
<1>5. ASSUME NEW g \in 1..m
      PROVE  merged'[g].actions = DistinctOf(Together(Sources(g)).actions)
    <2>1. merged'[g] = [Together(Sources(g)) EXCEPT !.actions = DistinctOf(@),
                                                    !.gotos = DistinctOf(@)]
        BY <1>3
    <2>2. \E core, start, token, default, actions, gotos :
              Together(Sources(g)) = [core |-> core, start |-> start, token |-> token,
                                      default |-> default, actions |-> actions, gotos |-> gotos]
        BY DEF Together
    <2> QED BY <2>1, <2>2
<1>6. \A g \in 1..m : Faithful(g, DistinctOf(Together(Sources(g)).actions))
    BY <1>1, TogetherFaithful
<1>7. \A g, list : Faithful(g, list)' <=> Faithful(g, list)
    BY <1>1 DEF Faithful, On, StateIds
<1> QED BY <1>1, <1>2, <1>4, <1>5, <1>6, <1>7 DEF Merged

LEMMA MergeIdenticalStep ==
    ASSUME AutomatonType, Placed, Merged, MergeIdentical
    PROVE  Merged'
<1>1. /\ stage = "identical" /\ UNCHANGED groups /\ Originals # DOMAIN merged
      /\ groups \in Seq(GroupType)
    BY DEF MergeIdentical, Placed, Late
<1>2. PICK m \in 0..Len(groups) : DOMAIN merged = 1..m
    BY <1>1 DEF Merged
<1> DEFINE kept == InOrder(Originals)
           n == Cardinality(Originals)
<1>3. merged' = [k \in DOMAIN kept |-> Retargeted(kept[k], Renumbered)]
    BY DEF MergeIdentical
<1>4. Len(groups) \in Nat /\ m \in Nat /\ m <= Len(groups)
    <2>1. Len(groups) \in Nat
        BY <1>1
    <2> QED BY <1>2, <2>1
<1>5. IsFiniteSet(1..m) /\ Cardinality(1..m) = m
    BY <1>4, IntervalSize
<1>6. Originals \in SUBSET (1..m) /\ Originals # 1..m
    BY <1>1, <1>2 DEF Originals
<1>7. IsFiniteSet(Originals) /\ n \in Nat /\ n < m
    <2>1. /\ IsFiniteSet(Originals) /\ n <= m
          /\ m = n => 1..m = Originals
        BY <1>5, <1>6, FS_Subset
    <2>2. n \in Nat
        BY <2>1, FS_CardinalityType
    <2> HIDE DEF n
    <2> QED BY <1>4, <1>6, <2>1, <2>2
<1>8. kept \in Seq(Originals) /\ Len(kept) = n
    <2>1. Originals \in SUBSET Int
        BY <1>4, <1>6
    <2> QED BY <1>7, <2>1, InOrderMembers
<1> HIDE DEF kept, n
<1>9. DOMAIN merged' = 1..n
    BY <1>3, <1>7, <1>8
<1>10. n \in 0..Len(groups) /\ n # Len(groups)
    BY <1>4, <1>7
<1> QED BY <1>1, <1>9, <1>10 DEF Merged

LEMMA NextMerge == AutomatonInv /\ AutomatonType /\ MergeInv /\ [Next]_vars => MergeInv'
<1> SUFFICES ASSUME AutomatonInv, AutomatonType, MergeInv, [Next]_vars PROVE MergeInv'
    OBVIOUS
<1>1. Placed'
    BY PlacedStep DEF MergeInv
<1>2. CASE MergeStates
    BY <1>1, <1>2, MergeStatesStep DEF MergeInv
<1>3. CASE MergeIdentical
    BY <1>1, <1>3, MergeIdenticalStep DEF MergeInv
<1>4. CASE ~MergeStates /\ ~MergeIdentical
    <2>1. stage' # "identical"
          \/ (stage = "identical" /\ UNCHANGED <<states, mapping, groups, merged>>)
        BY <1>4 DEF Next, Build, Tokenizing, AssignTokens, RefuseTokens, InlineRules, MergeRules,
            FirstPass, Start, AddStartState, StartFilling, AddGoto, AddShift, AddReduction,
            CloseState, Finish, Transition, Filling, Collapsing, CollapseNext, JoinGroup,
            OpenGroup, StartPasses, SkipGroup, EnterGroup, PairKnown, PairMerges, PairSpills,
            NextLeft, LeaveGroup, NextPass, Settle, Go, Comparing, Scanning, Entering,
            Merging, Done, vars
    <2>2. CASE stage' # "identical"
        BY <1>1, <2>2 DEF MergeInv, Merged
    <2>3. CASE stage = "identical" /\ UNCHANGED <<states, mapping, groups, merged>>
        <3>1. \A g, list : Faithful(g, list)' <=> Faithful(g, list)
            BY <2>3 DEF Faithful, On, StateIds
        <3>2. Merged'
            BY <2>3, <3>1 DEF MergeInv, Merged
        <3> QED BY <1>1, <3>2 DEF MergeInv
    <2> QED BY <2>1, <2>2, <2>3
<1> QED BY <1>2, <1>3, <1>4

(* The automaton has its type: the rules stay rules while they are put in  *)
(* one another's place, every first set is one of terms, every position of *)
(* every state is one of a rule, a dot in it and a term or a group, and    *)
(* every action and goto leads to a state or reduces by a rule, no two     *)
(* actions of a state being as old (simplify_rules, compute_first_sets,    *)
(* build_full_automaton, State::add_action).                               *)
THEOREM AutomatonTyped == Spec => []AutomatonType
BY TypeHolds, PTL

(* Two actions for one term in a merged state were there, for that term,   *)
(* in one of the states it was made of: merge_states brings no conflict of *)
(* its own, for every grammar that is built.                               *)
THEOREM NoConflictOfMerging == Spec => []NoNewConflict
<1> DEFINE Inv == AutomatonInv /\ AutomatonType /\ MergeInv
<1>1. Init => Inv
    BY InitInv, InitType DEF Init, MergeInv, Placed, Merged, Late
<1>2. Inv /\ [Next]_vars => Inv'
    BY NextInv, NextType, NextMerge DEF AutomatonInv
<1>3. Inv => NoNewConflict
    <2> SUFFICES ASSUME Inv, stage = "identical", DOMAIN merged = DOMAIN groups,
                        NEW g \in DOMAIN merged,
                        NEW i \in DOMAIN merged[g].actions, NEW j \in DOMAIN merged[g].actions,
                        i # j, merged[g].actions[j].term = merged[g].actions[i].term
                 PROVE  \E s \in StateIds :
                            /\ mapping[s] = g
                            /\ Cardinality(On(states[s].actions, merged[g].actions[i].term)) > 1
        BY DEF NoNewConflict
    <2>1. groups \in Seq(GroupType)
        BY DEF MergeInv, Placed, Late
    <2>2. PICK m \in 0..Len(groups) :
              /\ DOMAIN merged = 1..m
              /\ m = Len(groups) => \A h \in 1..m : Faithful(h, merged[h].actions)
        BY DEF MergeInv, Merged
    <2>3. m = Len(groups)
        <3>1. Len(groups) \in Nat /\ DOMAIN groups = 1..Len(groups)
            BY <2>1
        <3>2. m \in Nat
            BY <3>1
        <3>3. 1..m = 1..Len(groups)
            BY <2>2, <3>1
        <3>4. Cardinality(1..m) = m /\ Cardinality(1..Len(groups)) = Len(groups)
            BY <3>1, <3>2, IntervalSize
        <3> QED BY <3>3, <3>4
    <2>4. Faithful(g, merged[g].actions)
        BY <2>2, <2>3
    <2> QED BY <2>4 DEF Faithful
<1> HIDE DEF Inv
<1> QED BY <1>1, <1>2, <1>3, PTL DEF Spec
=============================================================================
