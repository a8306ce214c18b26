-------------------------------- MODULE MCTrees --------------------------------
(***************************************************************************)
(* Every postfix buffer of a few records: a node (1), an error without     *)
(* text (2), a repetition (10), side by side and nested, with and without  *)
(* skipped text before a token; and repetitions long enough to be cut into *)
(* leaves and balanced.                                                    *)
(***************************************************************************)
EXTENDS TreeReader

CONSTANTS
    MaxNodes,      \* records of a buffer
    MaxItems,      \* items of a list
    MaxNodesRead, MaxItemsRead,   \* the same, of the trees that are read
    Gaps,          \* skipped characters before each token
    Lengths        \* max_buffer_length

RECURSIVE Shapes(_)
Shapes(n) ==
    IF n = 0 THEN {<<>>}
    ELSE UNION {{before \o kids \o <<[type |-> type, size |-> Len(kids) + 1]>> :
                    before \in Shapes(k), kids \in Shapes(n - 1 - k),
                    type \in IF k = n - 1 THEN {1, 2, 10} ELSE {1, 10}}
                : k \in 0..(n - 1)}

(* A repetition of n items, each a node around a token, and one of them    *)
(* without a repetition record of its own, as the parser writes them.      *)
Item == <<[type |-> 1, size |-> 1], [type |-> 1, size |-> 2]>>

RECURSIVE Repetition(_)
Repetition(n) ==
    IF n = 1 THEN Item \o <<[type |-> 10, size |-> 3]>>
    ELSE LET before == Repetition(n - 1)
         IN  before \o Item \o <<[type |-> 10, size |-> Len(before) + 3]>>

List(n) == Append(Repetition(n), [type |-> 1, size |-> Len(Repetition(n)) + 1])

(* n nodes around two tokens.                                              *)
Nest(n) ==
    [i \in 1..(n + 2) |-> [type |-> 1, size |-> IF i <= 2 THEN 1 ELSE i]]

Tokens(shape, i) ==
    Cardinality({j \in 1..i : shape[j].size = 1 /\ shape[j].type # 2})

(* An error stands where the token before it ends, a node starts where its *)
(* first leaf does.                                                        *)
Start(shape, i, gap) ==
    LET leaf == i - shape[i].size + 1
    IN  IF shape[leaf].type = 2 THEN Tokens(shape, leaf) * (1 + gap)
        ELSE Tokens(shape, leaf) * (1 + gap) - 1

Layout(shape, gap) ==
    [i \in DOMAIN shape |->
        [type |-> shape[i].type, size |-> shape[i].size,
         start |-> Start(shape, i, gap), end |-> Tokens(shape, i) * (1 + gap)]]

BuildsOf(shapes) ==
    {[buffer |-> Layout(shape, gap), start |-> 0, top |-> 3, max |-> max,
      length |-> <<>>] : shape \in shapes, gap \in Gaps, max \in Lengths}

MCBuilds ==
    BuildsOf(UNION {Shapes(n) : n \in 0..MaxNodes}
             \union {List(n) : n \in 1..MaxItems}
             \union {Nest(n) : n \in 3..5})

(* Repetitions without nodes side by side are packed into a buffer without *)
(* records, which no reader finds its way around.                          *)
Hollow(tree) == \E part \in Parts(tree) : ~IsTree(part) /\ part.data = <<>>

Small(b) ==
    \/ Len(b.buffer) <= MaxNodesRead
    \/ Len(b.buffer) \in {3 * n + 1 : n \in 2..MaxItemsRead}

MCReads(b, tree) == Small(b) /\ ~Hollow(tree)

(* A repetition of a node with three tokens, then, around repetitions that *)
(* have no node, another one: x+ ("," * ";")* in a grammar.                *)
HollowShape ==
    [i \in 1..9 |-> [type |-> <<1, 1, 1, 1, 10, 10, 10, 10, 11>>[i],
                     size |-> <<1, 1, 1, 4, 5, 1, 1, 1, 4>>[i]]]

MCHollow == BuildsOf({HollowShape})

ReadsHollow(b, tree) == Hollow(tree)

(* Another language in place of the host or over a part of it; mounts are  *)
(* as long as their host.                                                  *)
MCInner(len) ==
    Tree(4, <<Kid(Buffer(<<[type |-> 1, from |-> 0, to |-> 1, next |-> 2]>>, 1), 0)>>, len)

MCModes == {{}, {"include_anonymous"}, {"ignore_mounts", "ignore_overlays"}}

MCSides == {-1, 0, 1}
=============================================================================
