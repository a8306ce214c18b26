------------------------------- MODULE TreeWalk -------------------------------
(***************************************************************************)
(* What a reader of a syntax tree promises, whatever the tree is made of:  *)
(* it stands at a node of an ordered tree, every request moves it to the   *)
(* node the request names, and a request for a node that is not there      *)
(* leaves it where it is.                                                  *)
(*                                                                         *)
(* A place is the path of child numbers from the root; 0 stands for the    *)
(* step into a tree mounted over parts of the node.                        *)
(***************************************************************************)
EXTENDS Integers, Sequences, FiniteSets, SequencesExt

CONSTANTS
    Requests       \* requests a reader gets: records of op, pos and side

VARIABLES
    tree,          \* the tree that is read
    place,         \* where the reader stands
    node,          \* type and positions of the node there
    request,       \* the request under way, NoRequest if none
    found          \* whether the last request found its node

walkVars == <<tree, place, node, request, found>>

NoRequest == [op |-> "none", pos |-> 0, side |-> 0]

-----------------------------------------------------------------------------
Covers(side, pos, from, to) ==
    CASE side = -2 -> from < pos
      [] side = -1 -> from < pos /\ to >= pos
      [] side = 0  -> from < pos /\ to > pos
      [] side = 1  -> from <= pos /\ to > pos
      [] side = 2  -> to > pos
      [] OTHER     -> TRUE

RECURSIVE At(_, _)
At(root, path) ==
    IF path = <<>> THEN root
    ELSE At(IF path[1] = 0 THEN root.inner[1].root ELSE root.kids[path[1]],
            Tail(path))

Face(n) == [type |-> n.type, from |-> n.from, to |-> n.to]

HasPlace(root, path) ==
    LET above == At(root, Front(path))
    IN  path = <<>> \/ (Last(path) > 0 /\ Last(path) <= Len(above.kids))

Nearest(paths) == CHOOSE p \in paths : \A q \in paths : Len(q) <= Len(p)

Least(numbers) == CHOOSE n \in numbers : \A k \in numbers : n <= k

Greatest(numbers) == CHOOSE n \in numbers : \A k \in numbers : n >= k

-----------------------------------------------------------------------------
(* The places a request may lead to: one, or none.                         *)

KidsThat(root, path, Fits(_)) ==
    LET kids == At(root, path).kids
    IN  {i \in DOMAIN kids : Fits(kids[i])}

FirstThat(root, path, Fits(_)) ==
    LET fit == KidsThat(root, path, Fits)
    IN  IF fit = {} THEN {} ELSE {path \o <<Least(fit)>>}

LastThat(root, path, Fits(_)) ==
    LET fit == KidsThat(root, path, Fits)
    IN  IF fit = {} THEN {} ELSE {path \o <<Greatest(fit)>>}

FirstChild(root, path) == FirstThat(root, path, LAMBDA n : TRUE)

LastChild(root, path) == LastThat(root, path, LAMBDA n : TRUE)

Sibling(root, path, step) ==
    IF path = <<>> \/ Last(path) = 0 THEN {}
    ELSE LET next == Front(path) \o <<Last(path) + step>>
         IN  IF HasPlace(root, next) THEN {next} ELSE {}

Parent(path) == IF path = <<>> THEN {} ELSE {Front(path)}

Ancestors(path) == {SubSeq(path, 1, n) : n \in 0..Len(path)}

(* The sibling of the nearest ancestor that has one: the next node in      *)
(* pre-order when the node's own children are passed over.                 *)
Onward(root, path, step) ==
    LET with == {q \in Ancestors(path) : Sibling(root, q, step) # {}}
    IN  IF with = {} THEN {} ELSE Sibling(root, Nearest(with), step)

Forward(root, path) ==
    IF FirstChild(root, path) # {} THEN FirstChild(root, path)
    ELSE Onward(root, path, 1)

Backward(root, path) ==
    IF LastChild(root, path) # {} THEN LastChild(root, path)
    ELSE Onward(root, path, -1)

(* A mounted tree is entered where one of its ranges is touched.           *)
Inside(n, pos, side) ==
    /\ n.inner # <<>> /\ pos >= n.from
    /\ \E i \in DOMAIN n.inner[1].ranges :
          LET range == n.inner[1].ranges[i]
              at == pos - n.from
          IN  /\ IF side > 0 THEN range.from <= at ELSE range.from < at
              /\ IF side < 0 THEN range.to >= at ELSE range.to > at

EnterChild(root, path, pos, side) ==
    FirstThat(root, path, LAMBDA n : Covers(side, pos, n.from, n.to))

Enter(root, path, pos, side) ==
    IF Inside(At(root, path), pos, side) THEN {path \o <<0>>}
    ELSE EnterChild(root, path, pos, side)

RECURSIVE Innermost(_, _, _, _, _)
Innermost(root, path, pos, side, overlays) ==
    LET next == IF overlays THEN Enter(root, path, pos, side)
                ELSE EnterChild(root, path, pos, side)
    IN  IF next = {} THEN path
        ELSE Innermost(root, CHOOSE p \in next : TRUE, pos, side, overlays)

CoversAt(root, path, pos, side) ==
    Covers(side, pos, At(root, path).from, At(root, path).to)

Around(root, path, pos, side) ==
    {q \in Ancestors(path) : q = <<>> \/ CoversAt(root, q, pos, side)}

MoveTo(root, path, pos, side) ==
    Innermost(root, Nearest(Around(root, path, pos, side)), pos, side,
              FALSE)

(* Without overlays a search that starts in a mounted tree does not leave  *)
(* it.                                                                     *)
Resolve(root, path, pos, side) ==
    LET from == Nearest(Around(root, path, pos, side) \union
                        {q \in Ancestors(path) : q # <<>> /\ Last(q) = 0})
    IN  IF CoversAt(root, from, pos, side)
        THEN Innermost(root, from, pos, side, FALSE)
        ELSE from

(* With overlays a search leaves the mounted trees that it would not enter *)
(* at this position.                                                       *)
ResolveInner(root, path, pos, side) ==
    LET around == Nearest(Around(root, path, pos, side))
        left == {q \in Ancestors(around) :
                    /\ q # <<>> /\ Last(q) = 0
                    /\ \A p \in Enter(root, Front(q), pos, side) :
                          At(root, p).from # At(root, q).from}
        from == IF left = {} THEN around
                ELSE Front(CHOOSE p \in left : \A q \in left : Len(p) <= Len(q))
    IN  IF CoversAt(root, around, pos, side)
        THEN Innermost(root, from, pos, side, TRUE)
        ELSE around

Target(root, path, r) ==
    CASE r.op = "first_child"       -> FirstChild(root, path)
      [] r.op = "last_child"        -> LastChild(root, path)
      [] r.op = "child_after"       -> FirstThat(root, path, LAMBDA n : n.to > r.pos)
      [] r.op = "child_before"      -> LastThat(root, path, LAMBDA n : n.from < r.pos)
      [] r.op = "next_sibling"      -> Sibling(root, path, 1)
      [] r.op = "previous_sibling"  -> Sibling(root, path, -1)
      [] r.op = "parent"            -> Parent(path)
      [] r.op = "next"              -> Forward(root, path)
      [] r.op = "next_over"         -> Onward(root, path, 1)
      [] r.op = "previous"          -> Backward(root, path)
      [] r.op = "previous_over"     -> Onward(root, path, -1)
      [] r.op = "enter"             -> Enter(root, path, r.pos, r.side)
      [] r.op = "move_to"           -> {MoveTo(root, path, r.pos, r.side)}
      [] r.op = "resolve"           -> {Resolve(root, path, r.pos, r.side)}
      [] r.op = "resolve_inner"     -> {ResolveInner(root, path, r.pos, r.side)}

-----------------------------------------------------------------------------
WalkInit ==
    /\ place = <<>>
    /\ node = Face(tree)
    /\ request = NoRequest
    /\ found = FALSE

(* A reader starts at the root of a tree.                                  *)
Open ==
    /\ request = NoRequest /\ request' = NoRequest
    /\ place' = <<>>
    /\ node' = Face(tree')
    /\ found' = FALSE

Ask ==
    /\ request = NoRequest
    /\ request' \in Requests
    /\ found' = FALSE
    /\ UNCHANGED <<tree, place, node>>

Answer ==
    LET target == Target(tree, place, request)
    IN  /\ request # NoRequest
        /\ found' = (target # {})
        /\ place' = IF target = {} THEN place ELSE CHOOSE p \in target : TRUE
        /\ node' = Face(At(tree, place'))
        /\ request' = NoRequest
        /\ UNCHANGED tree

WalkNext == Open \/ Ask \/ Answer

WalkSpec == WalkInit /\ [][WalkNext]_walkVars
=============================================================================
