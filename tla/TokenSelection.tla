--------------------------- MODULE TokenSelection ---------------------------
(***************************************************************************)
(* Which tokens and actions a stack is offered (rezel-lr/src/parse.rs,     *)
(* TokenCache::get_actions), as if every tokenizer of the stack's state    *)
(* read the text afresh.  TokenCache implements this with one cached token *)
(* for each tokenizer and a filter on the next character.                  *)
(*                                                                         *)
(* index is the tokenizer the loop has reached; 0 between two calls.       *)
(***************************************************************************)
EXTENDS Grammar

CONSTANTS
    Position, InputEnd,   \* where a stack may stand, and the end of the text
    Clip,                 \* Clip[p]: where a token for a stack at p starts
    Context,              \* context hashes
    Tokenizer,            \* the tokenizers in order, each with its flags
    Mask,                 \* Mask[s]: the tokenizers that are active in s
    Read(_, _, _, _),     \* what tokenizer i reads: (i, start, state, context)
    Specialize(_, _),     \* ParserCore::specialize: (token, state)
    Strict,               \* ParserCore.top.strict
    Invalid(_)            \* whether a strict validator rejects a token

Flags == [contextual : BOOLEAN, fallback : BOOLEAN, extend : BOOLEAN]
Raised == -1  \* the term of a tokenizer that returns an error
Token == [value : Nat \cup {Raised}, end : Nat]
Special == [kind : {"none", "replace", "extend"}, term : Nat]
Request == [state : State, position : Position, context : Context]

ASSUME SelectionAssumption ==
    /\ Position \subseteq Nat
    /\ InputEnd \in Position
    /\ Clip \in [Position -> Position]
    /\ Context \subseteq Nat
    /\ Tokenizer \in Seq(Flags)
    /\ Mask \in [State -> SUBSET DOMAIN Tokenizer]
    /\ \A i \in DOMAIN Tokenizer, p \in Position, s \in State, c \in Context :
          /\ Read(i, p, s, c) \in Token
          /\ Specialize(Read(i, p, s, c), s) \in Special
          /\ Invalid(Read(i, p, s, c)) \in BOOLEAN
    /\ Strict \in BOOLEAN

VARIABLES
    request,  \* the stack of the last call
    index,    \* the tokenizer to consider next
    main,     \* the main token, or nothing
    actions,  \* the actions offered, each with its token
    outcome   \* "ok" until a call fails
selection == <<request, index, main, actions, outcome>>

None == << >>
Last == Len(Tokenizer)
TokenStart == Clip[request.position]
FreshToken(i) == Read(i, TokenStart, request.state, request.context)

\* add_actions for one term: new actions only, each with the term and its end.
Offer(offered, term, end) ==
    LET known == [k \in DOMAIN offered |-> offered[k].action]
        all == Visit(Visit(known, ActionRow[request.state], ActionElse[request.state], term),
                     SkipRow[request.state], SkipElse[request.state], term)
        new == SubSeq(all, Len(known) + 1, Len(all))
    IN  offered \o [k \in DOMAIN new |-> [action |-> new[k], token |-> term, end |-> end]]

\* The actions a token offers: an extending specialization comes first, a
\* replacing one takes the token's place.
SpecialOf(token) == Specialize(token, request.state)
Value(token) == IF SpecialOf(token).kind = "replace" THEN SpecialOf(token).term
                ELSE token.value
Declined(token) == token.value # Raised /\ Error \in {token.value, Value(token)}
Taken(token) == token.value # Raised /\ ~Declined(token)
Offered(token) ==
    Offer(IF SpecialOf(token).kind = "extend"
          THEN Offer(actions, SpecialOf(token).term, token.end) ELSE actions,
          Value(token), token.end)

SelectionInit ==
    /\ request \in Request
    /\ index = 0
    /\ main = None
    /\ actions = << >>
    /\ outcome = "ok"

GetActions(r) ==
    /\ index = 0 /\ outcome = "ok"
    /\ request' = r
    /\ index' = 1
    /\ main' = None
    /\ actions' = << >>
    /\ UNCHANGED outcome

\* After a main token only fallback tokenizers run.
Eligible(i) == main = None \/ Tokenizer[i].fallback
Passed ==
    /\ index' = index + 1
    /\ UNCHANGED <<request, main, actions, outcome>>

Pass ==
    /\ index \in 1 .. Last
    /\ index \notin Mask[request.state] \/ ~Eligible(index)
    /\ Passed

\* An error of a tokenizer or a validator ends the parse.
EndParse(result) ==
    /\ outcome' = result
    /\ index' = 0
    /\ main' = None /\ actions' = << >>
    /\ UNCHANGED request

\* The validators see the token as it was read.
\* Mutant: they see it after its specialization.
RejectedSpecialized(token) ==
    Strict /\ Len(Offered(token)) > Len(actions)
           /\ Invalid([token EXCEPT !.value = Value(token)])
Rejected(token) ==
    Strict /\ Len(Offered(token)) > Len(actions) /\ Invalid(token)

\* A token with a new action that does not extend ends the search.
\* Mutant: the search goes on.
NextIndexOnward(token) == index + 1
NextIndex(token) ==
    IF Len(Offered(token)) > Len(actions) /\ ~Tokenizer[index].extend
    THEN Last + 1 ELSE index + 1

Accept(token) ==
    /\ actions' = Offered(token)
    /\ main' = IF Tokenizer[index].extend THEN main
               ELSE <<[start |-> TokenStart, value |-> Value(token), end |-> token.end]>>
    /\ index' = NextIndex(token)
    /\ UNCHANGED <<request, outcome>>

Consider(token) ==
    \/ token.value = Raised /\ EndParse("error")
    \/ Declined(token) /\ Passed
    \/ Taken(token) /\ Rejected(token) /\ EndParse("syntax")
    \/ Taken(token) /\ ~Rejected(token) /\ Accept(token)

Run ==
    /\ index \in 1 .. Last
    /\ index \in Mask[request.state] /\ Eligible(index)
    /\ Consider(FreshToken(index))

\* After the last tokenizer, the end of the text counts where none accepted.
Conclude ==
    /\ index = Last + 1
    /\ index' = 0
    /\ IF main = None /\ TokenStart = InputEnd
       THEN /\ actions' = Offer(actions, Eof, TokenStart)
            /\ main' = <<[start |-> TokenStart, value |-> Eof, end |-> TokenStart]>>
       ELSE UNCHANGED <<actions, main>>
    /\ UNCHANGED <<request, outcome>>

Ask == \E r \in Request : GetActions(r)
SelectionNext == Ask \/ Pass \/ Run \/ Conclude

SelectionSpec == SelectionInit /\ [][SelectionNext]_selection
-----------------------------------------------------------------------------
\* Without extensions the stack gets one reading of the text: all actions
\* belong to the main token, whichever tokenizers declined, had no action or
\* stood in as a fallback before.
OneReading ==
    (\A i \in Mask[request.state] :
        ~Tokenizer[i].extend /\ SpecialOf(FreshToken(i)).kind # "extend")
    => \A k \in DOMAIN actions : main # None /\ actions[k].token = main[1].value

\* In strict mode every action a stack is offered belongs to a token that the
\* validators let pass, though they see the token before its specialization
\* and only where it adds an action.
OnlyValid == Strict => \A k \in DOMAIN actions :
    \/ actions[k].token = Eof
    \/ \E i \in Mask[request.state] :
          LET token == FreshToken(i)
          IN  /\ Taken(token) /\ ~Invalid(token)
              /\ actions[k].token \in {Value(token), SpecialOf(token).term}
=============================================================================
