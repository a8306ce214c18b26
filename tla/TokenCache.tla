----------------------------- MODULE TokenCache -----------------------------
(***************************************************************************)
(* TokenCache::get_actions of rezel-lr/src/parse.rs with its cache: one    *)
(* token for each tokenizer, shared by all the stacks of a parse, and      *)
(* TokenizerStartIndex (token.rs), which leaves out external tokenizers    *)
(* that cannot start at the next character.                                *)
(***************************************************************************)
EXTENDS TokenSelection

CONSTANTS
    Filtered,   \* the tokenizers with a start filter
    StartSet,   \* StartSet[i]: the next characters at which i may start
    NextChar    \* NextChar[p]: the character at p, or an end mark

\* What the language adapters owe: a tokenizer that is not contextual depends
\* on the state only through its mask, and a filter leaves out a tokenizer
\* only where it declines.
ASSUME TokenizerAssumption ==
    /\ Filtered \subseteq DOMAIN Tokenizer
    /\ \A i \in DOMAIN Tokenizer, p \in Position, s, t \in State, c \in Context :
          /\ ~Tokenizer[i].contextual /\ i \in Mask[s] /\ Mask[s] = Mask[t]
             => Read(i, p, s, c) = Read(i, p, t, c)
          /\ i \in Filtered /\ NextChar[p] \notin StartSet[i]
             => Read(i, p, s, c).value = Error

VARIABLE tokens  \* tokens[i]: the cached token of tokenizer i
cacheVars == <<selection, tokens>>

\* CachedToken::default.
Blank == [start |-> 0, mask |-> {}, context |-> 0, token |-> [value |-> Error, end |-> 0]]

CacheInit == SelectionInit /\ tokens = [i \in DOMAIN Tokenizer |-> Blank]

\* Mutant: a token read in another context is reused.
StaleByPlace(i) ==
    \/ Tokenizer[i].contextual
    \/ tokens[i].start # TokenStart
    \/ tokens[i].mask # Mask[request.state]
Stale(i) ==
    \/ Tokenizer[i].contextual
    \/ tokens[i].start # TokenStart
    \/ tokens[i].mask # Mask[request.state]
    \/ tokens[i].context # request.context

Remaining ==
    {i \in Mask[request.state] : i \in Filtered => NextChar[TokenStart] \in StartSet[i]}

CacheAsk == Ask /\ UNCHANGED tokens

CachePass ==
    /\ index \in 1 .. Last
    /\ index \notin Remaining \/ ~Eligible(index)
    /\ Passed
    /\ UNCHANGED tokens

\* A read that fails leaves the cached token as it was.
\* Mutant: the context of the read is not stored.
StoreStart(i, token) ==
    tokens' = [tokens EXCEPT ![i] = [@ EXCEPT !.start = TokenStart,
                                              !.mask = Mask[request.state],
                                              !.token = token]]
Store(i, token) ==
    tokens' = IF token.value = Raised THEN tokens
              ELSE [tokens EXCEPT ![i] = [start |-> TokenStart, mask |-> Mask[request.state],
                                          context |-> request.context, token |-> token]]

Miss ==
    /\ index \in 1 .. Last
    /\ index \in Remaining /\ Eligible(index) /\ Stale(index)
    /\ Consider(FreshToken(index))
    /\ Store(index, FreshToken(index))

Hit ==
    /\ index \in 1 .. Last
    /\ index \in Remaining /\ Eligible(index) /\ ~Stale(index)
    /\ Consider(tokens[index].token)
    /\ UNCHANGED tokens

CacheConclude == Conclude /\ UNCHANGED tokens

CacheNext == CacheAsk \/ CachePass \/ Miss \/ Hit \/ CacheConclude

CacheSpec == CacheInit /\ [][CacheNext]_cacheVars
-----------------------------------------------------------------------------
\* A cached token is what its tokenizer would read again for every stack that
\* asks with the same start, mask and context, whichever stacks asked since.
Fresh == \A i \in DOMAIN Tokenizer : \A s \in State :
    /\ ~Tokenizer[i].contextual
    /\ i \in Mask[s] /\ tokens[i].mask = Mask[s]
    => tokens[i].token = Read(i, tokens[i].start, s, tokens[i].context)
=============================================================================
