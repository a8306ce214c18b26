----------------------------- MODULE TokenProofs -----------------------------
(***************************************************************************)
(* The token cache of a parse is invisible, for every set of tokenizers    *)
(* that keep the contract of TokenizerAssumption.                          *)
(***************************************************************************)
EXTENDS TokenCache, GrammarProofs

\* The cache keeps one entry for each tokenizer.
IsCache == tokens = [i \in DOMAIN Tokenizer |-> tokens[i]]

CacheInv == request \in Request /\ IsCache /\ Fresh

\* A request is a state, a position and a context of the parse, and its token
\* starts at a position.
LEMMA RequestParts ==
    ASSUME request \in Request
    PROVE  /\ request.state \in State
           /\ request.context \in Context
           /\ TokenStart \in Position
BY SelectionAssumption DEF Request, TokenStart

\* Only Ask changes the request.
LEMMA ConsiderKeeps == ASSUME NEW token, Consider(token) PROVE request' = request
BY DEF Consider, Passed, EndParse, Accept

LEMMA InitFresh == CacheInit => CacheInv
<1> SUFFICES ASSUME CacheInit PROVE CacheInv
    OBVIOUS
<1>1. request \in Request
    BY DEF CacheInit, SelectionInit
<1>2. tokens = [i \in DOMAIN Tokenizer |-> Blank]
    BY DEF CacheInit
<1>3. IsCache
    BY <1>2 DEF IsCache
<1>4. Fresh
    BY <1>2 DEF Fresh, Blank
<1> QED BY <1>1, <1>3, <1>4 DEF CacheInv

\* A miss stores what every stack with the same mask would read.
LEMMA StoreFresh ==
    ASSUME CacheInv, index \in Mask[request.state], Store(index, FreshToken(index)),
           request' = request
    PROVE  CacheInv'
<1> DEFINE fresh == FreshToken(index)
           entry == [start |-> TokenStart, mask |-> Mask[request.state],
                     context |-> request.context, token |-> fresh]
<1>1. /\ request.state \in State
      /\ request.context \in Context
      /\ TokenStart \in Position
    BY RequestParts DEF CacheInv
<1>2. CASE tokens' = tokens
    BY <1>2 DEF CacheInv, IsCache, Fresh
<1>3. CASE tokens' = [tokens EXCEPT ![index] = entry]
  <2>1. IsCache'
      BY <1>3 DEF CacheInv, IsCache
  <2>2. ASSUME NEW i \in DOMAIN Tokenizer, NEW s \in State, ~Tokenizer[i].contextual,
               i \in Mask[s], tokens'[i].mask = Mask[s]
        PROVE  tokens'[i].token = Read(i, tokens'[i].start, s, tokens'[i].context)
    <3>1. CASE i = index
      <4>1. tokens'[i] = entry
          BY <1>3, <3>1 DEF CacheInv, IsCache
      <4>2. Mask[s] = Mask[request.state]
          BY <2>2, <4>1
      <4>3. Read(i, TokenStart, request.state, request.context)
              = Read(i, TokenStart, s, request.context)
          BY <1>1, <2>2, <3>1, <4>2, TokenizerAssumption
      <4> QED BY <3>1, <4>1, <4>3 DEF FreshToken
    <3>2. CASE i # index
      <4>1. tokens'[i] = tokens[i]
          BY <1>3, <3>2 DEF CacheInv, IsCache
      <4> QED BY <2>2, <4>1 DEF CacheInv, Fresh
    <3> QED BY <3>1, <3>2
  <2> QED BY <2>1, <2>2 DEF CacheInv, Fresh
<1> QED BY <1>2, <1>3 DEF Store

LEMMA StepFresh == CacheInv /\ [CacheNext]_cacheVars => CacheInv'
<1> SUFFICES ASSUME CacheInv, [CacheNext]_cacheVars PROVE CacheInv'
    OBVIOUS
<1>1. CASE CacheAsk
    BY <1>1 DEF CacheInv, IsCache, Fresh, CacheAsk, Ask, GetActions
<1>2. CASE CachePass
    BY <1>2 DEF CacheInv, IsCache, Fresh, CachePass, Passed
<1>3. CASE Miss
  <2>1. index \in Mask[request.state] /\ request' = request
      BY <1>3, ConsiderKeeps DEF Miss, Remaining
  <2> QED BY <1>3, <2>1, StoreFresh DEF Miss
<1>4. CASE Hit
    BY <1>4, ConsiderKeeps DEF CacheInv, IsCache, Fresh, Hit
<1>5. CASE CacheConclude
    BY <1>5 DEF CacheInv, IsCache, Fresh, CacheConclude, Conclude
<1>6. CASE UNCHANGED cacheVars
    BY <1>6 DEF CacheInv, IsCache, Fresh, cacheVars, selection
<1> QED BY <1>1, <1>2, <1>3, <1>4, <1>5, <1>6 DEF CacheNext

\* What TokenCache keeps for a tokenizer stays what the tokenizer would read
\* again, for every stack that finds it by its start, mask and context.
THEOREM FreshTheorem == CacheSpec => []Fresh
<1>1. CacheInv => Fresh
    BY DEF CacheInv
<1> QED BY <1>1, InitFresh, StepFresh, PTL DEF CacheSpec

\* A step with the cache and the filter is a step without them.
LEMMA StepSelects ==
    CacheInv /\ [CacheNext]_cacheVars => [SelectionNext]_selection
<1> SUFFICES ASSUME CacheInv, [CacheNext]_cacheVars PROVE [SelectionNext]_selection
    OBVIOUS
<1>1. CASE CacheAsk
    BY <1>1 DEF CacheAsk, SelectionNext
<1>2. CASE CachePass
  <2>1. CASE index \notin Mask[request.state] \/ ~Eligible(index)
      BY <1>2, <2>1 DEF CachePass, Pass, SelectionNext
  <2>2. CASE index \in Mask[request.state] /\ Eligible(index)
    <3>1. index \in Filtered /\ NextChar[TokenStart] \notin StartSet[index]
        BY <1>2, <2>2 DEF CachePass, Remaining
    <3>2. /\ request.state \in State
          /\ request.context \in Context
          /\ TokenStart \in Position
        BY RequestParts DEF CacheInv
    <3>3. FreshToken(index).value = Error
        BY <3>1, <3>2, TokenizerAssumption DEF FreshToken
    <3>4. Run
        BY <1>2, <2>2, <3>3 DEF CachePass, Run, Consider, Declined, Raised, Error
    <3> QED BY <3>4 DEF SelectionNext
  <2> QED BY <2>1, <2>2
<1>3. CASE Miss
    BY <1>3 DEF Miss, Run, Remaining, SelectionNext
<1>4. CASE Hit
  <2>1. index \in Mask[request.state] /\ index \in DOMAIN Tokenizer /\ request.state \in State
      BY <1>4, RequestParts, SelectionAssumption DEF Hit, Remaining, CacheInv
  <2>2. tokens[index].token = FreshToken(index)
      BY <1>4, <2>1 DEF Hit, Stale, CacheInv, Fresh, FreshToken
  <2> QED BY <1>4, <2>1, <2>2 DEF Hit, Run, SelectionNext
<1>5. CASE CacheConclude
    BY <1>5 DEF CacheConclude, SelectionNext
<1>6. CASE UNCHANGED cacheVars
    BY <1>6 DEF cacheVars
<1> QED BY <1>1, <1>2, <1>3, <1>4, <1>5, <1>6 DEF CacheNext

\* get_actions offers every stack the tokens and actions it would be offered if
\* all its tokenizers read the text for it alone: the detailed specification
\* with cache and start filter implements the one without.
THEOREM CacheIsInvisible == CacheSpec => SelectionSpec
<1>1. CacheInit => SelectionInit
    BY DEF CacheInit
<1> QED BY <1>1, InitFresh, StepFresh, StepSelects, PTL DEF CacheSpec, SelectionSpec
-----------------------------------------------------------------------------
(* What a call offers.                                                     *)

Entry == [action : Action, token : Nat, end : Nat]

\* add_actions only adds entries, and they carry the term it was called for.
LEMMA OfferAppends ==
    ASSUME request.state \in State, NEW offered \in Seq(Entry), NEW term \in Nat, NEW end \in Nat
    PROVE  \E new \in Seq(Entry) : /\ Offer(offered, term, end) = offered \o new
                                   /\ \A k \in DOMAIN new : new[k].token = term
<1> DEFINE known == [k \in DOMAIN offered |-> offered[k].action]
           all == Visit(Visit(known, ActionRow[request.state], ActionElse[request.state], term),
                        SkipRow[request.state], SkipElse[request.state], term)
           new == SubSeq(all, Len(known) + 1, Len(all))
           entries == [k \in DOMAIN new |-> [action |-> new[k], token |-> term, end |-> end]]
<1>1. known \in Seq(Action) /\ Len(known) = Len(offered)
  <2>1. /\ DOMAIN offered = 1 .. Len(offered) /\ Len(offered) \in Nat
        /\ \A k \in DOMAIN offered : offered[k] \in Entry
      OBVIOUS
  <2>2. \A entry \in Entry : entry.action \in Action
      BY DEF Entry
  <2> QED BY <2>1, <2>2
<1> HIDE DEF known
<1>2. all \in Seq(Action) /\ Len(all) >= Len(known)
    BY <1>1, LookUpAdds
<1>3. Offer(offered, term, end) = offered \o entries
    BY DEF Offer, known
<1> HIDE DEF all
<1>4. new \in Seq(Action)
    BY <1>1, <1>2
<1> HIDE DEF new
<1>5. entries \in Seq(Entry) /\ \A k \in DOMAIN entries : entries[k].token = term
  <2>1. DOMAIN new = 1 .. Len(new) /\ Len(new) \in Nat /\ \A k \in DOMAIN new : new[k] \in Action
      BY <1>4
  <2>2. \A k \in DOMAIN new : [action |-> new[k], token |-> term, end |-> end] \in Entry
      BY <2>1 DEF Entry
  <2> QED BY <2>1, <2>2
<1> QED BY <1>3, <1>5

\* The terms whose actions a token offers.
Terms(token) ==
    {Value(token)} \cup (IF SpecialOf(token).kind = "extend" THEN {SpecialOf(token).term} ELSE {})

\* An element of two joined sequences is an element of one of them.
LEMMA ConcatElement ==
    ASSUME NEW p \in Seq(Entry), NEW q \in Seq(Entry)
    PROVE  \A k \in DOMAIN (p \o q) : \/ \E i \in DOMAIN p : (p \o q)[k] = p[i]
                                     \/ \E i \in DOMAIN q : (p \o q)[k] = q[i]
<1> SUFFICES ASSUME NEW k \in DOMAIN (p \o q)
             PROVE  \/ \E i \in DOMAIN p : (p \o q)[k] = p[i]
                    \/ \E i \in DOMAIN q : (p \o q)[k] = q[i]
    OBVIOUS
<1>1. /\ DOMAIN p = 1 .. Len(p) /\ Len(p) \in Nat
      /\ DOMAIN q = 1 .. Len(q) /\ Len(q) \in Nat
      /\ k \in 1 .. (Len(p) + Len(q))
    OBVIOUS
<1>2. CASE k <= Len(p)
  <2>1. k \in DOMAIN p /\ (p \o q)[k] = p[k]
      BY <1>1, <1>2
  <2> QED BY <2>1
<1>3. CASE ~(k <= Len(p))
  <2>1. k - Len(p) \in DOMAIN q /\ (p \o q)[k] = q[k - Len(p)]
      BY <1>1, <1>3
  <2> QED BY <2>1
<1> QED BY <1>2, <1>3

LEMMA OfferedAppends ==
    ASSUME request.state \in State, actions \in Seq(Entry), NEW token,
           token.end \in Nat, Terms(token) \subseteq Nat
    PROVE  \E new \in Seq(Entry) : /\ Offered(token) = actions \o new
                                   /\ \A k \in DOMAIN new : new[k].token \in Terms(token)
<1>1. Value(token) \in Nat
  <2>1. Value(token) \in Terms(token)
      BY DEF Terms
  <2> QED BY <2>1
<1>2. CASE SpecialOf(token).kind = "extend"
  <2>1. SpecialOf(token).term \in Nat
      BY <1>2 DEF Terms
  <2>2. PICK new1 \in Seq(Entry) :
               /\ Offer(actions, SpecialOf(token).term, token.end) = actions \o new1
               /\ \A k \in DOMAIN new1 : new1[k].token = SpecialOf(token).term
      BY <2>1, OfferAppends
  <2>a. actions \o new1 \in Seq(Entry)
      BY <2>2
  <2>3. PICK first \in Seq(Entry) : first = actions \o new1
      BY <2>a
  <2>4. PICK new2 \in Seq(Entry) :
               /\ Offer(first, Value(token), token.end) = first \o new2
               /\ \A k \in DOMAIN new2 : new2[k].token = Value(token)
    <3>1. \A v, e \in Nat : \E new \in Seq(Entry) :
               /\ Offer(first, v, e) = first \o new
               /\ \A k \in DOMAIN new : new[k].token = v
        BY OfferAppends
    <3> QED BY <1>1, <3>1
  <2>5. Offered(token) = first \o new2
      BY <1>2, <2>2, <2>3, <2>4 DEF Offered
  <2>6. Offered(token) = actions \o (new1 \o new2)
      BY <2>2, <2>3, <2>4, <2>5
  <2>7. new1 \o new2 \in Seq(Entry)
      BY <2>2
  <2>8. \A k \in DOMAIN (new1 \o new2) : (new1 \o new2)[k].token \in Terms(token)
    <3>0. new1 \in Seq(Entry) /\ new2 \in Seq(Entry)
        BY <2>2, <2>4
    <3>1. {SpecialOf(token).term, Value(token)} \subseteq Terms(token)
        BY <1>2 DEF Terms
    <3>2. \A k \in DOMAIN (new1 \o new2) :
              \/ \E i \in DOMAIN new1 : (new1 \o new2)[k] = new1[i]
              \/ \E i \in DOMAIN new2 : (new1 \o new2)[k] = new2[i]
        BY <3>0, ConcatElement, Zenon
    <3> QED BY <2>2, <2>4, <3>1, <3>2, Zenon
  <2> QED BY <2>6, <2>7, <2>8
<1>3. CASE SpecialOf(token).kind # "extend"
  <2>1. PICK new \in Seq(Entry) :
               /\ Offer(actions, Value(token), token.end) = actions \o new
               /\ \A k \in DOMAIN new : new[k].token = Value(token)
      BY <1>1, OfferAppends
  <2>2. Offered(token) = Offer(actions, Value(token), token.end)
      BY <1>3 DEF Offered
  <2>3. \A k \in DOMAIN new : new[k].token \in Terms(token)
      BY <2>1 DEF Terms
  <2> QED BY <2>1, <2>2, <2>3
<1> QED BY <1>2, <1>3

\* The loop over the tokenizers, for every number of them.
LoopInv ==
    /\ request \in Request
    /\ index \in 0 .. Last + 1
    /\ actions \in Seq(Entry)

\* Where no tokenizer of the state extends, the first new action ends the loop.
NoneExtends ==
    \A i \in Mask[request.state] :
        ~Tokenizer[i].extend /\ SpecialOf(FreshToken(i)).kind # "extend"
OneTerm == NoneExtends =>
    /\ main = None \/ index \in 1 .. Last => actions = << >>
    /\ \A k \in DOMAIN actions : actions[k].token = main[1].value

SelectionInv == LoopInv /\ OneTerm /\ OnlyValid

LEMMA LoopInit == SelectionInit => SelectionInv
<1> SUFFICES ASSUME SelectionInit PROVE SelectionInv
    OBVIOUS
<1>1. Last \in Nat
    BY SelectionAssumption DEF Last
<1> QED BY <1>1 DEF SelectionInit, SelectionInv, LoopInv, OneTerm, OnlyValid

\* What a tokenizer of the state reads for the request.
LEMMA TokenParts ==
    ASSUME LoopInv, NEW i \in Mask[request.state]
    PROVE  /\ request.state \in State /\ i \in DOMAIN Tokenizer
           /\ FreshToken(i) \in Token
           /\ SpecialOf(FreshToken(i)) \in Special
           /\ Taken(FreshToken(i)) => Terms(FreshToken(i)) \subseteq Nat
<1>1. /\ request.state \in State /\ request.context \in Context
      /\ TokenStart \in Position
    BY RequestParts DEF LoopInv
<1>2. i \in DOMAIN Tokenizer
    BY <1>1, SelectionAssumption
<1>3. FreshToken(i) \in Token
    BY <1>1, <1>2, SelectionAssumption DEF FreshToken
<1>4. SpecialOf(FreshToken(i)) \in Special
    BY <1>1, <1>2, SelectionAssumption DEF FreshToken, SpecialOf
<1>5. ASSUME Taken(FreshToken(i)) PROVE Terms(FreshToken(i)) \subseteq Nat
    BY <1>3, <1>4, <1>5 DEF Taken, Terms, Value, Token, Special
<1> QED BY <1>1, <1>2, <1>3, <1>4, <1>5

\* A step over a tokenizer offers what is offered, or joins the entries of its
\* token, or ends the parse.
LEMMA RunStep ==
    ASSUME LoopInv, Run
    PROVE  /\ index \in 1 .. Last /\ index \in Mask[request.state]
           /\ UNCHANGED request
           /\ \/ Passed
              \/ index' = 0 /\ main' = None /\ actions' = << >>
              \/ /\ Accept(FreshToken(index)) /\ Taken(FreshToken(index))
                 /\ ~Rejected(FreshToken(index))
                 /\ \E new \in Seq(Entry) :
                       /\ Offered(FreshToken(index)) = actions \o new
                       /\ \A k \in DOMAIN new : new[k].token \in Terms(FreshToken(index))
<1> DEFINE token == FreshToken(index)
<1>1. index \in 1 .. Last /\ index \in Mask[request.state] /\ Consider(token)
    BY DEF Run
<1>2. CASE EndParse("error") \/ EndParse("syntax")
    BY <1>1, <1>2 DEF EndParse
<1>3. CASE Passed
    BY <1>1, <1>3 DEF Passed
<1>4. CASE Taken(token) /\ ~Rejected(token) /\ Accept(token)
  <2>1. token.end \in Nat /\ Terms(token) \subseteq Nat /\ request.state \in State
      BY <1>1, <1>4, TokenParts DEF Token
  <2>2. actions \in Seq(Entry)
      BY DEF LoopInv
  <2>3. \E new \in Seq(Entry) : /\ Offered(token) = actions \o new
                                /\ \A k \in DOMAIN new : new[k].token \in Terms(token)
      BY <2>1, <2>2, OfferedAppends
  <2> QED BY <1>1, <1>4, <2>3 DEF Accept
<1> QED BY <1>1, <1>2, <1>3, <1>4 DEF Consider

\* After the last tokenizer, the end of the text may add its actions.
LEMMA ConcludeStep ==
    ASSUME LoopInv, Conclude
    PROVE  /\ index = Last + 1 /\ index' = 0 /\ UNCHANGED request
           /\ \/ UNCHANGED <<actions, main>>
              \/ /\ main = None /\ main' # None /\ main'[1].value = Eof
                 /\ \E new \in Seq(Entry) : /\ actions' = actions \o new
                                            /\ \A k \in DOMAIN new : new[k].token = Eof
<1>1. CASE main = None /\ TokenStart = InputEnd
  <2>1. Eof \in Nat /\ TokenStart \in Nat /\ request.state \in State
    <3>1. TokenStart \in Position /\ request.state \in State
        BY RequestParts DEF LoopInv
    <3>2. Position \subseteq Nat
        BY SelectionAssumption
    <3>3. Eof \in Nat
        BY GrammarAssumption DEF Eof
    <3> QED BY <3>1, <3>2, <3>3
  <2>2. \E new \in Seq(Entry) : /\ Offer(actions, Eof, TokenStart) = actions \o new
                                /\ \A k \in DOMAIN new : new[k].token = Eof
      BY <2>1, OfferAppends DEF LoopInv
  <2>3. main' # None /\ main'[1].value = Eof /\ actions' = Offer(actions, Eof, TokenStart)
      BY <1>1 DEF Conclude, None
  <2> QED BY <1>1, <2>2, <2>3 DEF Conclude
<1>2. CASE ~(main = None /\ TokenStart = InputEnd)
    BY <1>2 DEF Conclude
<1> QED BY <1>1, <1>2 DEF Conclude

LEMMA LoopStep == ASSUME LoopInv, SelectionNext PROVE LoopInv'
<1>1. Last \in Nat
    BY SelectionAssumption DEF Last
<1>2. CASE Ask
    BY <1>1, <1>2 DEF Ask, GetActions, LoopInv
<1>3. CASE Pass
    BY <1>1, <1>3 DEF Pass, Passed, LoopInv
<1>4. CASE Run
  <2>1. CASE Passed
      BY <1>1, <1>4, <2>1, RunStep DEF Passed, LoopInv
  <2>2. CASE index' = 0 /\ actions' = << >>
      BY <1>1, <1>4, <2>2, RunStep DEF LoopInv
  <2>3. ASSUME Accept(FreshToken(index)), NEW new \in Seq(Entry),
               Offered(FreshToken(index)) = actions \o new
        PROVE  LoopInv'
    <3>1. index' \in 0 .. Last + 1 /\ request' = request
        BY <1>1, <1>4, <2>3, RunStep DEF Accept, NextIndex
    <3>2. actions' \in Seq(Entry)
        BY <2>3 DEF Accept, LoopInv
    <3> QED BY <3>1, <3>2 DEF LoopInv
  <2> QED BY <1>4, <2>1, <2>2, <2>3, RunStep
<1>5. CASE Conclude
  <2>1. actions' \in Seq(Entry)
    <3>1. CASE UNCHANGED actions
        BY <3>1 DEF LoopInv
    <3>2. ASSUME NEW new \in Seq(Entry), actions' = actions \o new PROVE actions' \in Seq(Entry)
        BY <3>2 DEF LoopInv
    <3> QED BY <1>5, <3>1, <3>2, ConcludeStep
  <2> QED BY <1>1, <1>5, <2>1, ConcludeStep DEF LoopInv
<1> QED BY <1>2, <1>3, <1>4, <1>5 DEF SelectionNext

LEMMA OneTermStep == ASSUME LoopInv, OneTerm, SelectionNext PROVE OneTerm'
<1> SUFFICES ASSUME NoneExtends'
             PROVE  /\ (main = None \/ index \in 1 .. Last => actions = << >>)'
                    /\ (\A k \in DOMAIN actions : actions[k].token = main[1].value)'
    BY DEF OneTerm
<1>1. Last \in Nat
    BY SelectionAssumption DEF Last
<1>2. CASE Ask
    BY <1>2 DEF Ask, GetActions
<1>3. ASSUME request' = request
      PROVE  /\ NoneExtends
             /\ main = None \/ index \in 1 .. Last => actions = << >>
             /\ \A k \in DOMAIN actions : actions[k].token = main[1].value
    BY <1>3 DEF OneTerm, NoneExtends, SpecialOf, FreshToken, TokenStart
<1>4. CASE Pass
  <2>1. actions = << >> /\ actions' = actions
      BY <1>3, <1>4 DEF Pass, Passed
  <2> QED BY <2>1
<1>5. CASE Run
  <2> DEFINE token == FreshToken(index)
  <2>1. actions = << >> /\ index \in Mask[request.state] /\ NoneExtends
      BY <1>3, <1>5, RunStep
  <2>2. CASE Passed
      BY <2>1, <2>2 DEF Passed
  <2>3. CASE actions' = << >>
      BY <2>3
  <2>4. ASSUME Accept(token), NEW new \in Seq(Entry), Offered(token) = actions \o new,
               \A k \in DOMAIN new : new[k].token \in Terms(token)
        PROVE  /\ (main = None \/ index \in 1 .. Last => actions = << >>)'
               /\ (\A k \in DOMAIN actions : actions[k].token = main[1].value)'
    <3>1. Terms(token) = {Value(token)} /\ ~Tokenizer[index].extend
        BY <2>1 DEF NoneExtends, Terms
    <3>2. actions' = new /\ Offered(token) = new
        BY <2>1, <2>4 DEF Accept
    <3>3. main' # None /\ main'[1].value = Value(token)
        BY <2>4, <3>1 DEF Accept, None
    <3>4. new # << >> => index' = Last + 1
        BY <2>1, <2>4, <3>1, <3>2 DEF Accept, NextIndex
    <3> QED BY <1>1, <2>4, <3>1, <3>2, <3>3, <3>4
  <2> QED BY <1>5, <2>2, <2>3, <2>4, RunStep
<1>6. CASE Conclude
  <2>1. CASE UNCHANGED <<actions, main>>
      BY <1>3, <1>6, <2>1, ConcludeStep
  <2>2. ASSUME main = None, main' # None, main'[1].value = Eof, NEW new \in Seq(Entry),
               actions' = actions \o new, \A k \in DOMAIN new : new[k].token = Eof
        PROVE  /\ (main = None \/ index \in 1 .. Last => actions = << >>)'
               /\ (\A k \in DOMAIN actions : actions[k].token = main[1].value)'
    <3>1. actions = << >>
        BY <1>3, <1>6, <2>2, ConcludeStep
    <3>2. actions' = new
        BY <2>2, <3>1
    <3> QED BY <1>1, <1>6, <2>2, <3>2, ConcludeStep
  <2> QED BY <1>6, <2>1, <2>2, ConcludeStep
<1> QED BY <1>2, <1>4, <1>5, <1>6 DEF SelectionNext

\* A term that an action of the request may carry in strict mode.
ValidTerm(term) ==
    \/ term = Eof
    \/ \E i \in Mask[request.state] :
          LET token == FreshToken(i)
          IN  /\ Taken(token) /\ ~Invalid(token)
              /\ term \in {Value(token), SpecialOf(token).term}

TermsOf(entries) == {entries[k].token : k \in DOMAIN entries}

LEMMA OnlyValidStep == ASSUME LoopInv, OnlyValid, SelectionNext PROVE OnlyValid'
<1>1. Strict => \A term \in TermsOf(actions) : ValidTerm(term)
    BY DEF OnlyValid, ValidTerm, TermsOf
<1>2. ASSUME Strict => \A term \in TermsOf(actions') : ValidTerm(term)' PROVE OnlyValid'
  <2>1. \A k \in DOMAIN actions' : actions'[k].token \in TermsOf(actions')
      BY DEF TermsOf
  <2> QED BY <1>2, <2>1 DEF OnlyValid, ValidTerm
<1>3. ASSUME request' = request, NEW term PROVE ValidTerm(term)' <=> ValidTerm(term)
    BY <1>3 DEF ValidTerm, Taken, Declined, Value, SpecialOf, FreshToken, TokenStart
<1>4. CASE actions' = << >>
    BY <1>4 DEF OnlyValid
<1>5. CASE actions' = actions /\ request' = request
    BY <1>1, <1>2, <1>3, <1>5
<1>6. ASSUME request' = request, NEW new \in Seq(Entry), actions' = actions \o new,
             Strict => \A k \in DOMAIN new : ValidTerm(new[k].token)
      PROVE  OnlyValid'
  <2>1. TermsOf(actions') \subseteq TermsOf(actions) \cup TermsOf(new)
    <3>1. ASSUME NEW k \in DOMAIN actions' PROVE actions'[k].token \in TermsOf(actions) \cup TermsOf(new)
      <4>1. CASE k \in DOMAIN actions
        <5>1. actions'[k] = actions[k]
            BY <1>6, <4>1 DEF LoopInv
        <5> QED BY <4>1, <5>1 DEF TermsOf
      <4>2. CASE k \notin DOMAIN actions
        <5>1. k - Len(actions) \in DOMAIN new /\ actions'[k] = new[k - Len(actions)]
            BY <1>6, <4>2 DEF LoopInv
        <5> QED BY <5>1 DEF TermsOf
      <4> QED BY <4>1, <4>2
    <3> QED BY <3>1 DEF TermsOf
  <2>2. Strict => \A term \in TermsOf(new) : ValidTerm(term)
      BY <1>6 DEF TermsOf
  <2> QED BY <1>1, <1>2, <1>3, <1>6, <2>1, <2>2
<1>7. CASE Run
  <2> DEFINE token == FreshToken(index)
  <2>1. CASE Passed
      BY <1>5, <2>1 DEF Passed
  <2>2. CASE actions' = << >>
      BY <1>4, <2>2
  <2>3. ASSUME Accept(token), Taken(token), ~Rejected(token), NEW new \in Seq(Entry),
               Offered(token) = actions \o new, \A k \in DOMAIN new : new[k].token \in Terms(token)
        PROVE  OnlyValid'
    <3>1. ASSUME Strict, NEW k \in DOMAIN new PROVE ValidTerm(new[k].token)
      <4>1. Len(Offered(token)) > Len(actions)
          BY <2>3, <3>1 DEF LoopInv
      <4>2. ~Invalid(token)
          BY <2>3, <3>1, <4>1 DEF Rejected
      <4>3. index \in Mask[request.state]
          BY <1>7, RunStep
      <4>4. new[k].token \in {Value(token), SpecialOf(token).term}
          BY <2>3, <3>1 DEF Terms
      <4> QED BY <2>3, <4>2, <4>3, <4>4 DEF ValidTerm
    <3> QED BY <1>6, <2>3, <3>1 DEF Accept
  <2> QED BY <1>7, <2>1, <2>2, <2>3, RunStep
<1>8. CASE Conclude
  <2>1. ASSUME NEW new \in Seq(Entry), actions' = actions \o new,
               \A k \in DOMAIN new : new[k].token = Eof
        PROVE  OnlyValid'
      BY <1>6, <1>8, <2>1, ConcludeStep DEF ValidTerm
  <2> QED BY <1>5, <1>8, <2>1, ConcludeStep
<1>9. CASE Pass
    BY <1>5, <1>9 DEF Pass, Passed
<1> QED BY <1>4, <1>7, <1>8, <1>9 DEF SelectionNext, Ask, GetActions

LEMMA SelectionInvariant == SelectionInv /\ [SelectionNext]_selection => SelectionInv'
<1>1. CASE SelectionNext
    BY <1>1, LoopStep, OneTermStep, OnlyValidStep DEF SelectionInv
<1>2. CASE UNCHANGED selection
    BY <1>2 DEF selection, SelectionInv, LoopInv, OneTerm, OnlyValid, NoneExtends, Taken,
                Declined, Value, SpecialOf, FreshToken, TokenStart
<1> QED BY <1>1, <1>2

\* Where no tokenizer of the state extends, every action of a call belongs to
\* its main token, for every number and order of tokenizers that decline, have
\* no action or stand in as a fallback.
THEOREM OneReadingTheorem == CacheSpec => []OneReading
<1>1. SelectionInv => OneReading
    BY DEF SelectionInv, LoopInv, OneTerm, NoneExtends, OneReading
<1>2. SelectionSpec => []OneReading
    BY <1>1, LoopInit, SelectionInvariant, PTL DEF SelectionSpec
<1> QED BY <1>2, CacheIsInvisible, PTL

\* In strict mode no action stands for a token that a validator rejects, for
\* every specialization and with the cache.
THEOREM OnlyValidTheorem == CacheSpec => []OnlyValid
<1>1. SelectionInv => OnlyValid
    BY DEF SelectionInv
<1>2. SelectionSpec => []OnlyValid
    BY <1>1, LoopInit, SelectionInvariant, PTL DEF SelectionSpec
<1> QED BY <1>2, CacheIsInvisible, PTL
=============================================================================
