# A formal model of Rezel's parser

Rezel compiles grammars to LR tables and interprets them with an error-recovering
GLR parser that builds lossless concrete syntax trees. This directory holds TLA+
modules translated from its source, the TLC configurations that check them on
small grammars and texts, and theorems checked by the TLA+ proof system.

All paths below are relative to the repository root.

## 1. Inventory

Build time and run time meet in one place, the table. The generator turns a
grammar into actions, gotos and token groups; a language crate embeds them; the
run time (`rezel-lr`) interprets them over an input and hands a postfix buffer to
`rezel-common`, which builds the tree that cursors, highlighting and mixed parsing
walk.

| component | state it keeps | operations | what is hard | what makes it correct |
|---|---|---|---|---|
| parse scheduler, `rezel-lr/src/parse.rs` (`Parse`) | live stacks, `recovering`, `stopped_at`, `min_position`, counters, large-reduction tracker | `advance` (= `step`), `stop_at` | several stacks advanced in turn, pruning while walking, recovery that changes stacks outside the table, limits counted in several loops, calls after the end | recognizes the language, always gives a tree, moves on with each call, ends, picks the best reading, respects limits |
| parse stack, `rezel-lr/src/stack.rs` (`Stack`) | LR frames, postfix buffer (frozen chunks and local tail), score, two positions, context | `reduce`, `shift`, `store_node`, `split`, `recover_by_delete`, `recover_by_insert`, `force_reduce`, `restart` | nodes that sink below skipped records, errors that merge, prefixes shared between siblings, zero-width frames | the buffer is a postfix tree in source order, shared records never change |
| tables, `constants.rs`, `action_index.rs`, `goto_index.rs` | immutable | action, goto, default and forced reduction look-ups | filters, loose and strict gotos | the index answers as a scan of the table would |
| token cache, `parse.rs:1297-1611` (`TokenCache`) | one cached token per token group, main token, mask, context | `get_actions`, `update_cached_token` | one cache for all stacks | as if every stack tokenized afresh |
| tokenizers and input stream, `token.rs` | cursor over selected ranges, current chunk, token, look-ahead | `advance`, `reset`, `accept_token`, group and local and external tokenizers | gaps between ranges, fallback tokens, else tokens | tokens do not depend on chunking; positions stay in ranges |
| requests and inputs, `rezel-common/src/parse.rs` | immutable | range validation, `advance`/`stop_at` protocol | gaps, nested requests | ranges sorted, disjoint, inside the input |
| mixed parsing, `rezel-common/src/mix.rs` | base parse, nested jobs, overlay scopes | `advance`, `stop_at`, overlay collection | order of nested parses, stop points across them, failures | each nested tree is mounted on its node, over its ranges |
| trees and cursors, `rezel-common/src/tree.rs` | immutable trees; a cursor's path | build, balance, next/previous/enter/move_to | packed buffers, anonymous nodes, overlays | next and previous are inverse; balancing keeps the leaves |
| props, typed views, identifiers | immutable | look-ups | none | |
| highlighting, `rezel-highlight` | one open span | walk | overlays, opaque rules | spans ordered and disjoint |
| generator, `rezel-generator` | rules, LR states, token NFA/DFA | grammar reader, builder, `automaton.rs`, `token.rs`, emitters | conflict resolution, state collapse, DFA construction | tables accept the grammar's language |
| languages, tools | tables, external tokenizers | | | |

The behaviours this code makes hard, with the lines where they bite and the
properties that watch them, are the `hazards` of `PROJECT.json`.

## 2. Modules

```
Grammar  <-  ParseStack  <-  Parse  <-  ParseProperties  <-  MCLanguages, ScheduleProofs
Grammar, NumberProofs  <-  GrammarProofs  (with ParseStack)  <-  ParseStackProofs  <-  ScheduleProofs
Grammar  <-  TokenSelection  <-  TokenCache  <-  MCTokens, TokenProofs
TokenTable  <-  CharacterStream                              (abstract)
            <-  InputStream  <-  InputLooks  <-  MCInput     InputLooks => CharacterStream
NumberProofs, InputStream  <-  InputProofs
TreeWalk                                                     (abstract)
SyntaxTree  <-  TreeBuild                  <-  TreeReader  <-  MCTrees
            <-  TreeCursor  <-  SyntaxNode <-  TreeReader => TreeWalk
MixedTree                                                    (abstract)
SyntaxTree  <-  TreeCursor  <-  MixedParse  <-  HighlightProperties  <-  MCMixed
                            <-  Highlight   <-    MixedParse => MixedTree
Ranks  <-  Collapse, Simplify  <-  Automaton  <-  AutomatonLanguage  <-  TokenGroups  <-  MCAutomaton
NumberProofs, Automaton  <-  AutomatonProofs  <-  MergeProofs
TokenTable (INSTANCE)  <-  TokenDfa  <-  TokenGroups
```

`<-` is EXTENDS, `=>` is a refinement that a run checks.

### The parser

* `Grammar`: the tables as the run time reads them. An action is a record
  (`kind`, `value`, `depth`), an action row a sequence of `<<term, action>>`, a
  goto column its exceptions and a default. `ActionsFor` is `add_actions` (action
  row, then skip row), `AllActions`, `ValidAction` and `NextStates` the look-ups of
  `ParserCore`, `GetGoto` the loose and the strict goto. `GrammarAssumption` holds of
  emitted tables: gotos lead to states, which `validate_language` checks, and so do
  shifts, which it leaves to the generator; a default action reduces.
* `ParseStack`: one stack is a record, each method of `Stack` an operator from
  stack to stack. The frozen chunks and the local tail form one sequence of
  records; `base` says how much of it is frozen, `branch` where the stack's own
  part starts (`buffer_len`). A failing method sets `err`.
* `Parse`: the scheduler as a state machine. A call of `advance` is cut into
  one action per iteration of each loop of `step`, `advance_stack`,
  `advance_fully` and `run_recovery`; `pc` is the loop that runs:

  | `pc` | code | actions |
  |---|---|---|
  | `idle` | between two calls | `Advance`, `StopAt`, `Dropped` |
  | `forceLarge`, `forceLargeCheck` | `force_large_left_associative_reduction` | `ForceLarge`, `ForceLargeAgain`, `ForceLargeDone` |
  | `pending` | the loop of `step`, then its decision | `NextPending`, `Finish`, `Reject`, `Decide` |
  | `advance` | `advance_stack`, and the comparison after it | `Moved`, `StopForce`, `ReduceByDefault`, `StartCut` |
  | `cut` | the deep-stack loop | `Cut` |
  | `choose` | the actions of the token | `Stuck`, `ActAlone`, `ActLast`, `SplitAction` |
  | `moved`, `stuck` | what the caller does with the stack | `KeepAdvanced`, `KeepStopped`, `FullyAdvanced`, `FullyStuck` |
  | `recover`, `force`, `insert`, `inserted` | `run_recovery` | `RecoverNext`, `ForceStopped`, `ForceEnough`, `InsertStopped`, `AdvanceInserted`, `DeleteToken`, `FinishForced`, `RecoverDone` |
  | `forceAll` | `force_all` on the finished stack | `ForceAll`, `ForcedTree` |
  | `prune` | the end of `step` | `StartPairs`, `Prune`, `NoLiveStack` |
  | `pairs` | the two loops of `prune_equivalent`, at the indices `pair` | `NextLeft`, `KeepBoth`, `DropRight`, `DropLeft` |

  An operation that fails, and a counter that passes its limit, end the call at
  once (`Counted`, `Abort`), as `?` does. `Return` drops every stack because
  `step` has taken them out of the parse before it can fail.
* `ParseProperties`: the properties. `ScheduleProofs`: theorems, on lemmas
  about the look-ups (`GrammarProofs`), the stack operations (`ParseStackProofs`) and finite
  sets of numbers (`NumberProofs`).
* `MCLanguages`: the tables the generator emits for seven small grammars, joined into
  one with a top rule for each, with the texts over each alphabet (`Inputs`) and,
  written independently, the texts each grammar derives (`Language`).

### Tokens and the input

* `TokenSelection`: what `get_actions` promises. For each stack that asks
  (`request`), the tokenizers of its state run in order, each reading the text
  afresh, until one settles the main token and the actions: one action per
  iteration of the loop, with specialization, strict validation, the `extend` and
  `fallback` flags and the errors that end the parse. `TokenCache` is what the
  code does: `tokens` holds one cached token per tokenizer for all stacks (`Hit`,
  `Miss`), and `Remaining` is the start filter of `TokenizerStartIndex`. Its
  property `SelectionSpec` says that it implements the first; the variables of
  the first are its own, so the refinement mapping is the identity. What a
  tokenizer reads is the parameter `Read`, with the contract the documentation of
  the tokenizer flags states (`TokenizerAssumption`).
* `CharacterStream`: what a tokenizer is promised of the input. The selected text is
  one sequence of logical characters, the stream is a place in it, and `Reset`,
  `Advance`, `AdvanceAscii`, `ReadToken` and `ReadLocal` are defined on that sequence.
* `InputStream`: what `token.rs` does. `stream` holds the fields of `InputStream`:
  the cursor (range and byte), the identity chunk, the window on it, the cached
  `next`, the token and its look-ahead; `windowAt` is `window_source_position`. The
  moves have the fast paths of the code (`advance_one`, `advance_general`,
  `advance_ascii_while` over the window, `refresh_next`), and `ReadToken` and
  `ReadLocal` are `read_token` and `read_local_token` on a table of `TokenTable`.
  `broken` collects the names of the debug assertions that failed, `selected` and
  `end` are history. A text is a function from the positions characters start at. What
  the code does in a loop is a number of rounds (`After`) that is large enough for each
  text: once a loop is over, a round changes nothing.
* `InputLooks`: what the stream shows, `lookahead`, `lookbehind`, `peek`, `previous`, the
  clipped positions and `read_scalar`, none of which changes it, and the properties.
  `StreamSpec` is the refinement: `Place` counts the selected characters in front of the
  cursor. `InputProofs`: theorems about the stream.
* `TokenTable`: a token automaton as a function from state and code point to a state,
  with `overrides` and `contextual` acceptance.

### Trees and mixed parsing

* `SyntaxTree`: trees, packed buffers, mounts, `balance` and `materialize`. A child
  and its position are one record. `ReadNode` is the ordered tree a reader is meant to
  see, in which buffers, anonymous nodes and replacement mounts have no place.
* `TreeBuild`: `CompactTreeBuilder`, from a postfix buffer read backwards: packing
  (`find_buffer_size`, `pack_node`), repeats cut into leaves and balanced, flat leaves
  below `MaxDepth`.
* `TreeCursor`, `SyntaxNode`: the moves of `TreeCursor` and of `SyntaxNode`, which have
  code of their own, as operators on the path they keep.
* `TreeWalk`: what a reader promises: it stands at a path in a plain ordered tree and
  each request moves it to the node it names, or leaves it where it is.
* `TreeReader`: a tree is built (`Init`), perhaps balanced, materialized or mounted on
  (`Open`), then read: `Ask` and `Answer` are one request, `Convert` goes from cursor to
  node and back. `PlaceOf` maps a cursor to the path of `TreeWalk`.
* `MixedTree`: what a mixed parse promises as a `PartialParse`.
* `MixedParse`: `mix.rs` as a state machine. `base` and `baseStop` are the base parse,
  `stop` is `stopped_at`, `walk` is the loop state of the collection (cursor, jobs, the
  two stacks of scopes), `stage` the loop that runs:

  | `stage` | code | actions |
  |---|---|---|
  | `idle` | between two calls | `StopAt`, `Advance`, `AdvanceGone`, `TakeBase` |
  | `look` | one node of the walk: pick, cover, predicate, materialize | `Look` |
  | `leave` | the loop that looks for the next node and leaves scopes | `Leave` |
  | `mount` | the nested parses in the order of the jobs | `Mount`, `InnerFails`, `Complete` |

* `Highlight`: `rezel-highlight`. The walk carries the cursor and the builder of spans;
  `Visit` is `visit_node`, `Children` and `ChildRange` go through the children of a node,
  `Overlay` and `Sections` take turns between the children of a host (`Outside`) and the
  tree laid over it (`Inside`). A sheet is the list of entries given to `style_tags`.
* `HighlightProperties`: what comes out of a mixed parse is highlighted. The reference
  finds the style of one position on the way from the root down to it.

### The generator

* `Ranks`: the members of a set of numbers in ascending order, by their rank; what the code
  filters or sorts stably is stated with it.
* `Simplify`: `simplify_rules` of `build.rs`: inlining in passes (`FindInlineable`,
  `ExpandRule`), then `merge_rules`, on rules with a conflict marker before, between
  and after their parts.
* `Collapse`: `collapse_automaton`. `mapping` and `groups` are the partition, `memo` the
  `CollapseMemo` (a stamp for each state, the stamp of each pair found compatible),
  `scan` the loop variables of a pass; one action compares one pair (`Compare`,
  `CompareTarget`, `Spill` and the steps between groups and passes).
* `Automaton`: the whole way. `stage` goes through `inline`, `equal` (`InlineRules`,
  `MergeRules`), `first` (one action per pass over the rules), `states` (`AddStartState`,
  `StartFilling`, `AddGoto`, `AddShift`, `AddReduction`, `CloseState`; `filling` is the
  state being filled), `tokens` (the states get token groups, any ones: `AssignTokens`,
  `RefuseTokens`), `collapse`, `merge` and `identical`.
* `AutomatonLanguage`: the texts a grammar derives, the texts an automaton accepts.
* `TokenDfa`: `token.rs` and the token expressions of `build.rs`: expressions to edges
  (`BuildExpression` and the operators beside it), `TokenNfa::compile`, `minimize`,
  `find_conflicts`, `to_table`, and `read_token` on the table (with `TokenTable`). A state
  of the compiled automaton is the set of states it stands for.
* `TokenGroups`: which groups `Automaton` gets. `tokens` holds what the builder knows of
  the tokens, `tokens.phase` says how far it is:

  | `phase` | code | actions |
  |---|---|---|
  | `unread`, `expressions` | `take_token_precedences`, `get_token`, `build_token_rule` | `ReadLexicon`, `BuildToken` |
  | `compile`, `minimize` | `TokenNfa::compile`, `minimize`, `reject_zero_length_token` | `StartCompile`, `CompileStates`, `StartMinimize`, `MinimizePass`, `Minimize` |
  | `conflicts` | `main_token_conflicts` | `FindTokenConflicts` |
  | `assign` | the loop of `assign_main_token_groups` | `AssignGroup`, `StartOrder` |
  | `order` | the loop of `build_precedence_table`, then `to_table` | `PlaceToken`, `WriteTokens` |
  | `ready`, `refused` | back in `prepare` | `Continue` |

  A step of it is a step of `Automaton` or leaves the variables of `Automaton` alone, so
  what is proved of `Automaton` for any token groups holds for these.
* `AutomatonProofs`, `MergeProofs`: theorems. `MCAutomaton`: the grammars and the lexicons.

### Abstractions

* Text in `Parse`: every character is one position wide and starts at most one token.
  `Lex` gives its term, or `Error` where the token group declines. States with an
  empty tokenizer mask read no token. One selected range from 0 to the end.
  Gaps and wide or translated characters are `InputStream`'s.
* `Parse` asks for tokens as if every stack tokenized afresh, which is what
  `TokenCache` is shown to do.
* Sizes and offsets count records where the code counts `u32` words, four to a
  record; `MIN_BRANCH_BUFFER_LENGTH` and the record limits are scaled alike.
* A row is a list in the order in which the code's scan meets its entries. Table
  look-ups are total functions; that the compact indexes answer like this is not
  modelled.
* Left out of the stack: context trackers and their hash, the simulated stack for
  external tokenizers, look-ahead recording. Left out of tokenization in `Parse`:
  dialects, specializers, `extend` and fallback tokens, external tokenizers; none
  of its grammars uses them, and `TokenSelection` models how they are chosen from.
* Trees: a tree is a value. Where the code depends on a tree being the same
  reference (a job of `MixedParse` whose target was rebuilt) the model keeps it apart
  with `fresh`. Bracketed mounts and the exclude-buffers mode are left out.
* A nested parse is one step, `Mount` or `InnerFails`: it is handed its ranges and
  returns a tree with one leaf per range.
* The automaton: one skip set, which keeps no states apart, and no skip tokens;
  ids of terms and rules are in one order; a first-set pass reads a copy of the table
  of the pass before and every nonterminal derives some text. A merged
  state keeps cores, not positions. A reduction is named by the first rule that
  `same_reduce` makes its equal. Hash tables and `ActionIndexCache`, which only find
  things, and flags of terms are left out.
* The tokens: the main token set only. Local token groups, external tokens, token rules
  with arguments, dialects and the widths of the table are left out. A step compiles all
  states that are newly found; `get_state` order only numbers them. The actions of
  `TokenGroups` come after those that build the LR states, while the code reads the
  expressions before; they share nothing until the conflicts are looked for.
* Logging is left out.

## 3. Runs

`tlc -config <cfg> <module>`.

| run | module | shows | bounds |
|---|---|---|---|
| `languages` | `MCLanguages` | the parser on seven grammars, with the code's own thresholds | texts of 3 to 5 characters, stop point 2 |
| `deep` | `MCLanguages` | the deep-stack cut, the forced large reduction, dampened insertion, budgets, termination | nested brackets with left and right recursion, small thresholds, 16 actions, 4 recoveries, stop point 2 |
| `limits` | `MCLanguages` | violation `LimitsKept` | one stack, one record |
| `tokens` | `MCTokens` | cache and start filter are invisible | three states, four tokenizers (extending, contextual, plain, fallback), keywords that replace and extend, four positions, one of them in a gap, two contexts |
| `input` | `MCInput` | the stream is a sequence of characters | texts of up to 3 characters of at most two kinds out of five (1, 2 and 3 bytes, translated or not), up to 3 ranges, characters and ranges together at most 5 |
| `input_statements` | `MCInput` | violation `StatementsKept` | one range, moves beyond the end, translated ASCII in an else run |
| `trees` | `MCTrees` | building keeps the tree, readers see the plain tree | every postfix buffer of up to 4 records, lists of up to 7 items, nests; read: up to 3 records, lists up to 4; leaf size 1, 2, 4; 3 records per buffer, 16 positions, branch factor 2 |
| `hollow` | `MCTrees` | violation `PreviousIsBefore` | one buffer of nine records |
| `mixed` | `MCMixed` | the mounted tree is the one asked for, and is highlighted as its nodes say | outer trees of up to 3 records and groups two deep, packed or not, seven ways to pick a node, four for the document, four predicates, a gap, stop points 2 and 20; two style sheets, two highlighters, all of the text and a part of it |
| `mixed_gaps` | `MCMixed` | violation `InnerInPlace` | ranges that start in a gap |
| `automaton` | `MCAutomaton` | from grammar and tokens to merged tables | 310 grammars in seven families, texts of 5 tokens; 200 lexicons for each of four grammars, three code points, texts of 3, two token groups |
| `grammars_lost` | `MCAutomaton` | violation `Recognizes` | the hidden-name family and three more grammars |

Why these bounds are enough to be interesting.

* Parser: the thresholds of the code (`CUT_DEPTH` 2800, `MAX_NEXT` 4,
  `MIN_LARGE_REDUCTION_SPAN` and the like) are the real ones in `languages`; `deep`
  replaces them by ones that short texts pass. The alphabet of each grammar includes a
  character no token starts with where deletion of unreadable text matters. Length 3 to
  5 reaches recovery after recovery, recovery of split stacks and recovery at the end of
  the input. `MaxResults` bounds how often a caller asks again after the parse has
  ended; it is the only bound that is not a parameter of the code. `Dropped` is the
  caller that drops the parse then.
* Input: three characters and three ranges give a character before, in and after every
  kind of range, empty ranges, ranges that touch, gaps before, between and after; every
  chunk starts at a translated character or at the edge of a range.
  Two constants are preconditions: `Overruns = FALSE` keeps `advance` within the text,
  `EscapedAscii = FALSE` keeps translated ASCII out of else runs. `input_statements`
  lifts them and finds what they hide.
* Trees: the packing limits are so small that the same shapes are packed whole, in
  parts and not at all; seven items balance into two levels. Larger buffers are built
  and checked but only the small ones read. `MCReads` leaves out hollow trees (a buffer
  without records), which `hollow` shows to be misread.
* Mixed: groups two deep put a picked node inside a picked node inside a picked
  document, with the outer one replaced, overlaid or asking by predicate; a group with a
  token behind it and gaps between the tokens has children of a host that go on behind a
  section of the overlay, which the highlighting must come back to. The sheets have each
  mode, contexts that reach into and out of overlays, and tags that host and inner tree
  share. `Allowed`
  leaves out ranges that start in a gap; `mixed_gaps` adds them.
* Automaton: *contexts* (192 grammars) have two names with the same texts told apart
  only by what is around them, up to three contexts and at the beginning or the end of
  the names, so the collapse must spill, and a spill must undo merges of predecessors
  made passes before; *expressions* (64) two operators with every precedence and
  associativity, or ambiguity; *repetitions*, *optional*, *cuts*; *helpers* (36) hidden
  names to inline and to merge. A text of five tokens passes through every rule of
  them. The passing family contains none of the three shapes of `grammars_lost`.
* Tokens: two overlapping tokens (literals, a repetition, an inverted set, a recursive
  rule) and one that ends at the end of the input are expected in one state, in two, in a
  third one together, or behind a name whose states have one core but must not be merged;
  with five sets of declarations, one of them cyclic, with and without an explicit
  conflict and a specialized token. Three code points give a range, its neighbour and a
  third one; a text of three reaches every state of these automata and goes round every
  cycle. All five refusals happen, with `MaxTokenGroups` 2 where the code has 16 bits.
  The other grammars have nine tokens that do not overlap.

Each passing run has for each of its properties a mutant of the code, kept beside the
definition it alters (`Mutant:` in the comments), under which the property fails.

### Properties

* *Buffer*: `PostfixOrder` (subtrees nest, open frames begin between subtrees),
  `SequenceCovering` (a node covers its subtree, siblings in source order; checked on
  the grammar where no recovery inserts a zero-width node in front of skipped text),
  `FrozenSettled`, `FramesOrdered`.
* *Scheduler*: `NoneBehind`, `Progress` (a call that does not end the parse moves
  `min_position` up), `AlwaysATree`, `OverIsOver`, `TreeReachesEnd`, `NoTwins`,
  `WithinBudget`, `Terminates`.
* *Language*: `Recognizes` of `ParseProperties` (a derived text parses with neither an
  error node nor a recovery action, any other text gets an error node, or is rejected in
  strict mode), `BestDerivation` (the reading with the highest dynamic precedence).
* *Tokens*: `SelectionSpec` (cache and start filter are invisible), `Fresh` (a
  cached token is what would be read again for each stack that can hit it),
  `OneReading` (without extensions all actions of a stack belong to its main token),
  `OnlyValid` (in strict mode no action of a rejected token). `tokens` lets the stacks
  ask in every order, which is more than the scheduler does.
* *Input*: `StreamSpec` (the refinement), `LooksAgree` (next, previous, peek and the two
  iterators, each with its own fast path, show the same characters), `PositionsAgree`
  (a position in a gap belongs to the character behind it, whoever clips it),
  `AssertionsHold`.
* *Trees*: `BuildKeeps` (the built tree reads like the postfix buffer), `BuffersFit`,
  `WalkSpec` (the refinement: every request, in every packing, mode and mount).
* *Mixed*: `MixedSpec` (the refinement), `ScopesMatch` (the depth counters of the two
  stacks of scopes, which go up and down in four places, say where the cursor is),
  `StopsAgree`, `Returns`.
* *Highlighting*: `SpansTagText` (each position has the tags of the nodes it is in, with
  the longest context first, handed down and closed as the rules say, by the inner tree
  where one is laid over it), `ClassesMarkText` (its classes, by highlighters that are for
  some tops only; spans end only where classes change).
* *Token groups*: `TokensAsDeclared` (every merged state reads each text in its group as
  the declarations of its tokens say, by a matcher that works on the expressions: a token
  expected there is not lost to one that is only expected elsewhere, the longer match wins
  unless a declaration is against it; and tokens are refused as overlapping only where one
  state expects two that are).
* *Automaton*: `Sound`, `MemoHonest`, `SkipHonest` (what the collapse skips because it
  was looked at passes ago is still so), `NoNewConflict`, `Recognizes` of
  `AutomatonLanguage` (the tables accept the texts of the grammar as written),
  `SameLanguage` (collapsing and merging change nothing of what is accepted),
  `Finishes`.

### Fairness

* `FairSpec` of `Parse` has weak fairness of `Advance \/ Step`: a call of `advance` runs
  to its end in one thread, and `run_to_completion` (`rezel-common/src/parse.rs`) calls
  it until it returns a tree or an error. The caller owes no `stop_at`.
* `CallsRun` of `MixedParse` is weak fairness of the steps of a call under way: one of
  them can always be taken. Written without ENABLED, it is a disjunction of
  temporal formulas. Whether the caller calls again is left open, so `Returns` says only
  that a call that has started returns.
* `Spec` of `Automaton` has `WF_vars(Next)`, and `TokenSpec` has the like with the
  tokens: the generator is one sequential program.
* The token, input and tree modules claim no liveness: each step is a call that the
  caller may or may not make. Their runs, and those of `MixedParse` and `Automaton`,
  switch the deadlock check off because a caller may stop and a generator ends.

### Findings

What the code does otherwise than it, its comments or its docs say; the lines are quoted
in `PROJECT.json`.

1. `limits`: after a recovery step more than `max_stacks` stacks stay live; a shift
   records its term without looking at `max_buffer_records`.
2. `hollow`: a repeat of unnamed tokens is packed into a buffer without records, and
   `previous_sibling` beside it returns true without moving.
3. `input_statements`: a local group resets into the middle of a translated ASCII
   character; `advance(n)` over the end leaves the window behind; an else run that the
   end of the input ends is dropped.
4. `mixed_gaps`: an overlay range that starts in a gap between the selected ranges puts
   its tree at the start of the gap.
5. `grammars_lost`: a short hidden name inside a name declared inline, three hidden names
   with the same rules, and a node that is always empty in two places each make the
   generator lose texts without an error.

Met while reading, and not the subject of a run: a term that has an action
does not stop the search for tokens if an extending tokenizer offered the same action
before, and a fallback tokenizer overrides it (`parse.rs:1460` against
`docs/adding-a-language/04-language-adapters.md:171`); `merge_states` takes the default
reduction of the first state merged without comparing it with the others';
`retain_compatible_gotos` drops gotos of terms that are only ever empty; two top rules
with the same content leave one without a state; a literal without characters inside a
token makes no edge (`build.rs:2837`), so what contains it matches nothing; a token that no
state expects any more, because a precedence took its action away, belongs to every token
group and may hide others (`token_group_masks`); `combine_rule_sets` (`style.rs:190`)
merges rules sorted deepest first by taking the shallower head, so that a default of one
source hides a deeper rule of a later one.

## 4. Proofs

`tlapm <module>.tla`, for each of `ScheduleProofs`, `TokenProofs`, `InputProofs`,
`AutomatonProofs`, `MergeProofs` and the modules of lemmas (`NumberProofs`, `GrammarProofs`,
`ParseStackProofs`). The theorems about the parser hold for all
tables, texts, stop points and limits that `GrammarAssumption` and `ParseAssumption` admit,
those about tokens for every set of tokenizers that keeps its contract, those about the
input stream for every text, all selected ranges and all token tables, those about the
automaton for every grammar that `AutomatonAssumption` admits and every choice of token
groups.

### ScheduleProofs

The control of the scheduler alone, in the first part of the module:

* `OverIsOverTheorem == Spec => []OverIsOver`. The property alone is not
  inductive: it says what a later call returned, not why. `DrainedInv` adds that once
  a call has ended the parse, `stacks` is empty between calls, and inside a later
  call every work list is empty and `pc` is `pending` or `prune`, so such a call
  can only reach `Reject` or `NoLiveStack`.
* `WithinBudgetTheorem == Spec => []WithinBudget`. `BudgetInv` adds that the counters
  never move after the parse has ended (no counted action is enabled in a drained
  call, which is why it stands on `DrainedInv`).

These two need nothing of what a stack operation computes: they rest on the
control of the scheduler alone (`Counted`, `Return`, the guards on `pc`), so no lemma
opens a definition of `ParseStack`. There is one step for each action of `Next`,
grouped by what they have in common: `Returns` (the call ends) and `GoesOn`.

Where the stacks are, in the second:
`TypeOKTheorem`, `NoneBehindTheorem`, `TreeReachesEndTheorem` and `NoTwinsTheorem` state
that `Spec => []P`, `ProgressTheorem` that `Spec => Progress`, an action property.

None of the properties is inductive, and none can be had without the others. That a stack
in `advanced` is beyond `min_position` depends on where the loop found it, which may be the
caller `advance_fully` on a copy that recovery keeps in its locals; that a call moves on is
the statement that the survivors come from `advanced`; and that no operation leaves the
tables depends on every stack having come from one by operations. `ScheduleInv` is the
conjunction of six parts, each of which says where stacks are by list and by phase:

* `DrainedInv`, from the first part: nothing is left after the call that ended the parse.
* `ControlInv`: which loop runs for whom; `from` is `min_position` throughout a step.
* `ListsInv`: live and pending stacks are at or beyond `min_position` (`Onward`), those in
  `advanced` beyond it (`Ahead`), those in `stopped` at it (`Here`); `pending` is empty
  outside the loop over it.
* `CurInv`: where the stack under way is. In the middle of `advance_stack` it stands where
  the step began; it has moved only when the loop has noticed (`moved`).
* `WorkInv`: the copies that `run_recovery` keeps. The stopped stack and its inserted
  siblings are at `min_position`, and so is the forced one while it is being forced; the
  end of the token is not behind it.
* `DoneInv`: the finished stack `step` may return is at the end of the text.

An operation either keeps its stack's position (`Stays`) or, a shift and a deletion, does not
move it back; `ParseStackProofs` has one lemma for each operation of `Stack`. They rest on
`Whole`: the frozen part of the buffer is not longer than the buffer, so that what is split
off, sunk below or cut is there. `FindForcedReduction` walks over the states of the table
with a list of open branches. `FindForcedReductionType` shows that the walk ends with an
action: a walk without a result that has the fewest states left to see, and among those the
shortest list, would be followed by one with less. `InsertCandidatesType` and the lemmas of
`GrammarProofs` show that what rows and columns yield are states.

`NoTwinsTheorem` adds `PairsInv`: while the two loops of `prune_equivalent` run, no pair in
front of (`left`, `right`) is one of rivals. It holds although members are removed under way,
since what is removed is at or behind the first index: the pairs already compared stay in
front, and a row that lost its left member is started again.

### TokenProofs

`FreshTheorem == CacheSpec => []Fresh` and `CacheIsInvisible == CacheSpec =>
SelectionSpec`. The inductive invariant `CacheInv` is `Fresh` with the shape of the
cache and of the request. A miss keeps it because two stacks that agree on start,
mask and context are indistinguishable to a tokenizer that is not contextual; a
hit is a fresh read by it; a filtered tokenizer is one that would have declined.
These two facts about tokenizers are `TokenizerAssumption`, the contract the
adapters owe by `docs/adding-a-language/04-language-adapters.md`; for the tokenizers
of `MCTokens` TLC evaluates it.

`OneReadingTheorem == CacheSpec => []OneReading`, `OnlyValidTheorem == CacheSpec =>
[]OnlyValid`. Both are invariants of the selection, which the cache implements, so they are
proved of `TokenSelection` and follow by `CacheIsInvisible`. `OneReading` needs to know that
the loop goes on only as long as nothing was offered (`OneTerm`): the first tokenizer that
adds an action settles the main token. `OnlyValid` needs to know of each action from which
tokenizer of the state it came.

### AutomatonProofs

`CollapseSound == Spec => []Sound`, `MemoSound == Spec => []MemoHonest`, `SkipSound ==
Spec => []SkipHonest`. The question is whether the collapse may skip a pair, or a whole
group, that it looked at passes ago. What it found then depended on the mapping, which
later spills have changed.

The lemma everything rests on is `Dependence`: whether two states can be merged depends
on the mapping only through the groups of the states that the two lead to. A spill moves
one state and stamps all states with a transition to it; so a pair with both stamps older
than its entry leads to nothing that has moved since, and the entry still holds.

`AutomatonInv` is inductive: `Closed` (every transition leads to a state),
`Grouped` (groups and mapping describe the same partition), `Unscanned`, and during the
collapse `CollapseInv`: `Stamped` (the next stamp is above all others), `Remembering`
(each entry not older than the stamps of its pair is true under the mapping of now),
`Validating` (a group whose signature is that of now has only compatible pairs),
`Scanned` (in the group under scan, the pairs left of the loop variables are known to the
memo), `Comparisons` and `Passing` (a pass without a conflict so far leaves only validated
groups behind it, so the pass that ends the collapse has validated all). `Closed` needs
the construction of the states: every goto is added with its target.
The proof does not need the revision of the membership in the signature: whatever
changes the members of a group also clears its signature.

### MergeProofs

`AutomatonTyped == Spec => []AutomatonType` and `NoConflictOfMerging == Spec =>
[]NoNewConflict`. Conflicts are judged when `add_action` fills the states, and never again:
one that the collapse brought in would not be reported, and the parser would split on it. The
theorem says that there is none: two actions on one term that a merged state has, one of its
states had, where they were judged. It speaks of what `merge_states` makes;
`merge_identical` afterwards joins states whose actions are the same.

Both are for every grammar that `AutomatonAssumption` admits: its rules name a nonterminal,
their parts are symbols of the vocabulary, each rule has a marker before, between and after
its parts, and there are finitely many ambiguity groups. `define_rule`
(`build.rs:1345`) makes rules in this way only.

The argument for `NoNewConflict`: say a merged state has two actions on one term, and the
group has states `s` and `t` that the two come from. If `s` and `t` are the same state, it has
both itself (`TwoOfOne`): one action is not mapped to two. If not, `s` and `t` are compatible
when the merging begins (`Sound`). `can_merge` lets two states act differently on a term only
where one of them has several actions on it; otherwise what the two do there is the same under
the mapping, and `DistinctOf` keeps it once (`ToldApart`, `TogetherFaithful`). The invariant is `AutomatonInv`, `AutomatonType` and

* `Placed`: from the start of the merging on, `mapping` leads each state to a group.
* `Merged`: there are as many merged states as groups only if no pass of `merge_identical`
  has taken one away, and then every state is `Faithful` to its group.

`AutomatonType` is what the argument needs of the states: their actions have a term, a target
that is a state or a rule that exists, and an order in which no two are alike. Without the
last a state's sorted list of actions need not hold each once, and `DistinctOf` of the mapped
lists need not find what is the same. It is not inductive for free either:

* A rule put in the place of a name stays a rule; the passes of `inline_rules` are folds of
  folds, so the lemmas on the model's own recursions (`StepByStep`, `FlattenSeq`) come first.
* `closure` is defined by recursion on a finite set. `IterationExists` shows that there is a
  function which satisfies the recursion, by the least family of sets closed under its steps,
  and `IterationType` that it never leaves `AllPositions`: of the sets for which it did, one
  with the fewest positions left to add would have a successor with fewer.
* `compare_actions` orders two actions by kind, term and target, and the stable sort leaves
  those that it calls equal in the order they were added in; each key is totally ordered
  (`LexicographicOrder`), so sorting a finite set by rank loses none (`SortedMembers`).

The attempt corrected the model in one place. `expand_inlined_rule` (`build.rs:4094`) finds
the conflicts of a part by its outer position although earlier parts have been replaced, and
an empty replacement pushes two markers and no part, so a simplified rule may have more
markers than places between its parts. `RuleType` therefore says only that there are more
markers than parts, which is what
the states rely on when they take the one at the dot.

### InputProofs

`StreamInOrder == Spec => []InOrderStream` and `AssertionsTheorem == Spec => []AssertionsHold`,
both where `~Overruns` and `~EscapedAscii`. The two conditions are what the run
`input_statements` shows to be needed: past the end `advance` forgets the next character and
leaves the window behind, and `next_position` takes a translated ASCII character for one byte.
`InputAssumption` says that texts are characters behind each other, that a plain ASCII
character takes one byte, and that the targets of a token table are states of it. Nothing is
assumed of the number of ranges; they are sorted, disjoint and may be empty or touch.

`AssertionsHold` says only that nothing has failed yet. What is inductive is `Steady`:

* `Intact`: chunk and window hold characters that are spelled as they are (`PlainSpan`), the
  window lies in one selected range (`InOneRange`), a kept character is the one where it was
  found (`Remembered`), the cursor is inside a range or is the end cursor (`Stands`), and the
  token does not start behind it.
* `InStep`: a window that is not used up stands where the cursor stands.
* `Shown`: the next character is the one at the cursor.

`Intact` holds in the middle of an operation too, the other two only between them:
`refresh_next` restores both from any intact stream (`RefreshNextSteady`), and the fast paths
that do not call it have to argue for themselves. Moving in the window by some bytes
(`InWindowSteady`) is the one that needs the ranges: the cursor may only be put at the end
of the window because the window ends in the range of the cursor, which follows from
`InOneRange` and the ranges being disjoint (`WindowInRange`); and that it is then at the start
of a character needs every byte of the run to be a plain one (`StretchBoundaries`). That
boundaries inside a range are starts of characters is `CharacterInside`. Loops are rounds, so
that `RoundsExist` and `RoundsStay`, on `StepByStep` of `NumberProofs`, take the place of
induction: there is one set of states per loop (`MovedStates`, `ReadStates`, `LocalStates`)
that a round does not leave.

### Only model-checked

* Liveness: `Terminates`, `Returns`, `Finishes`. No prover here does fairness.
* What does not hold for every table. `PostfixOrder`, `SequenceCovering`, `FrozenSettled` and
  `FramesOrdered` need tables in which a reduction is as deep as the frames below it, which
  `GrammarAssumption` does not ask for: an empty anonymous production inside a skip rule
  pushes a frame that starts before the one below it, and an empty repetition right after a
  restart ends before the error in front of it. `PostfixOrder` needs besides that no skipped
  subtree straddles the end of a node that sinks below it. `Recognizes` and
  `BestDerivation` compare with the language of a given grammar; `AlwaysATree` depends on
  which states have gotos.
* What is computed by recursion over data: the trees and their builder, cursors and walks,
  what the stream shows ahead and behind, highlighting, token automata, derivation.
  `BuildKeeps`, `BuffersFit`, `StreamSpec`, `LooksAgree`, `PositionsAgree`, `WalkSpec`,
  `MixedSpec`, `ScopesMatch`, `StopsAgree`, `SpansTagText`, `ClassesMarkText`,
  `TokensAsDeclared`, `SameLanguage` and `Recognizes` of `AutomatonLanguage` stand on RECURSIVE
  operators, which the prover cannot take.

## 5. What is not modelled, and the plan

Modelled in part, with what is left out in the note of its component in `PROJECT.json`:
every component above but those below. Not modelled:

* The compact action and goto indexes, table decoding and validation: stateless
  encodings of functions.
* Node properties, typed views, identifiers: look-ups of immutable data.
* The grammar reader, the emitters, the binary format and the repository tools: text in,
  text out.
* Most lines of the repository are generated tables, typed views and lowering code of the
  eight languages (`languages/*/src/typed.rs`, `generated.rs`, `ast/lower.rs`). They hold
  no control of their own, and what the tables mean is `Grammar`; the languages'
  hand-written tokenizers are modelled by their contract, `TokenizerAssumption`.

Next, in this order:

1. Tables as an LR automaton yields them (a reduction is as deep as its rule is long) as an
   assumption of its own, and under it `FramesOrdered` and `FrozenSettled` as theorems on
   the lemmas of `ParseStackProofs`.
2. The stop points of `MixedParse` as a module without recursion, for `StopsAgree`.
3. What the token automaton leaves out of the generator's token builder: local token
   groups, skip tokens and external tokens; `GotoIndex` and `ActionIndex` against a scan.
