# A verification development for the PII tokenization policy

The policy is a filter for an API gateway (Rust, compiled to WASM). On the way
out it replaces the sensitive values of a request body by *masks* of the same
format and remembers the pairs in a *vault* that lives as long as the exchange;
on the way back it puts the originals in place of the masks. This directory
holds TLA+ models of that program, TLC runs that check them on small instances,
and TLAPS proofs that hold for every instance. The code is the reference: where
its comments or documents say something else, the difference is a run of its
own (see *Disagreements*).

Paths below are relative to the repository (`src/mask.rs`, `README.md`, ...).

## 1. Inventory

| Component | State it keeps | Operations | Hard behaviours |
| --- | --- | --- | --- |
| Vault (`src/mask.rs`) | pairs, index by original, masks issued, fallback counter, truncation counter, generator | `new`, `empty`, `mask_value` (five ways out) | collisions of draws, exhausted formats, the cap reached in the middle of a body, enrolling and non-enrolling calls mixed |
| Matcher (`src/matcher.rs`) | per call: spans, cursor, output | `mask_request`, `mask_response`, `rewrite`, `resolve_overlaps` | overlapping, touching, nested, equal, empty matches; two sides with different rules |
| JSON walker (`src/json_walk.rs`) | per call: stack of contexts, ranges | `collect_value_ranges`, `transform_value_ranges` | key or value; a scanner beside a parser; the length guard of a leaf |
| Unmasking (`src/unmask.rs`) | per call: automaton over the masks | `unmask_text` | purely textual replacement in a body the upstream wrote |
| Filters (`src/lib.rs`) | configuration (shared, constant), `RequestState` handed from one handler to the other | `request_filter`, `response_filter`, `mask_body`, `transform_response` | two awaits, cancelled requests, size limits on both sides, failing `set_body`, content types |
| Configuration (`configure` in `src/lib.rs`, `src/config.rs`) | `PolicyConfig`, built once | decoding, `from_raw`, `compile_rule`, `merge_static_values` | two places of refusal, numeric bounds, defaults, formats of the bulk values |
| Catalog (`src/catalog.rs`) | none: a constant table | `lookup` | none |
| Generated configuration (`src/generated`) | none: the structures a configuration is decoded into | none | required and optional fields |

How they interact: the gateway calls `request_filter` with the headers; the
filter awaits the body and hands it to the matcher, directly or leaf by leaf
through the JSON walker; the matcher calls `Vault::mask_value` once per match it
keeps; the masked body goes upstream and the vault goes to `response_filter`
inside `RequestData`. That handler awaits the response, lets the matcher apply
the rules of scope `response`, lets `unmask_text` replace the masks, and sets the
new body. One exchange is handled by one task and shares nothing with another
but the constant configuration, so the concurrency is that of the handlers with
the gateway: bodies that arrive later or never, early answers, resets.

What makes each component correct:

- *Vault*: pairs one to one, but for a token that an earlier value had drawn; index and collision set in step with the pairs; an
  enrolled value keeps its mask; the cap is never exceeded and what it costs is
  counted; a mask never shows an earlier original.
- *Matcher*: the matches kept never overlap and are the leftmost-longest-first
  selection; the output is the input with exactly those masked.
- *JSON walker*: its scanner follows the parser through every JSON body, finds all
  string and number values and no key, and nothing else is rewritten.
- *Exchange*: what was masked comes back, with no mask, part of a mask or text
  across two words taken for another mask; what
  goes upstream in clear is accounted for; the pairs are frozen once sent.
- *Filters*: a response is unmasked only if its request was masked and really
  sent so, and then always, but for reasons that can be named; bodies that should be left alone are.
- *Configuration*: exactly the legal ones are loaded, with limits in range; static
  values are merged without loss.

The hazards these properties are for are listed, with their lines, in
`PROJECT.json`.

## 2. Modules

| Module | Models | Composes |
| --- | --- | --- |
| `Pseudonyms` | what the vault promises, with no word on how: a dictionary of pseudonyms | |
| `Vault` | `src/mask.rs` | implements `Pseudonyms` |
| `Matcher` | `src/matcher.rs` | |
| `RoundTrip` | the bodies of one exchange: `mask_body`, `transform_response`, the leaf guard, `unmask_text`, `generate_fp` | `Vault` |
| `Filter` | the two handlers of `src/lib.rs` | |
| `JsonGrammar` | the JSON `serde_json` accepts (external) | |
| `JsonWalk` | `src/json_walk.rs` | `JsonGrammar` |
| `Config` | `configure` up to the launch, `src/generated/config.rs`, `src/config.rs` and the lookup of `src/catalog.rs` | |
| `VaultProofs`, `MatcherProofs`, `FilterProofs` | theorems about `Vault`, `Matcher` and `Filter` | |
| `RoundTripProofs` | theorems about `RoundTrip` | `VaultProofs`, `Flattening` |
| `JsonGrammarProofs`, `JsonWalkProofs` | lemmas about the parser, theorems about `JsonWalk` | |
| `ConfigProofs` | theorems about `Config` | `Flattening` |
| `Flattening` | induction over numbers, and lemmas about sequences joined together | |
| `MCVault`, `MCMatcher`, `MCRoundTrip`, `MCJsonWalk`, `MCConfig` | the small instances TLC checks (`Filter` is finite as it stands) | |

Operators whose comment begins with "Variant:" are not part of a model: each is
a definition of the model with a plausible bug, and shows that a property would
notice it (`PROJECT.json`, "mutants").

### Vault

A text is an element of `Texts`; its characters do not matter, only the texts
`FP(t)` that `generate_fp` can return for it. A draw of the generator is a choice
from `FP(t)`: the seed comes from the clock and the body, and no property depends
on it. `entries`, `by_original`, `seen_masks`, `fallback_counter` and
`truncations` are the fields of the struct; positions count from 1. `log` is a
history variable with every call and its answer. `mask_value` leaves by five
ways, which are five actions: `Reuse` (98-100), `DrawOnly` (101-103), `Refuse`
(104-107), `IssueDraw` (one of the sixteen draws is accepted) and
`IssueFallback` (none is). The retry loop is one step: no one sees the vault
between two draws. `t \in FP(t)` holds for every text, because each character may
be redrawn as itself, so a fallback is always possible; for a text without
letters or digits it is the only outcome.

A token is issued without a comparison (`mask.rs:127`), and a text of the request
may be spelled like one. This is in the model: `Texts` may hold tokens, and the
only assumption about them is that two tokens differ. What can go wrong is then
stated as an exception of the properties. A value of a token's format may draw the
token that another value is issued later, and two pairs share a mask; a value
spelled like a token may be enrolled before that token is issued, which is then a
mask and an original; and a value may be issued the very token it is spelled
like. Nothing of this can happen to a draw that was accepted, which
`OneToOne`, `MaskIsNoEarlierOriginal` and `PassedThroughCounted` say by naming
the tokens they except.

`Pseudonyms` is the abstract specification: `Recall`, `Redact`, `Refuse`,
`Assign` and `Encode` on one function `dict`. `Assign` enters a value with a
pseudonym nobody has and that is no value entered so far; `Encode` enters it
with a code, which another value may have only if the code is of that value's
format. `Vault` implements it under
`dict[o] = entries[by_original[o]].mask`, with the tokens for codes.

### Matcher

A text is its length, a match a pair of offsets, a rule its place in the
configuration and its scope. `FindIter` is the contract of the two crates'
iterators (leftmost first, no overlap, an empty match not right behind another):
each rule may have any such set of matches. The three loops of `rewrite` and
`resolve_overlaps` are stepped one iteration at a time: `Collect`, then `Drop` /
`Keep` on the least match left in the order of the sort, then `Emit`; `NoMatch`
and the early return for an empty text or an empty configuration end early. The
output is a sequence of pieces of the input with what was done to each, so the
properties speak of bytes without holding any.

### RoundTrip

A body is a sequence of pieces, cut where matches begin and end; a piece has its
text, the scope of the rule that matched it (or none) and the JSON leaf it is
in. A text is a sequence of characters, and `Vault` is instantiated with the
draws that `generate_fp` makes of them: a lower-case letter becomes any, an
upper-case letter any, a digit any, and every other character stays (`FpChar`;
the arms of `fp_char` that look at the data type keep what the last arm keeps as
well). `MaskPiece` is one iteration of the rebuilding loop with its call of
`Vault!MaskValue`; `Send` applies the length guard of `transform_value_ranges`
leaf by leaf if the body was read as JSON; `Respond` is the upstream, which may
answer with any body made of texts it was sent and texts of its own;
`RemaskPiece` is a match of a rule of scope `response`, and `Deliver` is the pass
of `unmask_text` over the characters of the whole body: at each place the longest
mask that begins there gives way to its original, else one character is copied. `DeliverMasked` is
the early return of `unmask_text` when its automaton cannot be built
(`unmask.rs:22-24`): the response goes out with its masks, unlogged, in the phase
`unbuilt`. Of two pairs with the same mask the older one is found.

`RoundTrips` is about this pass. The pieces the upstream put together are known
to the model and not to the code. If no mask begins in a piece that was not sent
for a value, and no longer mask begins where one was put (`Unambiguous`), the
client gets exactly the pieces with the values back in their places: that masks
occur inside longer masks, and are spelled from the end of one mask into the
next, does no harm, since the search is leftmost-longest and goes on behind what
it replaced. Without the premise the code cannot know. The property takes the
response after the rules of scope `response` have gone over it: a value that was
enrolled and is matched by such a rule gets its mask (`mask.rs:98`) and is then
unmasked, so the client sees it in clear. It is stated for requests in which no
value to be enrolled has the format of a token (`NoneLikeToken`): a mask that two
pairs share comes back as the older value, whoever it was sent for.

### Filter

The state of the two handlers over one exchange. A body is its format (JSON,
other text, not UTF-8), and whether it exceeds the limit; what becomes of it is a
record of the passes it went through. Each early return is an action; the two
awaits are states (`request_body`, `response_body`), in which the gateway may
reset the connection (`Abort`) or, for the request, answer by itself
(`AnsweredEarly`, the `RequestData` that is not `Continue`). `set_body` may fail
on either side, and so may the building of the automaton over the masks
(`failed.unmask`), which is the one way to leave masks in a response that the code
does not log.

### JsonWalk

`JsonGrammar` is the grammar of RFC 8259 as an automaton with a stack, over the
bytes that it or the scanner tells apart: two digits (zero and another), a
letter that makes an escape behind a backslash and one that does not, one byte
for a literal. A document is a body with the run of this automaton over it.
`JsonWalk` starts with a document, or with a body that
the parser refuses, and goes through it as `collect_value_ranges` does: one
action per arm of the `match`, `scan_string` and `scan_number` one byte at a time
(`Escape` is the jump of two), then `Rewrite` and `Finish` for the loop of
`transform_value_ranges`. Offsets count from 0, as in the code. `Transform(t)` is
any text the matcher might return, also of another length; in the instance it is
the text itself, the text with every digit and letter redrawn, or a longer one.
The properties compare the scanner's stack and ranges with the run of the parser
at the same offset. The rewriting with the real vault is in `RoundTrip`.

### Config

The loading of a policy. `Decode` is `serde_json::from_slice` into the generated
structures, `GeneratedConfig` and `MaskingRules0Config`: a field is `<< >>` if it
is absent or null, else the one value it holds, `Mistyped` standing for a value
of a type no field accepts. `Raw` then fills in defaults (`RawConfig::from`), and
`from_raw` is `CheckMode`, `CheckBodySize`, `CheckVaultEntries`, then
`CompileRule` for each rule, and `Load`. `Fault(r)` is the error `compile_rule`
returns, in the order of its tests. A literal value is the sequence of the words
between its commas, so that the reading of bulk texts (JSON array, lines, commas)
can be told apart without characters; words may be padded.

## 3. Runs

Run a check with `tlc -config <cfg> <module>`.

| Run | Bounds | Shows |
| --- | --- | --- |
| `vault` (`MCVault`) | 6 texts in three formats (3, 2 and 1), one of the two spelled like the first token and the other of its format, cap 2, 5 calls; symmetric in the three texts | types, `IndexConsistent`, `OneToOne`, `MaskIsNoEarlierOriginal`, `SameMaskOnceEnrolled`, `PassedThroughCounted`, refinement of `Pseudonyms` |
| `matcher` (`MCMatcher`) | texts up to 4 bytes, 3 rules, one of each scope | types, `KeptInOrder`, `KeptUnlessCovered`, `Tiling`, `MaskedAsKept` |
| `round_trip` (`MCRoundTrip`) | the values `0`, `0a` and the empty one over two letters and two digits, two values of a token's format, one of them spelled like the first token, cap 2, requests of up to 3 pieces in up to 2 leaves, responses of up to 2 pieces made of masks, values, tokens and other words | types, `ClearOnlyIfAccounted`, `RoundTrips`, `RequestLengthKept`, `PairsFrozenOnceSent` |
| `filter` (`Filter`) | none: all configurations, messages and failures | types, `UnmaskedOnlyIfMasked`, `UnmaskedUnlessExcused`, `ResponseRulesApplied`, `LeftAlone`, `HandlersEnd` |
| `json_walk` (`MCJsonWalk`) | all documents of up to 9 tokens, among them padded colons, strings with an escaped quote or an escaped letter and a number with sign, fraction and signed exponent | types, `AgreesWithParser`, `ContextsAgree`, `RangesAreLeaves`, `OnlyLeavesRewritten`, `Terminates` |
| `config` (`MCConfig`) | fields missing or mistyped, limits at and beside both ends, up to two rules with a fault of any kind, two static lists of up to two values | `TypeOK` (limits in range), `RefusedForFirstFault`, `ValuesMerged` |
| `json_walk_masked`, `matcher_longest`, `round_trip_request_scope`, `round_trip_length`, `filter_seed`, `filter_lost` | as above or smaller | the disagreements of section 5 |

Why the bounds are enough for the interesting cases. *vault*: two texts of the
same format collide, three exhaust a format of two, a text that is its own only
draw forces a token, one spelled like that token, or with it for a draw, may come
before or behind it, and with a cap of 2 and five calls the vault is filled, then
refuses, recalls and redacts. *matcher*: in four bytes two matches can overlap,
nest, touch, coincide or be empty, at both ends of the text, and a third can sit
between. *json_walk*: nine tokens are two nested containers with a member and a
second value, or three levels, so contexts are pushed and popped over values of
every kind before and behind keys (`MaxTokens`; ten tokens
take minutes). *config*: two rules let a fault stand behind a legal rule and
before another fault. *round_trip*: three pieces let a leaf hold a match with a token beside
a match with a draw, two leaves let the guard revert one and keep the other, the
cap is reached by the third value, and the response can repeat, drop or invent
masks. A value that is the beginning of another gives masks that are beginnings
of others; with two letters and two digits every format has a text besides the
value, which the draws may miss or hit, and the empty value forces a token that is
longer than what it stands for. `MaxCalls`, `MaxPieces`, `MaxLen` and `NumRules` bound the models only;
`MaxEntries` is the code's `max_vault_entries`, whose least legal value, 100, is
larger, but the proofs about the vault hold for every value.

Runs that check deadlock are none: every model stops when its exchange, its text
or its calls are over.

### Fairness

`JsonWalk!FairSpec` has weak fairness on `Next`: the walker is synchronous code
without a blocking call, so it keeps running, and its `while` loops must advance in
every arm. `Filter!FairSpec` has weak fairness
on each handler: the host polls a task that can run, and a body that is awaited is
either completed or its connection reset. Nothing is assumed of the upstream,
which may never answer, nor of the gateway's early answers and resets. The other
specifications have no fairness and only safety properties are checked on them;
the loops of `rewrite` go through finite lists.

## 4. Proofs

Every safety invariant and every action property that a run checks is also a
theorem, checked by TLAPS to the last leaf, for every value of the constants. The
assumptions are the named `ASSUME`s of the modules, which TLC evaluates on the
instances:

| Module | Assumptions |
| --- | --- |
| `Vault` | `BoundsAssumption` (the caps are numbers), `FPAssumption` (`generate_fp` keeps the format and may redraw the text itself), `FallbackAssumption` (two tokens differ; of texts spelled like tokens nothing is assumed) |
| `Matcher` | `SizesAssumption`, `ScopeAssumption` (the sizes are numbers, each rule has a scope) |
| `RoundTrip` | `BoundsAssumption`; `TextsAssumption`, which says of characters what `Vault` assumes of texts, and that a token is not empty; `BodiesAssumption` (rules match texts, nothing in an empty leaf, the leaves in their order) |
| `JsonWalk` | `DocumentsAssumption` (a document comes with the parser's run over it), `OthersAssumption` and `TransformAssumption` (other bodies and the results of the masker are bytes) |
| `Config` | `WordsAssumption` (a trimmed word is not trimmed further), `CatalogAssumption` (the unit test `every_pattern_compiles`, and no pattern is named by the empty text), `ConfigsAssumption` (what can be written: in each field a value it accepts, none, or one that it does not accept) |

`RoundTripProofs` instantiates `VaultProofs` with the masker of `RoundTrip`; the
assumptions of `Vault` are discharged by the lemma `VaultAssumed`, so nothing is
assumed twice.

*Vault*. No single property is inductive. `OneToOne`, for instance, needs that a
draw absent from `seen_masks` is absent from the pairs (half of
`IndexConsistent`). For a token it needs `TokensInUse`: each mask was drawn for
its value, or is a token with a number of at most `fallback_counter`. A pair that
already has the next token has therefore drawn it, and the token is of the format
of its value, which is the exception `OneToOne` names. That the numbers stay
within those `FallbackAssumption` speaks of needs `fallback_counter <=
Len(entries)`. The inductive invariant `Invariance` proves is the conjunction of
types, index, one-to-one, `MaskIsNoEarlierOriginal` and `TokensInUse`; it is shown
to be preserved by each of the five actions separately. The history properties
(`MasksAreStable`, `TruncationsCount`) need a second invariant that relates the
log to the pairs (`Answered`: an enrolling answer is the mask of the pair, or the
value itself and then the vault is full) and the counter to the calls refused
(`Counted`), in
`HistoryInvariance`. `Refinement` follows from the first invariant: `Reuse` maps
to `Recall`, `DrawOnly` to `Redact`, `Refuse` to `Refuse` (the cardinality of the
domain of `dict` is the number of pairs, because the index is one to one),
`IssueDraw` to `Assign` and `IssueFallback` to `Encode`.

*Matcher*. The inductive invariant says, beside the types, that what is kept is
ordered and ends at or before `cursor`, that what is left in `todo` comes after
what was looked at in the order of the sort, and that what was dropped is
covered by something kept that beats it; in the rebuilding loop, that the output
tiles the input up to `last_end` and that `last_end` is at or before the next
match, so the loop's own overlap test never fires. `GreedySelection` follows when
`todo` is empty, `OutputTilesInput` and `MasksWhatIsKept` when the loop ends.

*Filter*. The model is finite, so TLC has already seen all of it; the proofs say
why the properties hold. The invariant `Order` is the conjunction of the types and
of four facts about the order of things: nothing has happened to a body before its
handler ends (`Fresh`); what was tested before a body was awaited still holds
behind the await (`Tested`), since the configuration, the headers and
`RequestData` cannot change meanwhile; a vault with pairs belongs to a body that
was masked and really replaced (`Handed`); and the response handler ended with a
reason or did all it had to do (`Ended`). It is preserved by each handler and by
the gateway, one step per action, and implies the four safety properties without a
further look at the actions.

*RoundTrip*. `ExchangeUsesVault` says that an exchange is a run of `Vault` for the
vault's variables; `MasksOutliveTheRequest` and `ExchangeUsesDictionary` carry the
vault's theorems over to it, the refinement of `Pseudonyms` among them. The inductive invariant `IInv` holds, beside the vault's own
(`VaultInv`, with the length of every mask), what the rebuilding loop has done so
far: what was written for a piece is as long as its text or a token, and a piece
that no rule matched is as it was (`Rewrites`); what was written for an enrolled
value stands in the vault for it, or it is the value itself, the vault is full
and the value is in none of its pairs (`Enrolled`); each piece was sent as it was
masked or as it came (`SentAsMasked`); and what the client got is the scan of
`unmask_text` over the response (`Received`). The log is no longer than the pieces
rewritten, which is what lets a step of an exchange be a step of the bounded
vault. `ClearIsAlwaysAccounted` needs `Enrolled`: a pair never goes away, a full
vault stays full. `AlwaysRoundTrips` needs more than the invariant:
`UnmaskText` is a recursive function of the offset, so its existence is proved
first, and then, downwards from the last piece, that the scan stands at the
beginning of each piece and puts out its value or the piece itself. That a mask
stands for one value only is `PairsOneToOne` of the vault, whose exception needs a
value of a token's format; that every value enrolled is one the request holds
(`FromRequest`) is why the premise `NoneLikeToken` of the property rules it out.

*JsonWalk*. The scanner keeps no parse tree; the stack, the part of a number and a
few indices stand for it, and none of the properties is inductive without saying
how. The invariant says: where the main loop looks at a byte, the parser is
between two tokens, its open containers are the contexts of the stack, and the
innermost context knows whether a value or a name comes next (`Between`); inside
`scan_string` and `scan_number` the parser is in the same string or number from
its first byte on, and in the part of the number the scanner takes it for
(`InString`, `InNumber`); the bytes of leaves behind the scanner are those the
ranges cover, and ranges neither touch nor overlap (`LeavesFound`); the new body
agrees with the old one up to `last` (`Rewritten`). `JsonGrammarProofs` turns the
parser around, from the byte read to the modes it may have been in.

*Config*. The invariant says that `raw` is what was written with the defaults
(`Decoding`), that the policy holds the rules compiled so far, none at fault, and
fields within their bounds (`Accepted`), that what has been checked is legal
(`Checked`), and what each refusal says of the place it names and of all places
before it (`Refused`). It implies `RefusedForFirstFault` by way of two lemmas on the
operators: `DecodedOrMistyped` (the generated structures accept exactly what the
schema allows) and `FaultOrLegal` (`compile_rule` returns a fault exactly for a
rule the documentation does not allow). `ValuesAreMerged` is about the two
loops over lists of values, which the model writes as folds: `FoldExists` proves
that the library's `FoldLeft` exists, `MergedPrefixes` and `EntriesPrefixes` unfold
it element by element, and `Places` says for each result where its members stood
in the list. From this follow what the lists hold, that nothing is held twice and
the order.

*Induction*. The induction theorems of the library take the property as an
operator and cannot be cited here. `Flattening` proves `Induction` for a set of
numbers, from the principle of the least element (`WFMin`), which is stated for
sets; the recursive functions of the model (`FlattenSeq`, `FoldLeft`, the scan of
`unmask_text`) are reasoned about with it.

*Only model-checked*, and for good: the liveness properties (`JsonWalk!Terminates`,
`Filter!HandlersEnd`), since liveness under fairness is outside the prover's reach. That
the constants of an instance fulfil the assumptions is evaluated by TLC.

## 5. Disagreements between the code and what is said of it

Each is a run that TLC ends with a counterexample; the quotations are in
`PROJECT.json`.

- `MaskedBodyIsJson`: the content of a JSON string is masked as it is spelled. If
  the match takes in the letter of an escape, the letter is redrawn and the string
  may be no JSON any more: `Contact/Email` matches `nfoo@bar.com` in
  `"line\nfoo@bar.com"`, which may become `"line\qvke@wop.yyn"`. A number may also
  be given a leading zero; nothing is reparsed. The upstream then refuses the body.
- `LongestMatchWins`: the module's comment orders overlapping matches by length,
  equally long ones by the place of their rules, and by start offset last
  (`matcher.rs:3-4`, `10-12`); `definition/gcl.yaml:87-88` says that the first rule
  wins any span of bytes. The code, and the comment beside it (`matcher.rs:123`),
  order by start offset first: the match that starts first wins, however short and
  of whatever rule, and the rest of the other stays in clear. `KeptUnlessCovered`
  states what the code does.
- `RequestScopeStaysMasked`: a value of a rule of scope `request` comes back in
  clear if a rule of scope `both` enrolled it, and a draw that is not compared
  with anything can be, or contain, another value's mask.
- `UnmaskLengthStable`: a fallback token, issued when sixteen draws were rejected,
  has another length than its original.
- `MasksVaryAcrossRequests`: a request that is not masked hands on the vault with
  the seed zero, from which the rules of scope `response` draw; their masks are
  then the same from one exchange to the next.
- `ResponseNeverLost`: a response that is not UTF-8 can become empty.

More were met that no run is spent on. With mode `text` a JSON answer to a JSON
request is still rewritten leaf by leaf (`lib.rs:194`), where
`definition/gcl.yaml:58-59` says that `text` always works on the raw bytes. A rule
of scope `response` is said to mask its values on the way to the client
(`definition/gcl.yaml:294-295`), but a value that the request enrolled gets its
own mask (`mask.rs:98`) and is unmasked again; `RoundTrips` states this. With
`unmaskResponseBody` off the response is said to be "forwarded unchanged"
(`lib.rs:14-15`), but rules of scope `response` still change it; `LeftAlone`
states what the code does. Responses of the type `text/event-stream` are said to
be forwarded without unmasking (`definition/home.md:267-268`, `README.md:291`), but
the code looks at the content type only to tell JSON from other text, and unmasks
a stream like any other body. The comment at `mask.rs:122-124` says that unmasking
handles a token "transparently", but a token that another pair has for its mask
is unmasked to the older value. An automaton that cannot be built leaves the masks
in the response without a word in the log (`unmask.rs:22-24`), where every other
reason to leave them is logged. `mask.rs:87-88` and `README.md:113`
promise one mask per value, but a value no rule enrolls is redrawn at every match
(`DrawOnly`); the comment at `mask.rs:92` says it comes back unchanged. And
`config.rs:8` says that empty static values fail the load: an empty list does, a
list with an empty string does not, and its automaton matches everywhere.

## 6. Not modelled, and why

- The generator and its seed: every draw is possible in every state. Only whether
  a vault has a seed of its own is told apart (`Filter`).
- The failure to build the automaton of a static rule (`config.rs:247-251`): its
  values are literals, which only a limit of the crate on sizes could refuse.
- Numbers outside the range of 64-bit integers in a configuration: the decoding
  refuses them, so they count among the mistyped values of `Config`.
- Escapes `\uXXXX` in `JsonGrammar`, and that an original is enrolled in the
  spelling of the request and comes back in it, whatever the response's own is.
- Characters of more than one byte: the masker keeps them, so the lengths in bytes
  and in characters change together.
- Regular expressions and automata: external, modelled by the contract of their
  iterators. The catalog is a table of them; only its lookup is modelled.
- The depth limit of `serde_json`: a body nested too deep is one of `Others`.
- The definition, the playground, the build: no behaviour. Logging.

## 7. Plan

In this order:

1. done: `Pseudonyms`, `Vault`, `Matcher`, `RoundTrip`, `Filter`, the proofs
   about `Vault` and `Matcher`.
2. done: `JsonWalk` against `JsonGrammar`, `Config` against the documented rules.
3. done: bodies as characters in `RoundTrip` with the search of `unmask_text`
   through them, the letters of escapes in `JsonWalk`, seeds in `Filter`, the
   decoding of the configuration, the proofs about `Filter`.
4. done: the proofs about `RoundTrip`, `JsonWalk` and `Config`.
5. Next, with proofs: the safety half of termination, as measures of the loops of
   `rewrite` and of the walker that every step decreases; what the passes of
   `Filter` leave of a body, from the phases of `RoundTrip`.
