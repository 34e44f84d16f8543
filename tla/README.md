# Verification of pure-analyzer in TLA+

Specifications of the parts of `pure-analyzer` whose correctness depends on the
order of steps, on failures or on boundary arithmetic, model-checked with TLC
and, where the state machines allow it, proved with TLAPS.

## 1. The system

Two products share the repository.

* **pure-analyzer** reads Legend Pure sources and models, reports diagnostics,
  formats, fixes and compares queries. The pipeline is `lexer -> syntax ->
  parser -> model -> resolve -> analysis`, driven by `libpure` and used by a
  command line (`pure-analyzer-cli`) and a language server (`pure-analyzer-lsp`).
  `diagnostics` is the shared leaf; `render` lays out results.
* **purecard** (`pure-analyzer-purecard`) is a constrained decoder: it masks the
  tokens a language model may emit, from a pushdown automaton of the grammar
  (L1) and a scope tracker over the schema (L2).

| Component | State it keeps | Operations | What makes it correct |
|---|---|---|---|
| staged writer (`cli/workflow/write.rs`) | staging files, displaced backups, committed prefix | stage, install, restore, roll back, clean up | no edit of another program is lost; a handled failure restores; leftovers are named; a crash leaves old or new text |
| server coordinator (`lsp/server.rs`, `dispatch.rs`, `scheduler.rs`, `cancellation.rs`) | event channel, lifecycle, registry of cancellable requests, pending count | read, dispatch, schedule, complete, cancel, exit | one response per request, cancellation and staleness honoured, the session drains and ends |
| server documents (`lsp/document.rs`, `workspace.rs`, `state.rs`) | texts, versions, two revision counters, routes | open, change, save, close, configure, snapshot, publish | the server never drifts from the client; equal revisions mean equal snapshots; what is on screen is current |
| positions and edits (`lsp/document.rs`, `state.rs`) | none | UTF-16 to byte offsets and back, apply a change, minimal edit | round trips; code-unit semantics |
| fix planning (`diagnostics/fix_plan.rs`) | plan of edits per source | build, apply, preview, check | no overlap, all or nothing, independent of report order, never on changed text |
| CLI workflows (`cli/workflow/mod.rs`, `input.rs`) | none across runs | lint, fmt, fix, eq, diff, exit codes | the exit code says what happened; nothing written on a refused plan |
| configuration (`cli/config.rs`) | none | discover files, layer defaults, files, environment and flags, compile the policy | the highest layer that states a setting rules; a hidden file is not read; nothing runs on a refused layer |
| driver (`libpure/driver.rs`, `source.rs`) | source map | analyse, format, compare, in parallel | results in request order whatever the job count |
| lexer, syntax tree types | none | token kinds, typed views of the tree | losslessness |
| parsers (`parser/m3.rs`, `domain.rs`, `syntax/builder.rs`) | cursor, events, diagnostics, coverage gaps, three budgets | productions, lookahead, recovery, tree building | a tree of the whole text for every input; silent only on well-formed text |
| model loader (`model`) | elements by path, gaps | ingest PMCD and Pure, replace, materialise associations | nothing skipped becomes a closed-world answer; associations are whole |
| name resolution (`resolve`) | none | classes, generalization, members, temporal arity, navigation | what it settles is true of the sources |
| navigation analysis (`analysis/local.rs`, `lint.rs`) | environment of types, scopes | walk of a query, findings | a finding is about the type the value really has |
| relational core (`analysis/relational.rs`, `lowering.rs`, `normalizer.rs`, `comparison.rs`, `canonical.rs`) | step budget | lower, normalise, compare, emit canonical text | rows preserved; a verdict of either kind is borne out by the results |
| formatter, validation | none | layout of tokens, shape checks | idempotence |
| grammar automaton (`purecard/grammar/pda.rs`) | state, frame stack | advance, admits, probe, is_accepting, reset | frames are the text's delimiters; no admitted prefix is a dead end |
| mask cache (`purecard/grammar/compiled.rs`) | per state: tokens alive whatever the stack, tokens the stack decides | build on first visit, shared by all sessions | the assembled mask is exactly what the automaton admits |
| supplied grammars (`purecard/grammar/spec.rs`, `compile.rs`) | none; an automaton as result | validate, lower, step | what compiles always steps; what is refused is useless |
| decode session (`purecard/session.rs`) | automaton, offset, mask buffer, schema tracker | allowed_mask, accept_token, accept_byte, reset, clone | masks are exact, a rejected token leaves no trace |
| schema overlay (`purecard/schema`) | scope tracker, memo of masks | observe, position, narrow | admits every well-typed query however cut, never hides every token, follows the automaton, never shows a stale mask |
| purecard FFI, schema walker | handles; none | C boundary; random test driver | outside the session |
| renderers, response JSON | none | layout | formatting only |
| tooling (`xtask`, `scripts`) | none | build, release, benchmarks | outside the program |

Interactions: the CLI workflows call the driver, plan fixes, and hand the
changed texts to the staged writer; the language server turns the same plans into
workspace edits. The coordinator owns the documents: handlers run one at a time,
workers only ever see immutable snapshots.

What is hard here: external writers racing a replacement, and one of several
replacements failing (writer); threads, cancellation and end of input in any
order (coordinator); repeated and malformed notifications, exhausted counters
(documents); surrogate pairs, overlapping prefixes and suffixes (positions);
touching and nested edits in any report order (plans).
In purecard: a cache that one session fills and all others use over other
stacks, tokens that cross several frames or die half way, a table of 90 states that
must agree with its declarative copy, grammars supplied as data, a second machine that
re-reads every token and must stay in step with the first, and a memo keyed by a count. In
the analyses: recoveries of one parser that reach into the construct of another, facts
skipped by a loader and later taken for absent, shadowed bindings, and rewrites
justified by facts that an earlier step has invalidated.

## 2. Modules

| Module | Models | Checked by |
|---|---|---|
| `StagedWrite` | `write.rs` | `MCConcurrency`, two configurations |
| `StagedWriteProofs` | theorems about it: typing and lost edits; failures, leftovers and crashes | tlapm |
| `LspServer` | the coordinator, the reader thread and the worker pool | `MCConcurrency`, two configurations |
| `RequestService` | what the coordinator promises, without threads and channels | refined by `LspServer` |
| `LspServerProofs` | theorems about the coordinator and its refinement | tlapm |
| `LspDocuments` | documents, configuration, snapshots, publication | `MCDocuments` |
| `LspDocumentsProofs` | theorems about it and about `Utf16Text` | tlapm |
| `Utf16Text` | positions, content changes, the edit of a fix | `MCDocuments` |
| `FixPlan` | selection, validation, conflicts and application of fixes | `MCDocuments` |
| `CliConfig` | the layers of the configuration and their sum | used by the next |
| `CliCommand` | one process of the command line over files that others write too | `MCCliCommand` |
| `CliCommandProofs` | theorems about it | tlapm |
| `PureGrammar` | the transition table `step` of `pda.rs` | used by `GrammarWalk`, `MaskProbe`'s instance and the schema modules |
| `PushdownAutomaton` | the drivers `Pda` and `RtnPda`, the partition of a vocabulary, the mask | used by `GrammarWalk`, `DecoderSession`, `SchemaSession` |
| `GrammarWalk` | a byte stream through the fixed grammar | `MCGrammar` |
| `MaskProbe` | one token through `probe` and through `admits`, for any table | `MCGrammar` |
| `GrammarSpec`, `SpecAutomaton` | validation and lowering of a supplied grammar; the result, driven | `MCGrammar`; `GrammarSpec` also in `MCDecoderSession` |
| `DecoderSession` | sessions over one shared compiled grammar, without a schema | `MCDecoderSession`, two configurations |
| `SchemaModel` | the schema a session narrows against | used by the next four |
| `ScopeTracker`, `ScopePosition` | the scope machine: dispatch of lexemes; cutting of tokens, positions | used by the next two |
| `SchemaNarrow` | the rules that narrow at a position, over tries | used by the next |
| `SchemaSession` | a session with the overlay: masks, tokens, reset, completion | `MCSchemaSession` |
| `NarrowCache` | the memo of the overlay's masks | `MCSchemaSession` |
| `CountingInduction` | induction on a natural number, stated of sets | used by the proofs |
| `AutomatonFacts` | what holds of every regular pushdown automaton: runs, the paths over two stacks, the mask made from a partition | used by the next two |
| `MaskCacheProofs` | theorems about `DecoderSession` and `NarrowCache` | tlapm |
| `GrammarProofs` | theorems about `GrammarWalk`, `SpecAutomaton` and `MaskProbe` | tlapm |
| `M3Parser` | the query parser and the tree builder | `MCAnalysis` |
| `DomainParser`, `PureFileFacts` | the model parser; the facts the loader takes from its tree | `MCAnalysis` |
| `Resolver` | resolution of classes, members, arity, navigation | used by the next three |
| `ModelLoader` | ingestion of sources, gaps, replacement, associations | `MCAnalysis` |
| `LocalFlow` | the local analyser and the navigation lints | `MCAnalysis`, two configurations |
| `QueryLowering`, `QueryNormalForm`, `QueryCanonical` | lowering; normal form, keys and verdicts; canonical text and the properties of all three | `MCAnalysis`, two configurations |

`MCConcurrency`, `MCDocuments`, `MCGrammar`, `MCSchemaSession` and `MCAnalysis` hold several machines that
do not interact. A variable `part`, chosen initially, says which of them a behaviour is
about; the others rest. It saves configurations and adds no interleaving.

Each module keeps the names of the code. Definitions whose comment says "Variant
used to test the properties" are the code with one plausible mistake; the
specification never uses them, they show that a property notices the mistake.

### StagedWrite

State: the content of every destination (`dest`) and of every staging path
(`temp`), the exchanges not yet fsynced (`unsynced`), the program counter of
`replace_all` with its loop index, and the two facts the code keeps in
`StagedReplacement`: whether it still owns its temporary (`owned`) and whether the
destination is known (`expect`). One action per system call with the code up to
the next one. External writes happen between any two of them, every system call
may fail (bounded by `MaxFaults`), and a crash may undo exchanges that were not
synced. `target` maps replacements to canonical files, so two paths naming one file
are covered.

`NoLostEdit`: the last text another program wrote to a destination is still
there, or at a staging path the run does not own any more, or will give
back.
`HandledFailureRestores`, `LeftoversAreNamed`, `CrashSafe` (a crash leaves complete texts
and every confirmed replacement) and `RunEnds` state the rest of the contract in
the header of `write.rs` and in `docs/pure-analyzer.md`.

### LspServer and RequestService

State: the reader thread, the channel, the coordinator's locals (`terminal`,
`serving`), the lifecycle, the scheduler's `pending`, the cancellation registry
and per message the state of its job. Payloads are reduced to kind and id. The
n-th message is named n, which makes "the answer of this request" expressible
although ids are reused. `RequestService` says that accepted requests are
answered at most once and that a session which ends normally owes nothing;
`ImplementsService` is the refinement.

### LspDocuments, Utf16Text

The coordinator handles one notification at a time, so each handler is one action,
taken together with the client action that sends it. A notification may be
delivered twice, a change may be out of range. Texts are abstract elements and
changes partial functions on them; `Utf16Text` is the concrete side: texts over
characters of 1 to 4 bytes and 1 or 2 UTF-16 units, with the byte arithmetic of
`document.rs` compared with code-unit semantics.

### FixPlan

Fixes are reported one by one in any order, planned, and applied to sources that
may have changed. `OutputIsMeaning` compares the right-to-left application with a
position-by-position meaning of all the selected edits;
`PlanIsOrderIndependent` says that another report order gives the same plan.

### CliConfig, CliCommand

`CliConfig` is `config.rs`: which files are found and which of them count, what each
layer states, how the environment and the flags are read, and the sum of the layers or
the error of the first that is refused. A layer is a function on the settings it
states. `CliCommand` resolves it as its first step; `--print-config` ends there.
`HighestLayerRules` compares the result with the documented ranking,
setting by setting, and damages every file that should not have been read.

State of `CliCommand`: the files, the command that runs with its program counter, the texts it read,
the effects it still has to have, the two streams and the exit status; and as history the
disk at its start and the command before it. Resolving the inputs, reading each of
them, analysing, every write to a stream, the replacement of files and the second
analysis of `lint --fix` are steps of their own, so another program can write
between any two. An input is a name, a link to one, or a pattern, which is a sequence of
the sets of names its components match; `explain` and `completions` only print. A text is the set of what the analyses tell apart in it; a diagnostic
is its file, code, severity and whether it carries a fix, and the policy filters and
re-grades diagnostics as `FindingPolicy` does. What `eq` and `fmt --canonical` decide
belongs to the relational core (`QueryCanonical`) and is a free choice here, except that a
recovered text is never decided. `replace_all` is one step: `StagedWrite` shows what that step rests on.

`SafeToWrite` is about every write to a file: the text it replaces is the one
analysed, it was not recovered, and what is written is its fixed or formatted
form, whatever the policy hides. `VerdictMatchesFiles` says that the exit status
of a rewriting command is that of a check of the files it leaves, which the code buys with
the second analysis. `PreviewIsWrite` relates two runs:
`--check`, `--diff` and `--stdout` say what the command then does. It is stated for
runs nobody disturbs. `RefusalExplained` has no such premise: a rewriting command never
ends with a status other than zero and an empty standard error unless it was told to be quiet.

### PureGrammar, PushdownAutomaton, GrammarWalk

`PureGrammar` is `step` as a table. Bytes are the 35 classes the function tells
apart. A state has the bytes it moves on by itself (`Moves`, in the order of the
match arms), the ones that push (`Opens`), the ones whose outcome the top of the
stack decides (`ReadsStack`), and a state that the rest is handed to
(`Delegate`), as the `_ =>` arms do. The table agrees with the repository's own
declarative copy, `emitted_subset.json`, in every cell whose state and top can
occur together.

`GrammarWalk` feeds bytes to the automaton next to a scanner that only matches
delimiters outside quotes. `MaskIsExact` compares the mask assembled from the
cached partition with the tokens the automaton admits, for tokens that close and
reopen several frames. `EveryPrefixCompletes` is about a decoder that at some point
sets out to finish: from every configuration its next byte is given (`Finisher`), so
the existence of a completion is shown by construction, and what `is_accepting` calls
complete must be balanced for the scanner.

### MaskProbe

The argument behind the mask cache, for an arbitrary table: the probe over an
empty stack and the live run take the same byte in one step. `DeltaIsFrameBlind` - what
is alive over the empty stack does the same over every frame - is what makes the
probe's verdict transferable (`ProbePredicts`). `MCGrammar` evaluates it for the
fixed grammar (the assumption `FixedIsFrameBlind`); `CompiledAutomaton::compile` does not
require it of a supplied one, and `decoder_stack_empty` shows the consequence.

### GrammarSpec, SpecAutomaton

`GrammarSpec` holds the operators: first match wins, bounded chains of gotos, and
the conditions of `compile`. In `SpecAutomaton` every grammar of a family is
judged and then driven, also when it was refused, so that a refusal can be held
against what the automaton would have done (`CompileIsJust`); which errors a grammar is
refused with (`SpecErrors`) is judged too. The searches of `compile`
for a goto cycle and for an accepting state are closures of their edge relations.

### DecoderSession

Sessions share the cache that the first visitor of a state fills. Rejected tokens,
single bytes, reset and clone interleave. `fresh` marks the sessions whose buffer
belongs to their position; `fed` records what was consumed, for `SessionsReplay`.

### The schema overlay

`ScopeTracker` is the machine of `scope.rs` as a record: per-call stacks, bound variables,
emitted columns, the receiver of the next member, and the Boolean fields as a set of
`flags`. `ScopePosition` drives a token through the automaton again, cuts it where
lexemes open and close, keeps a lexeme that a token leaves open, and computes the position.
`SchemaNarrow` gives for every position the tokens its rule keeps; a trie is the set of its
names. Bytes are the classes of `PureGrammar`, and the words the overlay knows
(method names, keywords, types) are spelled with its letters in `MCSchemaSession`.

`SchemaSession` composes the overlay with the automaton. The vocabulary is every byte
sequence: the mask is a predicate. The host follows one of eight well-typed queries in
tokens that stay inside a lexeme or cross one of the seams real vocabularies fuse, or
leaves it by a byte the mask offers. `QueriesAreAdmitted` is soundness of the overlay
at token granularity, `NeverStuck` its liveness as a state predicate, `TrackerInStep`
compares the tracker with the automaton's stack and the remembered end-of-stream verdict
with the mask's.

`NarrowCache` is the memo in front of the rules, which is keyed by how many names a rule's
list holds; `MaskIsFresh` says that what it shows is what the present names give.

### The parsers

`M3Parser` is a parser of token kinds as functions on a record; the text is written one
token at a time and parsed after each, so every prefix of every draft is an input.
The builder's checks of the event stream are kept: `ParsersAlwaysBuild` says that no input
makes them fail, loses a token or leaves a part of a budget spent. Events form a linked arena in
the code and a sequence here. `SilenceMeansWellFormed` judges a tree that came without
diagnostic by its delimiters and by the precedences of its operators.

`DomainParser` is the model parser over the same primitives, with its coverage gaps.
`PureFileFacts` is what `pure.rs` takes from its tree; `FactsAreWhole` compares each fact with
the tokens it was read from.

### Resolver, ModelLoader, LocalFlow

`ModelLoader` ingests sources that are written declaration by declaration. `written` keeps
what their authors wrote, and `unread` what the parser could not recover of a declaration, so
that `ConclusiveIsTrue` can hold an answer of the resolver against a graph without
gaps. It is stated for classes whose own source is the only uncertain one (see the observations).
`AssociationsAreWhole` is about materialisation, over sources in any order and kind.

`LocalFlow` is the walk of the local analyser, one action per visited node: calls of any
function with any number of lambdas, plain calls, bare lambdas, let statements and groups. Beside
each value it carries the type the language gives it and the bindings lexical scoping makes
visible. The type of a lambda's parameter is not the analyser's: it is the declared one, or what
the function called passes (`Passed`, written from the language: `filter`, `map`, `exists` and the
key of `sort` take the receiver's elements, the comparator of `sort` takes keys, an unknown
function may pass anything). The analyser binds the first parameter of every lambda to the
receiver, so its type can be wrong; `misread` marks such a parameter and all that is read
through it. `FindingsAreReal` says that every other finding is true: scopes, shadowing, let
bindings and the results of calls add no error of their own. That the marked ones can be
false, against the documentation, is `NothingDeclaredIsReported` (run `local_flow_sort`).

### The relational core

Two queries are written one link at a time and lowered as the code meets the links
(`QueryLowering`); `QueryNormalForm` applies the three rewrites under the step budget and
the depth limit and compares; `QueryCanonical` emits canonical text and reads it back. The
reference is an evaluation of the text itself over small databases: `LoweredMeansText`,
`VerdictIsSound` and `CanonicalKeepsMeaning` compare with its rows. For `VerdictIsSound`, queries
are told apart by what running them shows (`Shown`): the values of a collection, the named
columns of a relation. "equivalent" needs equal rows on every database, "different" a
database that shows the two apart. One class of verdicts is exempt because it is wrong: two
collections whose single column has different names in the IR (`NamedApart`), which is
where `CanonicalRoundTrips` fails. The databases give different values to every
two properties of one type, so that no other pair needs an exemption.

## 3. Runs

| Run | Shows |
|---|---|
| `concurrency` | Three replacements against an external editor, one I/O fault and a crash: no edit is lost, a handled failure restores, a crash leaves complete texts, every leftover is named, every run ends. Every session of four messages of every kind, in every lifecycle, on a pool of two and with writes that may fail: requests race with cancellations, edits and reuse of their ids, each gets one response, and the coordinator implements the abstract RequestService, its liveness included. |
| `staged_write_sync_failure` (violation expected) | An fsync error after the exchange is taken for an exchange that did not happen: the destination keeps the new text although the run fails. |
| `lsp_write_failure` (violation expected) | A failed write of a completion returns from the event loop without acknowledging the message the reader waits for: serve never returns. |
| `documents` | Two documents under edits, repeated and malformed notifications, a configuration change and a snapshot in flight, up to the exhaustion of the revision counter: the store follows the client, the counters detect every stale snapshot and the published diagnostics are current. All texts of up to three characters of every width: changes are UTF-16 splices and the edit of a fix rebuilds the fixed text. Every sequence of up to three fixes that touch, nest, conflict or are invalid: the plan means what its edits mean and does not depend on report order. |
| `cli_command` | One command, or a preview and then the command itself, over two query files and a model, configured by every mix of defaults, files, environment and flags, with another program writing them at any moment and streams or the writer failing: the highest layer of the configuration rules, only safe texts are written, previews agree with what they preview, the exit status speaks of the files left behind and a refusal is explained. |
| `grammar` | Every configuration of the fixed grammar nested up to two delimiters: the cached masks are exact and every prefix can be completed to a balanced query. Every small supplied grammar: what compile accepts never runs out of goto turns, and what it refuses for want of an accepting state never completes. Every state, token and frame beneath: the empty-stack probe predicts the live verdict. |
| `decoder_session` | Two sessions sharing one lazily filled cache, with rejected tokens, single bytes, resets and clones: every published mask is exact and a rejection leaves no trace. |
| `decoder_stack_empty` (violation expected) | A rule guarded by stack_empty puts a token into the mask that accept_token refuses. |
| `schema_session` | Well-typed queries cut into tokens inside lexemes and across the seams vocabularies fuse, and every byte the masks let the host leave them by: the overlay admits the queries, never leaves the host without a byte or an end, and its memo never shows a mask of other names. |
| `analysis` | Models, queries over them and query texts, each written piece by piece: what resolution settles is true of every reading of what the loader skipped, a lint is wrong only about a parameter that is not the element of the receiver, lowering, normalization and canonical text preserve the rows of a query and a verdict on two queries is one that their results bear out, and the parser always returns a tree of the whole text and stays silent only on well-formed ones. |
| `canonical_round_trip` (violation expected) | The canonical text of Class.all().name is a map, whose output column has another name: read back it is a different query, and the comparison of the two, which hold the same values, commits to NOT_EQUIVALENT. |
| `local_flow_sort` (violation expected) | A.all()->sort(p\|$p.d, {p\|$p.m}): the comparator of a sort takes the keys, here of class B, but its parameter is bound to the receiver's class A, and m, which B declares, is reported as unknown. |

Bounds. Three replacements, of which several may name one file, are the smallest
instance in which a rollback passes over a committed prefix while another file
is being edited; two edits are needed for the second one to race the restoration of
the first; one fault at any call of a run is followed through everything the
writer then does. Four messages hold initialize, a request, a cancel or an edit,
and a second use of the id, or two requests before exit; a pool of two lets
completions overtake each other. `MaxRevision` = 3 reaches the exhaustion of the
counter, `MaxBatch` = 2 lets the second change of a notification fail, and one snapshot in
flight is enough since snapshots do not meet. Texts of three characters
contain a line break, a surrogate pair and a repeated character in every
arrangement. Three fixes are what the conflict scan needs to meet two different
pairs.

In `cli_command` a budget of three lets a preview, the
command itself and one disturbance, or one command and two disturbances, happen; two
query files, of which one has three names, and one model are the fewest with duplicates, a
link and a partial change. The first file has every text while the second has none, and
both have texts that differ in what matters to the other; each of the five layers states, leaves
out, or garbles a setting of its own and one it shares, in the combinations `MCCliCommand` lists.

Two open delimiters (`MaxDepth`, `MaxSpecDepth`) are what a token of the vocabulary can close
and still meet a frame beneath, and every pair of frames occurs; bytes in the stream are
unbounded. Grammars of two states with two rules and one contain every pair of
guards and actions, a goto to itself and a goto cycle. Two sessions suffice for one to use
what the other cached; three bytes open two frames and close one. The frame limits of the
probe are only those of the run: the theorem has none. Under a schema tokens have up to
`MaxToken` = 3 bytes, which covers every fused seam with a byte on either side, and
`MaxStrays` = 1 leaves a query once at each of its positions; the eight queries use every
rule. The memo holds lists of `MaxNames` = 2.

In `analysis` up to three declarations in up to three sources contain a class, its
superclass and an association or a replacement; the generalization limit (3) is reached by a
cycle. Queries for the analyser have up to 4 nodes beside 2 lambdas (`MaxNodes`, `MaxLambdas`),
nested 4 deep: a lambda in a lambda that shadows its parameter and a use after it, or two
lambdas of one call. `local_flow_sort` has 6 nodes, a receiver, a call and a navigation in each of
its two lambdas. Two queries share 5 links; 9 normalization steps and depth 4
are exceeded by some of them, so both refusals occur. The parsers' limits (3, 2, 2 and 3 for
256 each) are exceeded within the 13 and 18 drafts, each a construct to which up
to four tokens are added in every order before its closing.

Fairness. `StagedWrite` assumes weak fairness of the writer thread only: a system call
returns. `LspServer` assumes that the coordinator keeps receiving, that queued
jobs run (the pool's threads are never blocked by anything but their own work), and
that the reader notices a closed input; nothing is assumed of the client.
`GrammarWalk` assumes that a decoder which has decided to finish emits its
next byte; the other modules assume nothing, their properties are invariants.
`RequestService` has its own fairness, answers to accepted requests and the end of a session,
which the coordinator's is shown to imply.

Deadlock is not an error where the modelled program ends: a finished write, a
served session, an applied plan.

### Disagreements with the documentation

* `staged_write_sync_failure`: `atomic_exchange` renames and then fsyncs the directory.
  When only the fsync fails the caller takes the exchange for not done, and the
  destination keeps the new text in a run that reports failure, against
  `write.rs:3-6`.
* `lsp_write_failure`: a write error while answering a completed request returns
  from `serve_events` without acknowledging the message the reader waits for; the
  scope then never joins the reader, and `serve` does not return even though the
  client exits (`server.rs:79`).
* `decoder_stack_empty`: in a supplied grammar with a `stack_empty` guard the
  mask admits a token that `accept_token` refuses, against `compiled.rs:66-67`.
* `canonical_round_trip`: the emitter writes every scalar projection as `map`, whose column is
  called `value`, while `.name` calls it `name`. Read back, the canonical text of
  `A.all().name` has another key, against `canonical.rs:101-103` and the header of
  `tests/canonical_injectivity.rs`. The values are the same (`CanonicalKeepsMeaning`), and yet the
  comparison of the two queries is NOT_EQUIVALENT, because `output_column_field_difference`
  compares the names of columns that only the IR has: against `docs/domain-model.md:143-145` ("must
  never wrongly commit `EQUIVALENT` or `NOT_EQUIVALENT`").
* `local_flow_sort`: in `A.all()->sort(p|$p.d, {p|$p.m})` the second lambda compares keys, which
  are of class B. Its parameter is bound to A, the receiver's class (`local.rs:303`), and `m`,
  which B declares, is reported as an unknown property, while `local.rs:85-88` says that
  unsupported calls "cannot turn into a false closed-world missing-member result". A parameter
  declared with another class is bound to the receiver in the same way.

Met while modelling, visible in the definitions and not checked by a run of their
own.

Language server and fixes: after `shutdown` every notification but `exit` is dropped
(`Refused` in `LspServer`), while `dispatch.rs:88-90` says notifications pass. For candidates
with equal first edit and title the reported conflict depends on report order (`Candidates` in
`FixPlan`, a stable sort), while `fix_plan.rs:194-195` says it does not. With `--jobs`, which of
two sources that fail to parse is reported is the pool's choice.

purecard: a top-level operator makes a bare literal a possible end of a query, `|X.name+5`,
while `pda.rs:2351-2353` excludes one. A rule behind an unguarded rule on the same bytes compiles
(`Shadowing` in `GrammarSpec` compares equal guards), while `compile.rs:390-392` says a rule that
can never fire is rejected. The whole-token rules of the overlay also mask tokens that go on
past a closing parenthesis, such as `)->` at a source method's argument (`narrow.rs` 1499-1528); the
query stays reachable in shorter tokens.

Loader: `model/README.md:67-70` says that source-wide uncertainty marks all loaded classes
with a coverage gap; it reaches the classes of the same source, and a class of another source
gives closed-world answers about members that the unread text could have added. The spans of gaps
and diagnostics also touch the declaration next to them, which is then left open although it was
read in full.

Parsers: `- -x` with trivia between the operators opens one unary node more than
`--x` (`m3.rs` 238-249). After `$` the recovery consumes the `;` (`m3.rs` 179-186). A `###Pure`
header or an `import` without `;` swallows a following `Enum E {...}` with no gap, against
`domain.rs:47-57`. `<<a.b, c.d>>` is always malformed, so the split of stereotype atoms
never has two parts. `List<A,>` parses without diagnostic and only the reader rejects
it. `is_identity_project` cannot be met by a lowered query.

## 4. Proofs

* `StagedWriteProofs!Typing` : `WriteSpec => []WriteTypeOK` for every number of
  replacements, every set of files and every bound. `WriteTypeOK` is not inductive: a
  loop index stays in range only because of where the loops are, so the proof
  carries `Position`, which relates `pc`, `cur` and `committed`. It is the lemma the
  next theorem rests on; no run checks it.
* `StagedWriteProofs!EditsSurvive` : `~SyncFaults => (WriteSpec => []NoLostEdit)`. The
  inductive invariant adds who owns which staging path (`Ownership`,
  `NotYetStaged`), what an owned path can hold (`OwnedHoldsNew`,
  `BackupHoldsOld`) and that at most the exchange in progress is unsynced
  (`OneUnsynced`). The premise is necessary: the run
  `staged_write_sync_failure` is its counterexample.
* `StagedWriteProofs!NothingIsHidden` : `WriteSpec => []LeftoversAreNamed`, failing fsyncs
  included. The invariant `Ledger` is the writer's account of its private files: a
  replacement that is staged and not yet installed is owned (`StagedOwned`), the cleanup
  loop has dropped what it has passed (`OwnedAhead`), and every file that exists is named, lost
  to a failed restoration, or still ahead of the step that removes or names it (`Accounted`).
* `StagedWriteProofs!FailureRestores` and `CrashesAreSafe` :
  `~SyncFaults => (WriteSpec => []HandledFailureRestores)` and
  `~SyncFaults => (WriteSpec => CrashSafe)`. The
  invariant `Outcome` places every text: no two replacements that get as far as installation
  name one file (`DistinctTargets`), a destination nobody else wrote holds the new text
  exactly where the program counter says it is installed (`Placement`), its staging path then
  holds the old one (`Displaced`), and only a file that is being written is partial
  (`WholeTexts`). `ConfirmedIsDurable` follows from `OneUnsynced`. The premise is the same.
* `LspDocumentsProofs!SnapshotsSound` : `Spec => []CurrentMeansUnchanged` for every
  set of documents, texts, changes and settings and every width of the counters. The
  invariant says of each snapshot that its counters are not ahead, and that its
  documents and routes are the current ones if its counters are.
* `LspDocumentsProofs!DiagnosticsCurrent` : `Spec => []PublishedIsCurrent`. It is inductive
  once the store is known to be a function on the documents.
* `LspDocumentsProofs!DocumentsInSync` : `Spec => []InSync`. The invariant `SyncInv` is stronger
  in two ways: while the counter can move, the server's documents are the client's
  (`Agreement`), and the opening or change that may be delivered a second time says what the
  client holds, is not newer than it, or is malformed (`RepeatOK`). That versions and batch
  lengths are natural numbers is `BatchAssumption`.
* `LspDocumentsProofs!ChangesSplice` and `FixEditsReconstruct` :
  `DocumentSpec => []ChangesAreUnitSplices` and `DocumentSpec => []FixEditReconstructs`, for every
  set of characters, every cost of one in the two encodings and texts of every length. The
  invariant is only that a document is a text; the argument is about the operators. What a prefix costs grows
  with every character (`CostsGrow`), so an offset is one boundary (`BoundaryCounts`); a line
  starts at one place (`OneStart`, `LineOf`), so a position is one character (`PositionIsPlace`)
  and going there and back is the identity (`PlaceRoundTrip`); a change then replaces one slice by
  its text (`ChangeMeans`, `ChangeOfRange`). For a fix, the shared ends never overlap
  (`SharedEnds`). For the client's array, lines start among the units where they
  start among the characters (`BreaksAmongUnits`, `LineStartIs`), and arrays split where texts do
  (`UnitsSplit`, `UnitsJoin`). The property inserts one character at a time, as the run does; the
  lemma `ChangeIsSplice` says the same of every inserted text. `CharsAssumption` is what UTF-8 and UTF-16 cost;
  `NothingAssumption` says that `None` is no text, offset or position.
* `LspServerProofs!OneReply`, `CancellationHonoured`, `ResultsAreCurrent` : `AtMostOneReply`,
  `CancelHonoured` and `NoStaleResult` for every number of messages, ids and threads. One
  invariant `Inv` serves all three: the channel holds at most the one message the
  reader waits for (`InputQueue`) and one completion per finished job (`CompletionQueue`),
  jobs and replies agree (`Jobs`), the registry holds the requests in flight that have a
  token and nothing else (`Registry`, `Tokens`), `pending` counts the jobs in flight (`Count`), the lifecycle follows what was
  answered (`Lifecycle`), and a snapshot is not ahead of the documents
  (`Snapshots`). Each handler is first shown to have one of a few effects
  (`ServeEffect`, `WorkerEffect`, `CompletedEffect`), from which the parts follow.
* `LspServerProofs!ServiceRefined` : the safety part of `ImplementsService`, that every step of
  the coordinator is a step of `RequestService` or leaves it alone, from the same invariant.
* `CliCommandProofs!FailuresAreExplained` and `WritesAreSound` : `Spec => []RefusalExplained` and
  `Spec => SafeToWrite` for every set of commands, files, texts and configurations. The
  invariant `CommandInv` says of the effects a command still has to have that the texts
  in them are sound for what was read (`WritesPlanned`) and that a status other than zero is
  preceded by its reason or has it planned (`ReasonPlanned`). The plans themselves are
  covered by lemmas, one for each way of rewriting (`LintFixGood`, `FormatGood`,
  `NothingRecovered`). `CommandsAssumption` says that there is a command and that only `fmt` and
  `lint` have a mode that writes, as their flags do.
* `CliCommandProofs!HighestLayerWins` : `Spec => []HighestLayerRules`. The layers are summed from
  the lowest (`Sums`); by induction on their number every setting of a sum without fault is that of
  the last layer that states it (`SumIsLast`, `RulingIsLast`), and the layers do not depend on a
  file that is hidden (`HiddenIsUnread`). `GivenAssumption` is the shape of a command line and its
  surroundings.
* `CliCommandProofs!VerdictsAreTrue` : `Spec => []VerdictMatchesFiles`. The invariant `VerdictInv`
  follows an undisturbed command that rewrites named files: what it has read is what the files hold
  (`StoreIsDisk`), up to the one write (`OneWrite`), after which every file holds what was planned
  for it (`After`); the status is then that of the second analysis (`Relints`), or of the first one if nothing
  was written. That analysing what was written reports the same errors as a check does rests on what
  a fix or a layout leaves of a text.
* `GrammarProofs!ProbeDecides` : `DeltaIsFrameBlind` implies
  `ProbeSpec => []ProbePredicts` for every table, every vocabulary
  byte, every live stack and every depth. The invariant says that while the
  probe runs the live stack is the ambient stack with the scratch stack on top;
  a step with a non-empty scratch stack reads the same top, a step with an empty one
  is covered by `DeltaIsFrameBlind` or by the frames that `consulted_ambient` tries.
* `MaskCacheProofs!SessionsAreReplays` : `Spec => []SessionsReplay`, for every table, vocabulary,
  set of sessions and length of stream, from `StepAssumption`, `StackAssumption` and
  `VocabAssumption`. The invariant adds that a stream is a sequence of bytes; the step for
  `accept_token` rests on `RunConcat`, that running one string and then another is running both
  together. It is an induction on the length of the second string. The library's induction
  theorems take an operator and cannot be cited, so `CountingInduction` states it of sets (`Least`,
  `NoCounterexample`, `UpTo`): the set of lengths at which the claim fails is a subset of `Nat`,
  which is well-founded under `<`, and its least element is refuted. A recursive function is first
  shown to exist this way (`PathDefined`, `SumsDefined`, `ChainDefined`), then used by its equation.
* `MaskCacheProofs!MasksAreExact` : `StepIsFrameBlind` implies
  `Spec => []PublishedMaskIsExact`. The invariant says that every cursor is a live configuration,
  every cached entry is the partition of its state (`CacheIsPartition`), and every fresh mask is
  exact. The step for `allowed_mask` is `MaskFromPartition`: along a token the live path is the
  path over an empty stack with the live stack beneath it (`PathTracks`, by the same induction), up to the
  byte at which the latter dies (`DeathFound`); there either no frame helps and the token dies
  live too, or it was deferred and is run again (`ProbeIsRight`). The premise is needed:
  the supplied grammar of `decoder_stack_empty` does not satisfy it, and the property fails
  there. `MCDecoderSession` evaluates that the list grammar satisfies it and the statement grammar does not.
* `GrammarProofs!FixedMasksAreExact` : `WalkSpec => []MaskIsExact`, for every vocabulary and depth. It
  takes the facts of `AutomatonFacts` for the table of `PureGrammar`; the driver of the walk is
  shown to be the one they speak of (`SameDriver`). That the table is total and frame-blind is the
  assumption `TableIsRegular`: a statement about each of its cells, which TLC evaluates.
* `GrammarProofs!CompiledSpecsAreJust` : `SpecBehaviour => []CompileIsJust` for every supplied
  grammar, of any size, and every depth of the stack. The invariant `SpecInv` says that the automaton is
  at a state the guard-blind search finds. A chain of gotos that used up its turns would have met one
  of the finitely many states twice (`ChainEnds`, by the pigeonhole principle), which is a
  cycle that `compile` refuses; what a chain answers is a rule whose guard holds (`ChainAnswers`), so
  that a `pop` finds a frame; and taking a shadowed rule out moves no other rule to the front
  (`ShadowedNeverChosen`). `SpecsAssumption` is the shape of a deserialised grammar.
* `MaskCacheProofs!MemoIsExact` : `CacheSpec => []MaskIsFresh` for every set of lists, rules,
  names and prefixes and every function from names to masks. The invariant says that every trie
  in the memo was built from the first names of the present list, as many as its key counts
  (`TriesArePrefixes`), and every mask from its trie (`MasksAreOfTries`): lists only grow within
  a stream, and a reset empties the memo with them.

Only model-checked: liveness (`RunEnds`, `EveryPrefixCompletes`, and that every accepted
request is answered and every session ends, which is the fairness in `ImplementsService`); the
algorithms that compute by recursion over trees or lists, or by the library's folds (`FixPlan`, the parsers,
 the resolver, the relational core); `PreviewIsWrite`, which compares two commands and
so rests on the order in which each expands its patterns; and what depends on the contents of a
schema (`SchemaSession`).

## 5. Plan

Done: the staged writer, the language server, fix planning, the command line, the
decoder with and without a schema, the parsers, the loader, resolution, the navigation lints and
the relational core, with the theorems above. Next, in this order:

1. **Theorems**: `PreviewIsWrite` of `CliCommand` from the lemmas of `VerdictsAreTrue`, and
   `TrackerInStep` of `SchemaSession`.
2. **Composition**: the refinement of `InstallAll` of `CliCommand` by `StagedWrite`.
3. **Driver**: parallel jobs against the sequential run as abstract specification.

## 6. Not modelled

Components with status `not_modelled` in `PROJECT.json`: LSP framing and JSON (sequential
parsing of one stream), the diagnostics tables, the
formatter and the validation checks (known to `CliCommand` by what they report), the lexer and
the typed views of the tree (the parsers are modelled from token kinds on), the renderers, the
FFI, the schema walker (a test driver) and the tooling.

Of the modelled ones: texts of messages and errors, JSON, colours and layout; `preview` and
`check` of a plan (they differ from `apply` in what they return); what hover, definition and
code actions compute inside the language server; the driver's go-to-definition and its
pool of jobs, which is one step here; on the command line the matching of a pattern character by
character, the syntax of TOML and of flags, values that are not UTF-8, and a standard error that is itself broken (`eprintln!` in `main.rs`
then panics, with a status outside the documented table). `accept_byte` under a schema does
not advance the overlay, as its documentation says, and is modelled without one. Of the relational
core, the provenance-sensitive key and the order of reported origins are left out.
