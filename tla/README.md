# compact-analyzer: TLA+ models, model checking and proofs

compact-analyzer is a language server for the Compact language (Rust, four crates under
`src/crates/`) with an editor extension (TypeScript, `src/editors/vscode/`). This directory
holds TLA+ modules of the parts of it that carry state or run concurrently, of its three
analyses (names, types, disclosure) and of the conversions between it and the editor, the TLC
configurations that check them on small instances, and TLAPS proofs that the safety properties of
the concurrent parts, of the positions and the merging of diagnostics, of name resolution and of the
type checker hold on all instances. `PROJECT.json` is the index: components, runs, the
lines of code each definition translates (`map`), a mutation that breaks each property, findings,
hazards and theorems.

All paths below are relative to `src/`.

## 1. Inventory

| Component | State it keeps | Operations | Module |
|---|---|---|---|
| Language server: diagnostics, compile-on-save, teardown (`crates/compact-analyzer/src/server.rs`) | open documents, debounce deadlines, `save_generations`, `compiler_diagnostics`, `shutdown`, detached worker threads | didOpen/Change/Save/Close, watched files, flush, worker steps, formatting, stop/join | `DiagnosticsServer`, `CompilerSetRegister` |
| Toolchain process control (`crates/analyzer-toolchain/src/{process,compile,format,discovery}.rs`) | child process and its group, two pipes, two drain threads, deadline, cancel flag | spawn with ETXTBSY retry, poll, kill, reap, drain, classify; version query | `ProcessControl` |
| Analysis host, VFS, workspace index (`crates/analyzer-core/src/{analysis,vfs,workspace,source_path}.rs`) | overlays and disk cache, salsa inputs, published maps, index and dependency graph | set/remove overlay, invalidate, `source_for`, `index_file`, `forget_file`, evict, `ensure_indexed`, queries | `AnalysisHost` |
| Editor extension (`editors/vscode/src/{extension,acquire,download}.ts`) | per window: lifecycle chain, client, source; per machine: storage directory | activate, restart, deactivate, acquire (settings, PATH, storage, download), start, tear down | `EditorExtension` |
| Request dispatch (`server.rs`, `references.rs`) | waiting messages, the scan in progress | receive, handle, poll and abandon, contain a panic, shut down | `RequestDispatch`, `RequestLedger` |
| Merging of diagnostics (`server.rs`, `parse.rs`) | the last compiler set of a file | attribute, fall back, merge, cap | `DiagnosticMerge` |
| Item tree, name resolution (`item_tree.rs`, `resolve.rs`, `db.rs`), references, rename, completion (`analyzer-ide`) | syntax trees; a workspace's text | scopes, modules, includes, imports; find references, rename and its edits, candidates | `Names` |
| Types, inference, ledger tables (`ty.rs`, `infer.rs`, `ledger_adts.rs`, `db.rs`) | none | lowering, subtyping, casts, six diagnostics, type and ledger methods at a position | `Types`, `TypeMeaning` |
| Disclosure analysis (`disclosure/*.rs`) | abstract environment, witness sets, leak table, advisories | lattice, interpretation of every root, folds to a fixpoint, report | `WitnessSets`, `Disclosure`, `DisclosureMeaning` |
| Line index, semantic tokens, locating compiler output (`line_index.rs`, `semantic_tokens_legend.rs`, `locate.rs`) | none | offsets to lines and columns and back; relative encoding | `Positions` |
| Standard library stub (`stdlib.rs`) | a file in the temporary directory that all servers of a version share | compare, rewrite, register | `StdlibStub` |
| Toolchain discovery (`discovery.rs`) | none | list candidates, probe | query in `ProcessControl` |
| Hover, hints, folding, ... (`analyzer-ide`) | none | projections of one syntax tree | not planned |
| Parser, salsa, lsp-server; scripts, workflows, documents | external | | not planned |

How they interact. The **server** has one thread for all messages and for the analysis host; a
save starts a **worker** thread which runs the compiler through **process control** and then
touches the two maps it shares with the main thread, each behind a mutex, and the outgoing
channel. The **host** is called by the server's handlers and by every query; salsa inputs carry
texts to the queries, and two published maps carry the keysets. The three **analyses** are
queries over those texts: resolution, on which types and disclosure rest, looks through the
dependencies of a file; diagnostics, completion, references and rename call them at a position. The **disk** changes on its own
and is announced by the editor's watcher, later and in order. The **extension** runs once per
editor window; windows share a storage directory, into which each may install a downloaded
server.

What is hard, and where (every hazard is in `PROJECT.json` at its line):

* interleavings of the main thread and workers around two locks and a channel (server);
* processes that hang, fork, flood or keep pipes open, against deadlines and a shutdown flag;
* staleness: overlays, a disk cache, inputs, published keysets and an index, each updated by a
  different path, while the disk moves on;
* operations of a window that await each other while settings change and other windows replace
  the binary they have just probed; windows that are killed in the middle of an installation;
* servers that check, rewrite and read one shared file at their start;
* requests whose handler gives up or panics, and those that wait behind them;
* liveness: workers, teardown, calls, requests, on-demand indexing over cycles, the lifecycle chain;
* the same question answered by code of its own in several places: what a name means (resolver,
  completion, import diagnostics, references, rename), what a type is (annotation, expression,
  declaration in another file);
* judgements that must not err on one side: a diagnostic on a legal program, silence on a
  disclosure; and limits, fixpoints and cycles inside them;
* two lists of diagnostics under one limit; three ways to count columns.

What makes each component correct is stated by the properties in section 3.

## 2. Modules and how they correspond to the code

`DiagnosticsServer` — one action per critical section. A handler that accesses shared state
several times is several actions driven by `pc` (`CloseSupersede`/`CloseClear`/`CloseSend` are
`did_close`; `FlushBegin`/`FlushRead`/`FlushSend`/`FlushEnd` are `flush_pending_diagnostics` and
`publish_file_diagnostics`). `StoreCheck` and `StoreCommit` are the two halves of
`store_if_current`, the lock on `save_generations` being held in between (`GensLocked`). Texts
are workspace revisions, compiler sets are the generation of their save, the editor is the last
message sent for each file. `floor` and `lost` are history variables. The real server's
deadlines are all equal (every schedule re-schedules all open files), so a flush takes them all.
Panics are steps where they cost something: `FlushPanics` is the one caught around the publication of
one file, whose deadline is gone by then and which nothing re-arms; `Republish` may end a handler
after it took the text and before it scheduled anybody, as a panic of the indexing does that
`dispatch` catches; `WorkerAborts` ends a worker. `lost` names the open files that such a panic has
cost their latest publication, so that the properties can say that it costs nothing else. `revision`
counts the changes that ask for a republish; a close does not.

`CompilerSetRegister` — the abstract specification: a numbered request per save, of which only
the newest can be answered, at most once, until closing retires it. `DiagnosticsServer`
implements it under the mapping `Register == INSTANCE CompilerSetRegister WITH ...`.

`RequestDispatch` — the client's messages are one sequence, of which the server has taken a
prefix; a request is its number in it. Requests are told apart by how they are answered. `ScanFile`
is one round of the loop in `find_references_cancellable` with its poll; `PanicInRequest` and
`PanicInChange` are the `catch_unwind` of `dispatch`, whatever the handler was doing. `torn` records
that the last change was cut off by a panic. Whether a scan can notice a waiting message depends on
the channel: one without a buffer is empty while its sender waits to hand a message over, so that
the poll never fires; both kinds are instances. `RequestLedger` is the abstract specification:
requests are answered at most once and in order. `RequestDispatch` implements it under
`Ledger == INSTANCE RequestLedger WITH ...`. What happens to the diagnostics is `DiagnosticsServer`.

`DiagnosticMerge` — from a saved text to the list in the editor: `Compiled` makes the compiler's set
(`BuildCompilerDiagnostics`) and merges it, `Edited` merges the set there is with new native
diagnostics. It EXTENDS `Positions`: a line of the compiler's output counts lines and characters in
the text, `Locate` finds the token, `Spread` gives it to the editor, and there ranges are compared.

`StdlibStub` — each server's start is a comparison, the opening that empties the file, one action
per piece written, and the read by `register_stdlib`. Servers fail and are killed anywhere; `Touch`
is anybody else. `alone` and `spoiled` are history variables.

`Positions` — a character is its width in bytes and in UTF-16 units, or a line terminator; a text
is built character by character, and each operator is judged in every text. `Offset` and `LineCol`
are the two directions of `LineIndex`, `Locate` and `StartByte` are `locate` with its helpers (each
character stands for a token), `EncodeStep` is the accumulator of the semantic tokens, `Decode` what
the protocol prescribes. A filter that keeps the order is put by ranks (`Where(seq, S)`: the places
in `S`, the j-th first `Nth(S, j)`), and an accumulator is a function on the numbers; the module and
those built on it can so be proved about.

`ProcessControl` — one invocation. The calling thread's `pc` follows `run_with_timeout` and
`poll_until_exit_or_deadline`; `Kill` is `kill_child_tree` by process group, `Drained` the
bounded receive of stderr. `call.mode` says who calls: `compile_file`, `format_source`, or the
version query of `discovery.rs`, which uses `Command::output` and so none of the control. The
processes are the environment and may do anything. Between attempts to spawn a busy executable the
thread sleeps at `retry`, where time passes and nobody looks at the shutdown flag; timeout and
deadline begin with the spawn that succeeds. `cancelled_at`, `poll_failed` and `exited_at` are
history variables.

`AnalysisHost` — one action per handler of the single thread; `ensure_indexed` is one action per
round of its worklist. `contents` is the VFS, `sources`/`texts` the salsa inputs (`forget_file`
and `source_for` make a new input, whose predecessor keeps its text), `file_srcs`/`file_deps`
the published maps, `files`/`symbols`/`forward`/`reverse` the index. Texts are model values
which say what they include or import; candidates of a spec are searched in order on the disk,
as `find_source_pathname` does. The watcher's notifications are a queue.

`EditorExtension` — a chain of operations per window, each with its local variables; what runs
between two awaits is one action, file-system calls are actions of their own. A binary is what
running it gives (`good`, `other`, `broken`). Nothing of a window survives `WindowEnds`; the
storage directory does.

`Names` — a file is its identifier tokens, numbered in document order (an offset is the number of
a token), with the kind of each one's parent node and the declarations, scopes, imports and
includes around them. `Resolve` is `resolve_query` with all it calls: lexical scopes latest first,
siblings in a module, the top level, includes (guarded against cycles), imports in order, then
members and specifiers by the parent node. `FindReferences`, `Completion` and
`ImportDiagnostics` are the features, each with its own walk as in the code. `Rename` is the one
step that changes anything: the editor applies its edits to the text and the item trees are built
again, so that the next state shows what the edited workspace means. Declarations are one list in
document order, each with the number of its parent, as the item tree stores them; a binding is
known by the numbers of its scope and of its place there; the search through the includes is a
function on the sets of files on the path, which `resolve_includes` passes along; of the candidates
of completion, a later one is pushed under a label not seen before (`Pushing`). `WellFormed` says
what the parser and the index make of any files. A token has one part in the syntax (`OnePart`):
it declares at most one binding or item and is not also a use. The yardstick (`VisibleNames`, `ImportLabels`) is a
set without any order of search. Three properties say where they hold: `LabelsDiffer` (no import
gives one label to two members), `OneMeaning` (what a label means does not depend on whether a value
or a type is asked for, and no two imports give it), and files that are indexed. The workspaces of
the run satisfy `OneMeaning` everywhere.

`WitnessSets`, `Disclosure` — the abstract interpreter. Syntax is data: a node is a form with a
payload, a type and children. `Interp` and `Exec` have one case per expression and statement form
of `interp_expr` and `interp_stmt`, evaluated in the order of the code, with the environment, the
control witnesses and the sink passed along. What cannot be decided fails closed over the direct
children that are expressions (`ChildExprs`): the fields of a struct update are not among them and
are not interpreted at all. The actions are those of
`disclosure_diagnostics_query`: begin, walk the next root, render. `WitnessSets` holds the
non-recursive part, so that it can be proved about. The model is that of the release build
(`debug_assert` does nothing, a zip stops at the shorter side). `DisclosureMeaning` runs a program
with concrete secrets and collects what becomes public: two runs that differ in one secret only
and disclose the same on purpose, but publish different things, disclose that secret.

`Types` — kinds of types and `IsSubtype`, `CanCast`, the lowering of annotations (`TypeNodeKind`
within a file, `LowerNamedAt` and `LowerTypeIn` through declarations of other files), expression
types (`ExprTyKind` where a diagnostic asks, `TypeExpr` where the user does: two functions in the
code as well), and one action per query: `TypeDiagnostics`, `SignatureDiagnostics`,
`GenericDiagnostics`, `LedgerCallDiagnostics`, `CallArgDiagnostics`, the final filter
`DropGenericModules`, and `TypeAt`. What recurses on types and expressions is a function on the trees
of at most `MaxNesting` levels (`AnnotationUpTo`, `ExprUpTo`; kinds may have more levels, as structs
nest: `Deepest`), so that it can be proved about; the recursions that the code limits by a depth
(`DeclKinds`, `TypeExpr`) are functions of the room that is left. `TypeMeaning` gives an annotation and
an expression the set of its values under a choice of the generic parameters, without a look at the
types the checker computes; that one may stand for another when its values are among the other's is
how the compiler is assumed to judge. `Members` gives the kinds of the checker theirs, among the
values of as many levels as kinds have (`Value`).

The `MC...` modules hold the instances, the `...Proofs` modules the theorems. The operators
beside a definition that are named `Mutant...`, or marked as a mutant in their comment, are plausible mistakes in the code it translates; each
property is violated under one of them (`PROJECT.json`, "mutants"), so each property does say
something about the code.

## 3. Runs

Each passing run exhausts its state space. Where a property is a conjunction, its parts are in
parentheses; they have names and theorems of their own. The type invariants (`TypeOK`) are theorems
(section 5) and in no run. Deadlock is checked except where a configuration says
otherwise: an idle analysis host whose bound on changes is used up may stop, and so may an
extension all of whose windows are gone, a server that has been shut down, and a text that has
reached its bound and is not compiled (`DiagnosticMerge`).

| Run | Bounds | What it shows |
|---|---|---|
| `diag_safety` | two documents, three openings and changes, one document with three generation bumps (save, close, reopen, save), with and without a toolchain, panics anywhere | `StoredSetIsOfThisSession`, `SettledViewIsFresh`, `ImplementsRegister`; fair: `NothingBlocks`, `EditsReachEditor` |
| `process_safety` | timeout 2, poll and grace 1, two spawn attempts 2 apart, seven ticks, exit codes 0 and 255, pipes of one chunk, two chunks of output; every kind of call, with and without process groups | `CallsAreInTime` (`ReturnsInTime`, `CancelsInTime`), `FinishedRunsCount`, `KillsAreClean` (`NothingLeftBehind`, `SignalsOwnGroup`), `StderrWholeOrLost`; fair: `NothingHangs` (`CallsReturn`, `PipesDrain`) |
| `host_safety` | two files, three texts (plain, including, importing a name that is searched at two places, so that one file shadows the other and a file can include itself), four changes, fair | `IndexIsCoherent` (`GraphsAgree`, `IndexMatchesDeps`), `PublishedMapsAreCurrent`, `TextsAreCurrent` (`OpenBuffersAreLive`, `CachedTextIsOnDisk`), `QueriesEnd` |
| `ext_safety` | two windows with two operations each, one change of settings, six machines (nothing or a good server stored, pinned binary good or of another version; Windows; on PATH without an artifact) | `OneHeldServer` (`NoOrphans`, `OneServerPerWindow`), `StoredBinaryIsWhole`, `RunsTheRightServer` (`RunningIsCompatible`, `ConfiguredPathIsRespected`), `StaleSettingsArePrompted`; fair: `OpsSettle` |
| `requests` | four messages of any kind, scans of two files, both kinds of channel | `NoneForgotten`, `AnswersAreCurrent`, `ImplementsLedger`; fair: `EveryRequestIsAnswered`, `WaitingClientsAreServed` |
| `editor_view` | every text of up to five characters (three widths, CR, LF), every sequence of up to two tokens in it; four of the texts compiled with two lines of output, two native diagnostics at a time, a cap of one | `ColumnsAgree` (`RoundTrip`, `StaysInLine`), `CompilerColumnsFit`, `TokensSurvive`, `EveryMessageIsSaid`, `NothingIsLost` (with `NativeComesFirst`) |
| `stub` | three servers (symmetric), a text of two pieces, any file at the beginning | `AloneIsRight`, `SettledIsWhole` |
| `disclosure` | 1321 programs: every expression form over every source, two layers deep, in every sink, under every kind of condition; patterns; constructors; modules | `EveryDisclosureIsNamed`, `DiscloseOnlyRemoves` |
| `names` | 726 workspaces: every assignment of two names to the identifiers of eight shapes (scopes; modules; prefixed and selective imports; an imported file; a cycle of three files; types and members; the standard library), every rename to two present and one new name and a keyword | `ResolvesWhatIsVisible`, `QuietImportsResolve`, `CompletionAgrees`, `ReferencesAgree`, `RenamedSitesAgree` |
| `types` | 23579 programs: every annotation against every operand, calls alone and overloaded, ledger methods, uses of named types with generic arguments, structs nested within and across files and through themselves | `DiagnosticsAreExact`, `AnswersAreRight` |

Why the bounds suffice. Generations: a superseded worker, its successor and a close need three
bumps of one file, whose workers contend for the lock. Save, close, reopen and save again is these
three bumps and two openings, closing and saving using up no opening; the third is an edit, or the
opening of the second document (the mutant `MutantDidOpenForgetsGeneration` is found by this very
sequence). A second document is needed for the flush
that publishes several files, one of which may panic, and for a change in one that re-schedules
another. With a timeout of two polls, an interval that is lost shows as a late return; a retry delay
of two polls is a sleep that a cancellation has to wait out, and seven ticks are more than any call
with a limit takes (2 + 2 + 1 + 1); a pipe of one chunk with two chunks to
write is full and still has something to deliver. Two files with shadowing give all shapes of edges
between two nodes, self-loops included; four changes allow open-edit-close-reopen, and
write-delete-write under pending notifications. A window with two operations can be started
and restarted, or started and closed, and killed at any point; the other one provides every
interference on the storage directory a window can see. Four messages are a change before a
request, the request, and something behind it before and after a shutdown. Three servers are one
that reads, one that writes and one that empties the file under the writer; two pieces give a file
that is partly written. The theorems of section 5 remove these bounds for the safety properties of
these modules, and those of texts, outputs, caps and workspaces for the runs `editor_view` and `names`. A
cap of one lies below, at and above each of the two lists and their sum; five characters hold a
wide one before and behind a CR LF; a compile replaces all that the last one left, so that one
stands for many. The analyses are syntax-directed: a
program of their runs combines each form with each other form once (disclosure, two layers) and
each rule with operands on both sides of every limit; limits are scaled (integers of 2 bits for
128, widths up to 3 for 248, lengths up to 2 for `u32::MAX`, a depth of 3 for 32, a field of 9
values), so that both sides of each limit occur. `MaxNesting` is no limit of the code: 3 is as deep as
the types and expressions of these programs nest.

What the analyses' passing runs leave out, because the code is known to differ there or documents
it. Names: locals and globals of a disclosure or type program have different names (resolution is
checked by `names`); a selective import `{a as a}`, shorthand struct fields and export lists in a
rename; completion across includes and of kinds it filters on purpose (comment in
`completion.rs`); a file that is not indexed. Disclosure: `return` before the end of a body; the
four kinds of program of `disclosure_silent`. Types: a bound `Uint<0..N>` with N generic where the
code errs (`NoFalsePositive`); a circuit of the same name imported from another file (documented at
`callee_sig`); a spread as an argument of a call, which the parser does not produce; the ledger
methods shown for a type declared beyond the direct dependencies, which are not those checked; a
cast inside another expression than a return's outermost one, which the code does not judge.

Runs that are expected to fail, each with a finding. They refute what a comment or a document
says, and the counterexample is a behaviour of the code:

| Run | Refuted | Behaviour |
|---|---|---|
| `disclosure_silent` | `EveryDisclosureIsNamed` | four ways to write a secret to the ledger without a leak or an advisory: a constant of an inner block overwrites an outer one; a fold stopped before it has settled; a secret in the receiver of a method; a ledger field of an indirectly included file |
| `rename` | `RenameKeepsReferences` | seven workspaces where an accepted rename leaves a name without or with another meaning: specifiers and prefixed uses in other files, lambda parameters (two), sibling fields, capture in a file without references, the name in an import of a renamed module |

TLC stops at the first counterexample; each of the programs and workspaces named in
`SilentPrograms` and `MCSurprises` violates the property when it is the only one.

Other divergences met while modelling, which have no run of their own. Stated as properties in the
modules; a configuration that lists one of them under INVARIANT or PROPERTY ends with a
counterexample:

| Module | Property | Behaviour |
|---|---|---|
| `DiagnosticsServer` | `ClosedShowsNothing` | a worker that stored its set just before `did_close` publishes after the empty publication |
| `DiagnosticsServer` | `RepublishKeepsCompilerSet` | the flush sends a clone of the compiler set that a worker has replaced and published meanwhile |
| `ProcessControl` | `EveryCallReturns` | the version queries have neither a deadline nor a kill |
| `AnalysisHost` | `InputsStayCurrent` | closing without saving leaves the discarded text in the input that others resolve against |
| `AnalysisHost` | `DeletedImportsFail` | imports of a deleted file go on resolving to it |
| `StdlibStub` | `RegisteredIsBundled` | a server empties the shared stub between another's check and its read; that one has no library for its session |
| `DiagnosticMerge` | `FailureIsShown` | the generic diagnostic of a failed compile gives way to an advisory that sits at the top of the file (with a cap of two) |
| `DiagnosticMerge` | `UnparsedIsSurfaced` | compiler output outside the grammar is dropped if another line is in the grammar |
| `Positions` | `ColumnsClampToContent`, `CompilerColumnsClamp` | a column one beyond the content of a line that ends in CR LF leads between the two |
| `DisclosureMeaning` | `DiscloseOnlyRemoves` | a fold over an aggregate goes as many rounds as its operands have witnesses, and two more: a `disclose()` around its start value changes the parity of one that never settles, and a secret that was not named then is (`UnevenRounds` in `MCDisclosure`) |
| `TypeMeaning` | `NoFalsePositive` | a bound that is a generic parameter is taken for a number beyond every type (on the programs left out of `types`) |

Not stated: a superseded worker past `store_if_current` still publishes; a
worker publishes the native results of save time after newer ones; a failing `try_wait` is
reported as a time-out (hence `poll_failed` in `FinishedRunsCount`), where the comment of
`compile_file` (`compile.rs:90`) says `InvocationError`; a shutdown during the sleeps between attempts
to spawn is not noticed before there is a child; the publication that a caught panic costs is not made
up for before the next change; deleting and creating a file
gives it a second input while importers hold the first; a deleted file comes back into the index
from the disk cache; a restart requested while the teardown is under way starts a server after it;
a dependency with the base name of the saved file is taken for it in the compiler's output.

## 4. Fairness

Only what the code's own scheduling provides is assumed.

* `DiagnosticsServer`: the process goes on: as long as the main loop has a step to take
  (`MainStep`, which includes the flush: the debounce deadline is reached, as its receive has a
  timeout) or a worker has (the compiler call in it returns by `CallsReturn` of `ProcessControl`),
  one of them is taken. The order is free. The client's messages are not fair.
* `ProcessControl`: the calling thread, the two drain threads and the clock go on. Nothing is
  assumed of the processes, which may hang for ever.
* `AnalysisHost`: the main thread finishes the query it has begun (`WF(Walk)`), although the
  disk changes meanwhile.
* `EditorExtension`: the event loop goes on (`WF(Step)`): probes and teardown have timeouts of
  their own and a fetch fails in the end. Nothing is assumed of the server's handshake, which
  has no timeout in the code; `OpsSettle` is therefore conditional on no handshake hanging for
  ever.
* `RequestDispatch`: the server's thread goes on (`WF(Server)`), in some way that is not a panic:
  a handler returns, as far as it does not panic instead. The client owes nothing, not even `exit`,
  whose absence ends in a timeout.
* `Names`, `Types`, `Disclosure`, `Positions`, `DiagnosticMerge` state no fairness: they are
  functions of their input; nor does `StdlibStub`, in which any start may be cut off.

## 5. Proofs

All theorems are checked by TLAPS with SMT, Zenon and LS4. None assumes more than the module's
named `ASSUME` on its constants, which TLC evaluates in every run, except for the hypotheses that
a theorem states itself (`PlainRenamesCaptureNothing`, `DiagnosticsHold`, `AnswersHold`, the operators of
`WitnessSets`), which are named below. Every proof is the usual
argument `Init => I`, `I /\ [Next]_vars => I'`, `I => P`; what is worth saying is why `I` is
stronger than `P`.

`DiagnosticsServerProofs` (`ServerAssumption`): `TypeCorrect` (which also says that one
worker at most holds the lock, and that the notice of a missing toolchain is sent once), `StoredSetsAreLive`,
`SettledViewsAreFresh`, `RegisterImplemented`. That a stored set is of this session is not
inductive, because it says nothing of the workers that may store. `IInv` adds that a worker's
number was handed out once and is at most the file's generation, that the newest number is worn
only by a worker of a document still open whose save came after the last close, and that a
worker inside the critical section wears it: the lock makes that last conjunct survive saves and
closes. That a settled view is fresh is inductive together with what is known of the main thread at
each place of a handler (`HandlerState`): nothing is due outside a flush, and a document being closed
is no longer open. A caught panic moves a file into `lost`, every scheduling takes it out again. The refinement
goes through the same invariant: each step is a step of the register or leaves it alone.

`ProcessControlProofs` (`ProcessAssumption`): `TypeCorrect`, `CallsAreBounded`,
`CancellationIsPrompt`, `FinishedRunsAreSeen`, `GroupsAreKilled`, `SignalsAreOwn`,
`StderrIsNeverCut`, and `CallsKeepTime` and `CleanKills`, which join them. The invariant says for every place of the calling thread how late it can be,
from the deadline (`OnTime`) and from the cancellation (`Prompt`), and how far its timer reaches
(`TimerIsNear`); how much of the sleeps between attempts is used up (`Budget`), which bounds the
deadline itself; that an exit of the child is at most a poll interval old when the loop comes back
(`ExitIsRecent`), from which follows that no run that ended in time is given up; that the child is unreaped until the loop is left (`ChildState`); and that what
was written is in the pipe or captured (`Accounting`).

`AnalysisHostProofs` (`HostAssumption`): `HostTypeCorrect`, `GraphConsistency`,
`IndexConsistency`, `PublishedMaps`, `OpenBuffers`, `CacheIsCoherent`, and
`IndexCoherence` and `CurrentTexts`, which join them. The lemmas
`SourceForStep` and `IndexFileCases` say what the two functions every handler goes through
establish. Coherence of the cache needs that the last notification about a file tells whether
the file is there (`WatchIsTruthful`): only then does handling them in order, while the disk is
already further, end with the text that is on disk.

`EditorExtensionProofs` (`ExtensionAssumption`): `LifecycleTypes`, `ServersAreHeld`,
`OneServer`, `StoredWhole`, `Compatible`, `Configured`, `Prompted`, and `HeldServer` and
`RightServer`, which join four of them. The argument is that of a
queue: at most one operation of a window is under way (`Chain`, `OneUnderWay`), no client is
adopted meanwhile, and a server runs only where somebody holds it (`Custody`, `SoleServer`).
What an operation has found out of the binary stays true until it is started because the stored
binary only ever changes to the pinned one (`Provenance`, `StepStored`), and what it has read of
the settings is the newest or was announced (`Freshness`), because the listener exists before
the first operation. The actions are first reduced to four kinds of progress (`NextCases`), so
that each part is proved once per kind.

`ServerProofs`, on `RequestDispatch` (`DispatchAssumption`): `TypeCorrect`, `EachAnsweredOnce`, `CurrentAnswers`,
`RefinesLedger`. That no request is forgotten needs to know that the
answers are in order and belong to messages taken (`AnsweredInOrder`) and that the message in hand
has no answer yet (`Busy`); that answers are current needs that the overlay is the text as of the
messages taken, or an older one after a change that was cut off, and that versions grow (`Synced`,
`DocsGrow`): so no answer is ever about an older text than one before it. All answering steps are reduced to one (`Responds`), which is
then a step of the ledger.

`ServerProofs`, on `StdlibStub` (`StubAssumption`): `StubTypeCorrect`, `UndisturbedStart`, `WritersAgree`. What a
writer has not yet written it still comes to (`StillToCome`), so that the last of several writers
leaves no hole; a server that is alone knows what the file holds at each place of its start
(`AloneFinds`).

`DiagnosticMergeProofs` (`PositionsAssumption`, `MergeAssumption`; any text, any output of the
compiler, any native list, any cap): `TypeCorrect`, `ColumnsAreAgreedOn`, `CompilerColumnsAreRead`,
`TokensAreDecoded`, `MessagesAreSaid`, `MergeLosesNothing`. What is published says nothing of how it
came about, so `IInv` adds that the compiler's set is the one built from the last outcome, that the
published list is the merge of the two sets, and that only a failed compile has an output. The rest
is about operators. Ranks in a finite set of numbers are a bijection with `1 .. Cardinality`, from
which it follows that a filter loses and repeats nothing; widths of prefixes grow strictly, so an
offset determines its character; a line is the stretch between two terminators, and its columns are
the widths from its start. Recursion over positions is a function; that it has the equation it is
defined by, and what it computes, is shown by induction over the numbers (`EncodeRecursion`,
`DecodeRecursion`). The library's induction theorems cannot be used here, as they take an operator;
induction is derived from `FS_StrictSubsetOrderingWellFounded` instead, for a set in the place of
the operator.

`AnalysesProofs`, on `Names` (`NamesAssumption`: the workspaces are `WellFormed`, the indexed files
are among them): `NamesTypeCorrect`, `ResolutionIsExact`, `ImportsAreJudgedAlike`,
`CompletionIsExact`, `ReferencesAreMutual`, `PlainRenamesCaptureNothing`. `TypeOK` is inductive because a rename changes texts
only, and because what it edits are tokens: every definition found from a file lies in any set of
files that is closed under includes and targets of imports (`DefinitionsStayInside`). The properties
are facts of any such state.
The search through the includes recurses on the path it is on; by induction on the number of
files not on it, it finds a declaration of some file it may enter, if there is one
(`SearchStaysInside`, `SearchMissesNothing`), and those files are the least closed set
(`ClosureHolds`). The guard against cycles loses nothing because a file barred on one path was
searched at the place that barred it (`WithinSplits`). An import is followed from label to member
by the resolver and from member to label by completion; the two are inverse where labels differ
(`OneImport`, `VisibleLabelsAre`). The nearest binding of a name exists and is unique
(`NearestIs`), so that the order in which completion lists them and the choice of the resolver
coincide. References are mutual because the files to be searched depend on the definition only.
The last theorem is about a step: `RenamedSitesAgree`, if each accepted rename is a `PlainRename`,
of a local whose own declaration is among the references (that of a lambda parameter is not, see
`rename`), or of an item that is no module and no member, where no import prefixes or selects.
Whatever the order of the search, it finds some candidate that has the name and none only if there is
none (`LocalFound`, `InFileFound`), and a rename changes the name of a candidate only by editing
its one declaration (`OnePart`, `DeclaredOnce`), so the candidates stay the same (`ReachStays`) and
the renamed one alone gets the new name: the conflict check saw that at each site no other had it.

`AnalysesProofs`, on `WitnessSets` (no assumption; the sets of sources, origins and path points are
parameters): `MergeKeepsBoth`, `MergeIsAssociative`, `BranchesStayControlled`, `FilterOfMerge`,
`LeaksAreKept`, `LeakOrderIsIrrelevant`, `FreshUids`. They say that none of the operations the
interpreter is built from forgets a witness, a leak or an advisory, and that the report does not
depend on the grouping of operands or the order of leaks. All of them rest on two sets agreeing about
the witnesses they share (`Consistent`), which holds because uids are handed out once: `FreshUids`.

`TypesProofs` (`LimitsAssumption`, `ProgramsAssumption`, `MeaningAssumption`, `SurfacesAssumption`; any
limits, any programs, any table of methods, any generic parameters): `MismatchesAreFound`,
`DiagnosticsHold`, `AnswersHold`. The invariants are small. `PassesInv` says that the diagnostics are
those of the passes done so far, each a function of the program alone (`Reported`); `AnswerInv` that
the answer is `TypeExpr` of the expression asked about, which stays what it is (`TypeExprStays`). The
work is in what types mean, and goes in four steps. First, each recursion is sound and has the
equation it is defined by; recursion and induction over trees are had from induction over their
levels, and over the places of a body (`ValuesOf`) in the order of statements, as a const is bound by
an earlier one. Second, what an annotation or expression is lowered to is related to its values by a
set of pairs of a kind and values that is closed under parts (`Sound`, `Fits`): every annotation and
every expression yields such a pair (`TypesAreSound`, `ExprsAreSound`). Third, on pairs of a sound
set, what `IsSubtype` rejects is no inclusion of values (`Rejection`), and what it accepts between
kinds that are exact is one (`Acceptance`); what is modelled is lowered to an exact kind
(`ModelledIsExact`). From the one follows that every diagnostic is real, from the other that every
mismatch is found. Rejection needs that no type is empty (`ValuesHold`): a tuple with an element that
has no values would be none itself, and so fit anywhere. Fourth, for the type that is shown, the kind lets
through all the values (`KindLetsThrough`, and through declarations of other files, by induction on
the room left, `DeclarationsLetThrough`), each form of expression hands that on (`Means`,
`LevelMeans`), and the annotation displayed is lowered to the kind again (`ExactIsDisplayed`).
Two hypotheses are stated. `DiagnosticsHold` leaves out programs that cast to a Uint whose bound is a
generic parameter (`NumberedBounds`): of those `NoFalsePositive` is false. `AnswersHold` leaves out
instantiations of a bound with 0: `Uint<0..0>` is no type, but `Uint<0..N>` is kept as a number type.
`MCTypes` checks that the programs and parameters of the run `types` meet both, and that the program
of the divergence does not meet the first.

Only model-checked: the liveness properties (`NothingBlocks`, `EditsReachEditor`, `NothingHangs`, `QueriesEnd`, `OpsSettle`,
`EveryRequestIsAnswered`, `WaitingClientsAreServed`), because TLAPS has no rules here for fairness and ENABLED; the
refutations; the two properties of `DisclosureMeaning`, which are no theorems: both are false of folds
that are stopped before they have settled (`disclosure_silent`, `UnevenRounds`), so they hold of the
forms of the run `disclosure` only, where the analysis is compared with an independent semantics
(besides, what recurses on syntax there are RECURSIVE operators, for which there is no backend); and `RenamedSitesAgree` of renames that are not plain: it holds
of those in the run `names` (modules, members, imports with prefixes and selections) and is false of
others (lambda parameters, sibling fields), so it is no theorem without its hypothesis.

## 6. What is not modelled

* Server: the parameters and results of requests beyond how they are answered; several documents
  in `RequestDispatch` (the overlays of others do not matter to an answer's order or age). The crawl
  at the start indexes each file under a `catch_unwind` of its own: a file whose indexing panics is
  logged and skipped; the crawl of `AnalysisHost` indexes every file.
* Toolchain: the grammar of an output line, the extent of a located token, the list of candidates of
  discovery, the verdicts of the differential harness.
* Standard library stub: a reader that sees half of another's write call (a read takes one state of
  the file); a file that is removed while a server has it open.
* Process control: reading a file for formatting and writing its temporary file are a yes or no
  (`prepared`, `usable`).
* Analysis host: a search path that is reconfigured while
  running, subsequence matching in workspace symbols, the order of the directory walk (the crawl
  takes the files in any order).
* Extension: the language-client library's own restarts of a crashed server, the status item and
  its messages, temporary files left behind by a killed window (their names are never used
  again), archive and version formats.
* Names: diagnostics of unresolved names, hover details, salsa's memoization; offsets inside a
  token; an index that is not complete (that is `AnalysisHost`).
* Types: most rows of the table of ledger methods (three surfaces stand for it), the wording of a
  diagnostic, ranges.
* Disclosure: most rows of the tables of natives and ledger operations (one of each class stands for
  them), the wording of a path, the order of the report.
* Components marked not modelled in `PROJECT.json`: the reason is with each.

## 7. Plan

Done: the core (server, its toolchain, the host, the extension), its abstract register, its
proofs; the three analyses with their semantics; references, rename and completion; dispatch with its
ledger and proofs; merging and positions, and their proofs; the standard library stub and its proofs;
the proofs about witness sets, about name resolution, imports, completion, references and rename, and
about types, their diagnostics and the type shown. What is
left, by what would hurt most if it were wrong.

1. A proof about the disclosure interpreter without folds over aggregates and without blocks that
   shadow: its evaluation as a function on syntax of some nesting, as in `Types`, and that two runs that
   differ in one secret agree on what is public unless a leak names it (`EveryDisclosureIsNamed`).
   `WitnessSets` has the lemmas about its operators.
2. The theorem about renames beyond plain ones: prefixed and selective imports, whose labels follow
   a rename only in the files that are searched.
3. `Names` over `AnalysisHost`: resolution on an index that is being filled, so that what an answer
   misses is bounded by what is not indexed yet; a rename that runs before the crawl has ended.
4. `RequestDispatch` with `DiagnosticsServer`: requests answered while publications are under way,
   and how long a flush keeps a request waiting.
