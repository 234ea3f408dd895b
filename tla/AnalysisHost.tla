---------------------------- MODULE AnalysisHost ----------------------------
(***************************************************************************)
(* The recompute engine's state: the VFS with its overlays and its disk    *)
(* cache, the salsa inputs the host provisions from it, the maps it        *)
(* publishes to the resolution queries, and the workspace index with its   *)
(* dependency graph - under the editor, the file watcher, a disk that      *)
(* changes on its own, and the queries that index on demand.               *)
(* Source: crates/analyzer-core/src/{analysis,vfs,workspace,source_path}.rs*)
(* and the handlers of crates/compact-analyzer/src/server.rs that drive it.*)
(*                                                                         *)
(* The server is single-threaded, so a handler is one action; only the     *)
(* disk changes by itself, and its notifications arrive later, in order.   *)
(* A text is an abstract value that says what it imports.  A file's salsa  *)
(* input is its place in `texts[file]`: forgetting a file and providing it *)
(* again makes a new input, the old one keeps the text it had.             *)
(***************************************************************************)
EXTENDS Naturals, Sequences, FiniteSets

CONSTANTS Files,       \* the paths there can be (FileIds)
          Texts,       \* the texts a file can have
          Raws,        \* the specs a text can import
          Imports,     \* Imports[t]: what t imports, [raw, is_include] records
          Candidates,  \* Candidates[r]: where r is looked for, in search order
          Absent,      \* no text, no file
          MaxChanges   \* bound: changes made by the editor and on the disk

Import == [raw : Raws, is_include : BOOLEAN]

ASSUME HostAssumption ==
  /\ Absent \notin Files \cup Texts
  /\ Imports \in [Texts -> SUBSET Import]
  /\ Candidates \in [Raws -> Seq(Files)]
  /\ MaxChanges \in Nat

VARIABLES
  \* --- outside the server ---
  disk,         \* the text on disk
  watch,        \* notifications of the file watcher not yet handled
  changes,      \* changes made so far
  \* --- Vfs ---
  contents,     \* overlay, cached disk text, or nothing
  \* --- AnalysisHost ---
  sources,      \* the file's current salsa input, 0 when it has none
  texts,        \* texts[f][n]: what f's n-th input holds
  dep_inputs,   \* the FileDeps input: known or not, and its resolved imports
  file_srcs,    \* `sources` as published to the queries
  file_deps,    \* the keys of `dep_inputs` as published to the queries
  \* --- WorkspaceIndex ---
  files, symbols, forward, reverse,
  \* --- the server ---
  phase,        \* "crawl" before the watcher is registered, then "serve"
  to_crawl,     \* files the start-up crawl has still to index
  asked,        \* the file the current query is about
  stack, seen,  \* ensure_indexed's worklist
  \* --- history, read by properties only ---
  unwatched     \* files that changed while nothing was watching

world == <<disk, watch, changes, unwatched>>
inputs == <<sources, texts, file_srcs>>
deps == <<dep_inputs, file_deps>>
index == <<files, symbols, forward, reverse>>
walk == <<asked, stack, seen>>
vars == <<world, contents, inputs, deps, index, phase, to_crawl, walk>>

Nothing == [kind |-> "none", text |-> Absent]
Content == {Nothing} \cup [kind : {"overlay", "disk"}, text : Texts]
NoTarget == [file |-> Absent, input |-> 0]
Target == [file : Files, input : Nat]
Dep == [raw : Raws, is_include : BOOLEAN, target : Target \cup {NoTarget}]
Event == [file : Files, deleted : BOOLEAN]

Idle == asked = Absent

Open == {f \in Files : contents[f].kind = "overlay"}

Init ==
  /\ disk \in [Files -> Texts \cup {Absent}]
  /\ watch = <<>> /\ changes = 0 /\ unwatched = {}
  /\ contents = [f \in Files |-> Nothing]
  /\ sources = [f \in Files |-> 0] /\ texts = [f \in Files |-> <<>>]
  /\ file_srcs = sources
  /\ dep_inputs = [f \in Files |-> [known |-> FALSE, deps |-> {}]]
  /\ file_deps = {}
  /\ files = {} /\ symbols = [f \in Files |-> Absent]
  /\ forward = [f \in Files |-> {}] /\ reverse = [f \in Files |-> {}]
  /\ phase = "crawl" /\ to_crawl = {f \in Files : disk[f] # Absent}
  /\ asked = Absent /\ stack = {} /\ seen = {}

-----------------------------------------------------------------------------
(* Reading and provisioning.                                               *)

\* Vfs::read: overlay or cached text, else what is on disk now.
Read(c, f) == IF c[f].kind = "none" THEN disk[f] ELSE c[f].text

Readable(c, S) == {f \in S : Read(c, f) # Absent}

\* Reading caches what came from disk.
Cached(c, S) ==
  [f \in Files |-> IF f \in Readable(c, S) /\ c[f].kind = "none"
                     THEN [kind |-> "disk", text |-> disk[f]] ELSE c[f]]

\* The input each file of S has once it is provisioned.
InputOf(c, S) ==
  [f \in Files |-> IF f \in Readable(c, S) /\ sources[f] = 0
                     THEN Len(texts[f]) + 1 ELSE sources[f]]

\* source_for, for every file of S: a new input is appended, the current one is
\* updated in place; the map is published again only when it grew.
SourceFor(c, S) ==
  /\ contents' = Cached(c, S)
  /\ sources' = InputOf(c, S)
  /\ texts' = [f \in Files |->
       IF f \notin Readable(c, S) THEN texts[f]
       ELSE IF sources[f] = 0 THEN Append(texts[f], Read(c, f))
       ELSE [texts[f] EXCEPT ![sources[f]] = Read(c, f)]]
  /\ file_srcs' = IF sources' # sources THEN sources' ELSE file_srcs

\* find_source_pathname: the first candidate that exists on disk.
Exists(r) == {i \in DOMAIN Candidates[r] : disk[Candidates[r][i]] # Absent}

Find(r) ==
  IF Exists(r) = {} THEN Absent
  ELSE Candidates[r][CHOOSE i \in Exists(r) : \A j \in Exists(r) : i <= j]

-----------------------------------------------------------------------------
(* The index.                                                              *)

\* Mutant: edges the file no longer has stay in the reverse map.
MutantSetFile(f, text, edges) ==
  /\ files' = files \cup {f}
  /\ symbols' = [symbols EXCEPT ![f] = text]
  /\ reverse' = [d \in Files |-> IF d \in edges THEN reverse[d] \cup {f} ELSE reverse[d]]
  /\ forward' = [forward EXCEPT ![f] = edges]

\* WorkspaceIndex::set_file.
SetFile(f, text, edges) ==
  /\ files' = files \cup {f}
  /\ symbols' = [symbols EXCEPT ![f] = text]
  /\ reverse' = [d \in Files |->
       (IF d \in forward[f] THEN reverse[d] \ {f} ELSE reverse[d])
         \cup (IF d \in edges THEN {f} ELSE {})]
  /\ forward' = [forward EXCEPT ![f] = edges]

\* WorkspaceIndex::remove: edges that point at f are kept.
Remove(f) ==
  /\ files' = files \ {f}
  /\ symbols' = [symbols EXCEPT ![f] = Absent]
  /\ reverse' = [d \in Files |-> IF d \in forward[f] THEN reverse[d] \ {f} ELSE reverse[d]]
  /\ forward' = [forward EXCEPT ![f] = {}]

\* Mutant: the input is made once and never updated.
MutantPublishFileDeps(f, resolved) ==
  /\ dep_inputs' = IF dep_inputs[f].known THEN dep_inputs
                   ELSE [dep_inputs EXCEPT ![f] = [known |-> TRUE, deps |-> resolved]]
  /\ file_deps' = file_deps \cup {f}

\* publish_file_deps: the input is made or updated; the map is published again
\* only when it grew.
PublishFileDeps(f, resolved) ==
  /\ dep_inputs' = [dep_inputs EXCEPT ![f] = [known |-> TRUE, deps |-> resolved]]
  /\ file_deps' = IF dep_inputs[f].known THEN file_deps
                  ELSE {g \in Files : dep_inputs'[g].known}

\* index_file, starting from contents c.  An import whose target exists but
\* cannot be read resolves to nothing; an unreadable file leaves the index but
\* keeps its inputs.
IndexFile(c, f) ==
  LET text == Read(c, f)
      wanted == {Find(i.raw) : i \in Imports[text]} \ {Absent}
      found == Readable(c, wanted)
      input == InputOf(c, {f} \cup wanted)
      Resolved(i) == [raw |-> i.raw, is_include |-> i.is_include,
                      target |-> IF Find(i.raw) \in found
                                   THEN [file |-> Find(i.raw), input |-> input[Find(i.raw)]]
                                   ELSE NoTarget]
  IN IF text = Absent
       THEN Remove(f) /\ contents' = c /\ UNCHANGED <<inputs, deps>>
       ELSE /\ SourceFor(c, {f} \cup wanted)
            /\ PublishFileDeps(f, {Resolved(i) : i \in Imports[text]})
            /\ SetFile(f, text, found)

-----------------------------------------------------------------------------
(* Start-up: every file found under the roots, then the watcher.           *)

CrawlIndex(f) ==
  /\ phase = "crawl" /\ f \in to_crawl
  /\ to_crawl' = to_crawl \ {f}
  /\ IndexFile(contents, f)
  /\ UNCHANGED <<world, phase, walk>>

RegisterFileWatcher ==
  /\ phase = "crawl" /\ to_crawl = {}
  /\ phase' = "serve"
  /\ UNCHANGED <<world, contents, inputs, deps, index, to_crawl, walk>>

-----------------------------------------------------------------------------
(* The server's handlers.                                                  *)

Serving == phase = "serve" /\ Idle

Change == changes < MaxChanges /\ changes' = changes + 1

\* The overlay replaces whatever there was, and the file is indexed.
SetOverlay(f, t) ==
  IndexFile([contents EXCEPT ![f] = [kind |-> "overlay", text |-> t]], f)

DidOpen(f, t) ==
  /\ Serving /\ Change /\ f \notin Open
  /\ SetOverlay(f, t)
  /\ UNCHANGED <<disk, watch, unwatched, phase, to_crawl, walk>>

\* Mutant: indexing is left to the next query.
MutantDidChange(f, t) ==
  /\ Serving /\ Change /\ f \in Open
  /\ contents' = [contents EXCEPT ![f] = [kind |-> "overlay", text |-> t]]
  /\ UNCHANGED <<disk, watch, unwatched, inputs, deps, index, phase, to_crawl, walk>>

DidChange(f, t) ==
  /\ Serving /\ Change /\ f \in Open
  /\ SetOverlay(f, t)
  /\ UNCHANGED <<disk, watch, unwatched, phase, to_crawl, walk>>

\* Only the overlay is dropped; nothing is read or indexed again.
DidClose(f) ==
  /\ Serving /\ Change /\ f \in Open
  /\ contents' = [contents EXCEPT ![f] = Nothing]
  /\ UNCHANGED <<disk, watch, unwatched, inputs, deps, index, phase, to_crawl, walk>>

\* Mutant: the maps are not published again when they shrink.
MutantForgetFile(f) ==
  /\ sources' = [sources EXCEPT ![f] = 0]
  /\ dep_inputs' = [dep_inputs EXCEPT ![f] = [known |-> FALSE, deps |-> {}]]
  /\ UNCHANGED <<texts, file_srcs, file_deps>>

\* forget_file: both inputs are dropped and both maps published again.
ForgetFile(f) ==
  /\ sources' = [sources EXCEPT ![f] = 0]
  /\ file_srcs' = sources'
  /\ dep_inputs' = [dep_inputs EXCEPT ![f] = [known |-> FALSE, deps |-> {}]]
  /\ file_deps' = {g \in Files : dep_inputs'[g].known}
  /\ UNCHANGED texts

\* Mutant: a change on disk is not looked for behind the cache.
MutantInvalidateDisk(f) == contents

\* invalidate_disk: an overlay is left alone.
InvalidateDisk(f) ==
  IF contents[f].kind = "disk" THEN [contents EXCEPT ![f] = Nothing] ELSE contents

\* One notification of did_change_watched_files: a deleted file is evicted and
\* forgotten, the VFS is not told; any other is read and indexed again.
DidChangeWatchedFiles ==
  /\ Serving /\ watch # <<>>
  /\ watch' = Tail(watch)
  /\ LET f == Head(watch).file IN
       IF Head(watch).deleted
         THEN Remove(f) /\ ForgetFile(f) /\ UNCHANGED contents
         ELSE IndexFile(InvalidateDisk(f), f)
  /\ UNCHANGED <<disk, changes, unwatched, phase, to_crawl, walk>>

\* analyze, for a file that is open, a hit of a workspace-wide search, or the
\* place of a definition that a query has found.
Analyze(f) ==
  /\ Serving /\ f \in files \cup Open \cup {g \in Files : sources[g] # 0}
  /\ SourceFor(contents, {f})
  /\ UNCHANGED <<world, deps, index, phase, to_crawl, walk>>

-----------------------------------------------------------------------------
(* A query about a file that is open or scanned for references: the files   *)
(* it includes are indexed first.                                          *)

QueryBegin(f) ==
  /\ Serving /\ f \in files \cup Open
  /\ asked' = f /\ stack' = {f} /\ seen' = {}
  /\ UNCHANGED <<world, contents, inputs, deps, index, phase, to_crawl>>

Includes(entry) == {d.target.file : d \in {e \in entry.deps : e.is_include}} \ {Absent}

\* Mutant: files already visited are visited again.
MutantEnsureIndexed(f) ==
  /\ f \in stack
  /\ IF dep_inputs[f].known
       THEN UNCHANGED <<contents, inputs, deps, index>>
       ELSE IndexFile(contents, f)
  /\ seen' = seen
  /\ stack' = (stack \ {f}) \cup (Includes(dep_inputs'[f]) \ seen')
  /\ UNCHANGED <<world, phase, to_crawl, asked>>

\* One round of ensure_indexed's loop: only a file without FileDeps is indexed.
EnsureIndexed(f) ==
  /\ f \in stack
  /\ IF dep_inputs[f].known
       THEN UNCHANGED <<contents, inputs, deps, index>>
       ELSE IndexFile(contents, f)
  /\ seen' = seen \cup {f}
  /\ stack' = (stack \ {f}) \cup (Includes(dep_inputs'[f]) \ seen')
  /\ UNCHANGED <<world, phase, to_crawl, asked>>

\* The file's own inputs are provisioned, FileDeps empty if there is none, and
\* the tracked query runs on them.
QueryEnd ==
  /\ asked # Absent /\ stack = {}
  /\ SourceFor(contents, {asked})
  /\ IF Read(contents, asked) # Absent /\ ~dep_inputs[asked].known
       THEN PublishFileDeps(asked, {})
       ELSE UNCHANGED deps
  /\ asked' = Absent /\ seen' = {}
  /\ UNCHANGED <<world, index, phase, to_crawl, stack>>

-----------------------------------------------------------------------------
(* The disk, changed by anyone at any time.                                *)

Notify(f, gone) ==
  IF phase = "serve"
    THEN watch' = Append(watch, [file |-> f, deleted |-> gone]) /\ UNCHANGED unwatched
    ELSE unwatched' = unwatched \cup {f} /\ UNCHANGED watch

DiskWrite(f, t) ==
  /\ Change /\ disk[f] # t
  /\ disk' = [disk EXCEPT ![f] = t]
  /\ Notify(f, FALSE)
  /\ UNCHANGED <<contents, inputs, deps, index, phase, to_crawl, walk>>

DiskDelete(f) ==
  /\ Change /\ disk[f] # Absent
  /\ disk' = [disk EXCEPT ![f] = Absent]
  /\ Notify(f, TRUE)
  /\ UNCHANGED <<contents, inputs, deps, index, phase, to_crawl, walk>>

-----------------------------------------------------------------------------

Editor ==
  \E f \in Files : \/ \E t \in Texts : DidOpen(f, t) \/ DidChange(f, t)
                   \/ DidClose(f) \/ Analyze(f) \/ QueryBegin(f)

Walk == (\E f \in Files : EnsureIndexed(f)) \/ QueryEnd

StartUp == (\E f \in Files : CrawlIndex(f)) \/ RegisterFileWatcher

Disk == \E f \in Files : DiskDelete(f) \/ \E t \in Texts : DiskWrite(f, t)

Next == StartUp \/ Editor \/ Walk \/ DidChangeWatchedFiles \/ Disk

Spec == Init /\ [][Next]_vars

\* The main thread finishes the query it has begun.
FairSpec == Spec /\ WF_vars(Walk)

-----------------------------------------------------------------------------
(* Properties                                                              *)

\* Every variable keeps its type; an input in use has been made.
TypeOK ==
  /\ disk \in [Files -> Texts \cup {Absent}]
  /\ watch \in Seq(Event) /\ changes \in Nat /\ unwatched \subseteq Files
  /\ contents \in [Files -> Content]
  /\ texts \in [Files -> Seq(Texts)]
  /\ sources \in [Files -> Nat] /\ file_srcs \in [Files -> Nat]
  /\ \A f \in Files : sources[f] \in 0..Len(texts[f])
  /\ dep_inputs \in [Files -> [known : BOOLEAN, deps : SUBSET Dep]]
  /\ file_deps \subseteq Files /\ files \subseteq Files
  /\ symbols \in [Files -> Texts \cup {Absent}]
  /\ forward \in [Files -> SUBSET Files] /\ reverse \in [Files -> SUBSET Files]
  /\ phase \in {"crawl", "serve"} /\ to_crawl \subseteq Files
  /\ asked \in Files \cup {Absent} /\ stack \subseteq Files /\ seen \subseteq Files

\* The two halves of the dependency graph are inverse to each other, through
\* re-indexing and eviction, and an evicted file has no edges of its own
\* (WorkspaceIndex::set_file, remove).
GraphsAgree ==
  /\ \A f, d \in Files : f \in reverse[d] <=> d \in forward[f]
  /\ \A f \in Files : f \notin files => forward[f] = {} /\ symbols[f] = Absent

Edges(f) == {d.target.file : d \in dep_inputs[f].deps} \ {Absent}

\* An indexed file's symbol table, dependency edges and FileDeps all come from
\* one and the same text (index_file).
IndexMatchesDeps ==
  \A f \in files :
    /\ dep_inputs[f].known /\ forward[f] = Edges(f)
    /\ symbols[f] # Absent
    /\ {[raw |-> d.raw, is_include |-> d.is_include] : d \in dep_inputs[f].deps}
         = Imports[symbols[f]]

\* Whatever order files are indexed, indexed again and evicted in, the index has
\* one account of each: both directions of the graph, the symbols and FileDeps.
IndexIsCoherent == GraphsAgree /\ IndexMatchesDeps

\* What the queries see of the keysets is what the host has, although the maps
\* are published only when they grow or shrink (republish_file_srcs,
\* republish_file_deps_map, forget_file).
PublishedMapsAreCurrent ==
  file_srcs = sources /\ file_deps = {f \in Files : dep_inputs[f].known}

\* The current input of an open document holds the editor's text, and so do the
\* symbols of one that is indexed: an edit is seen by whoever holds the input
\* without waiting for a query (did_change, source_for).
OpenBuffersAreLive ==
  \A f \in Open :
    /\ sources[f] # 0 => texts[f][sources[f]] = contents[f].text
    /\ f \in files => symbols[f] = contents[f].text

Pending(f) == f \in unwatched \/ \E i \in DOMAIN watch : watch[i].file = f

\* Text cached from disk is what is on disk, once the watcher's notifications
\* have been handled and as long as there is a file (invalidate_disk, read).
CachedTextIsOnDisk ==
  \A f \in Files :
    contents[f].kind = "disk" /\ ~Pending(f) => disk[f] \in {contents[f].text, Absent}

\* What is analyzed is the newest text the host can know: the editor's of an open
\* document, the disk's of another one.
TextsAreCurrent == OpenBuffersAreLive /\ CachedTextIsOnDisk

\* ensure_indexed ends, on include cycles too.
QueriesEnd == \A f \in Files : (asked = f) ~> (asked = Absent)

-----------------------------------------------------------------------------
(* What comments and documents say and the program does not do.            *)

\* "Already-indexed files are left untouched (their inputs stay current via
\* did_change/watcher re-indexing)" (ensure_indexed).
InputsStayCurrent ==
  \A f \in Files :
    dep_inputs[f].known /\ sources[f] # 0 /\ ~Pending(f) /\ Read(contents, f) # Absent
      => texts[f][sources[f]] = Read(contents, f)

\* "delete -> evict + dirty dependents (their imports now fail, surfacing
\* diagnostics)": no import resolves to a file that is gone.
DeletedImportsFail ==
  \A f \in files : \A g \in Edges(f) :
    Idle /\ ~Pending(g) => disk[g] # Absent \/ g \in Open

=============================================================================
