--------------------------- MODULE DiagnosticMerge ---------------------------
(***************************************************************************)
(* What is published for one open file: the native diagnostics merged with *)
(* those of the last compile (crates/compact-analyzer/src/server.rs:       *)
(* build_compiler_diagnostics, merge_diagnostics, cap_diagnostics;         *)
(* crates/analyzer-toolchain/src/parse.rs: parse_compiler_stderr).         *)
(*                                                                         *)
(* A compile replaces the compiler's set and merges it with the native set *)
(* of the text that was saved; an edit merges the compiler's set with the  *)
(* native one of the text as it is.  (When either happens and to which     *)
(* text is the matter of DiagnosticsServer.)  The text here is the one that*)
(* was saved: the compiler counts lines and characters in it, the editor   *)
(* lines and UTF-16 units (Positions).  Each character stands for a token. *)
(*                                                                         *)
(* A line of the compiler's stderr says whether it is in the grammar, names*)
(* the saved file, and which place.  Messages are the numbers of the lines *)
(* they repeat.                                                            *)
(***************************************************************************)
EXTENDS Positions

CONSTANTS SavedTexts,     \* bound: the texts that are compiled
          MaxDiagnostics, \* MAX_DIAGNOSTICS_PER_FILE
          MaxNative,      \* bound: native diagnostics at a time
          MaxLines        \* bound: lines of stderr

ASSUME MergeAssumption ==
  /\ SavedTexts \subseteq Seq(Char)
  /\ {MaxDiagnostics, MaxNative, MaxLines} \subseteq Nat /\ MaxDiagnostics > 0

VARIABLES native,     \* the analyzer's diagnostics as they were last merged
          outcome,    \* what the compile came to, [status, stderr]
          compiler,   \* the diagnostics made of it
          published   \* what the editor was last sent

vars == <<text, native, outcome, compiler, published>>

(* A cancelled compile is never stored: its worker sees the shutdown. *)
Failing == {"error", "timeout", "invocation"}
Status == Failing \cup {"ok"}
Pending == [status |-> "none", stderr |-> << >>]
Line == [kind : {"structured"}, saved : {TRUE},
         line : 0 .. Cardinality(LineStarts) + 1, col : 0 .. Len(text) + 1]
        \cup [kind : {"structured"}, saved : {FALSE}, line : {1}, col : {1}]
        \cup [kind : {"blank", "other"}]

Top == Spread([from |-> 0, to |-> 0])
Ranges == {Spread([from |-> k - 1, to |-> k]) : k \in DOMAIN text}
Severity == {"error", "warning", "information"}
Source == {"native", "compactc", "note"}
Diagnostic ==
  [range : Ranges \cup {Top}, severity : Severity, source : Source, says : SUBSET (1 .. MaxLines)]

(* Advisories may sit at the top, as abs_of_type puts them there for lack of a
   witness; all others are at tokens. *)
Native(range, severity) == [range |-> range, severity |-> severity, source |-> "native", says |-> {}]
NativeDiagnostics ==
  {Native(r, "error") : r \in Ranges} \cup {Native(Top, "warning")}

-----------------------------------------------------------------------------
(* compiler_diagnostic_to_lsp, file_top_compiler_diagnostic *)
CompilerDiagnostic(range, says) ==
  [range |-> range, severity |-> "error", source |-> "compactc", says |-> says]
FileTop(says) == CompilerDiagnostic(Top, says)

(* parse_compiler_stderr: the lines in the grammar, and whether there are others. *)
Parsed(stderr) == {i \in DOMAIN stderr : stderr[i].kind = "structured"}
Unparsed(stderr) == \E i \in DOMAIN stderr : stderr[i].kind = "other"

(* The lines that name the saved file and a position which exists in it. *)
Attributed(stderr) == {i \in Parsed(stderr) : stderr[i].saved /\ IsPlace(stderr[i].line, stderr[i].col)}
Unattributed(stderr) == Parsed(stderr) \ Attributed(stderr)

Squiggles(stderr) ==
  Where([i \in DOMAIN stderr |->
           CompilerDiagnostic(Spread(Locate(stderr[i].line, stderr[i].col)), {i})],
        Attributed(stderr))

(* A mutant: lines about other files only count when there are no others. *)
FromErrorsForgetful(stderr) ==
  IF Attributed(stderr) = {} THEN <<FileTop(Unattributed(stderr))>> ELSE Squiggles(stderr)

(* build_compiler_diagnostics of a CompileError.  Lines out of the grammar, and
   a failure without any, end in one generic diagnostic if there is no other. *)
FromErrors(stderr) ==
  Squiggles(stderr) \o (IF Parsed(stderr) = {} \/ Unattributed(stderr) # {}
                        THEN <<FileTop(Unattributed(stderr))>> ELSE << >>)

BuildCompilerDiagnostics(status, stderr) ==
  IF status = "error" THEN FromErrors(stderr)
  ELSE IF status \in Failing THEN <<FileTop({})>> ELSE << >>

Note == [range |-> Top, severity |-> "information", source |-> "note", says |-> {}]

(* A mutant: the last one that fits is cut off as well. *)
CapShort(diagnostics) ==
  IF Len(diagnostics) <= MaxDiagnostics THEN diagnostics
  ELSE SubSeq(diagnostics, 1, MaxDiagnostics - 1) \o <<Note>>

(* cap_diagnostics: the tail gives way to a note that counts what it hides. *)
CapDiagnostics(diagnostics) ==
  IF Len(diagnostics) <= MaxDiagnostics THEN diagnostics
  ELSE SubSeq(diagnostics, 1, MaxDiagnostics) \o <<Note>>

(* A range that a native diagnostic has stays with it. *)
Apart(compilers, natives) ==
  Where(compilers, {i \in DOMAIN compilers :
                      \A j \in DOMAIN natives : natives[j].range # compilers[i].range})

(* A mutant: what stands before the native diagnostics may cut them off. *)
MergeCompilerFirst(natives, compilers) ==
  CapDiagnostics(Apart(compilers, natives) \o natives)

MergeDiagnostics(natives, compilers) ==
  CapDiagnostics(natives \o Apart(compilers, natives))

-----------------------------------------------------------------------------
Init ==
  /\ text = << >> /\ outcome = Pending
  /\ native = << >> /\ compiler = << >> /\ published = << >>

Write(c) ==
  /\ outcome = Pending /\ Type(c)
  /\ UNCHANGED <<native, outcome, compiler, published>>

(* A worker that is current stores its set and publishes it, merged with the
   native diagnostics it was given when it started.  (A compile replaces all
   that the last one left: one stands for any number of them.) *)
Compiled ==
  /\ outcome = Pending /\ text \in SavedTexts
  /\ \E status \in Status, stderr \in BoundedSeq(Line, MaxLines) :
       /\ status = "error" \/ stderr = << >>
       /\ outcome' = [status |-> status, stderr |-> stderr]
       /\ compiler' = BuildCompilerDiagnostics(status, stderr)
  /\ native' \in BoundedSeq(NativeDiagnostics, MaxNative)
  /\ published' = MergeDiagnostics(native', compiler')
  /\ UNCHANGED text

(* publish_file_diagnostics after an edit: build_native_diagnostics, and the
   compiler's set of the last save.  (Without one it is as after an ok.) *)
Edited ==
  /\ outcome # Pending
  /\ native' \in BoundedSeq(NativeDiagnostics, MaxNative)
  /\ published' = MergeDiagnostics(native', compiler)
  /\ UNCHANGED <<text, outcome, compiler>>

Next == Compiled \/ Edited \/ \E c \in Char : Write(c)
Spec == Init /\ [][Next]_vars

-----------------------------------------------------------------------------
(* Whatever is shown sits at a token of the file or at its top. *)
TypeOK ==
  /\ text \in Seq(Char)
  /\ native \in Seq(NativeDiagnostics)
  /\ outcome = Pending \/ outcome \in [status : Status, stderr : BoundedSeq(Line, MaxLines)]
  /\ {compiler, published} \subseteq Seq(Diagnostic)

(* build_compiler_diagnostics shows a compile that failed, and only one: each
   message of the compiler is in exactly one diagnostic.  The editor finds it
   at the character the compiler counted to, if it is one of the file's. *)
Means(line, k) ==
  line.saved /\ line.line = LineOf(k) + 1 /\ line.col = k - LineStart(LineOf(k)) + 1
EveryMessageIsSaid ==
  /\ compiler # << >> <=> outcome.status \in Failing
  /\ \A n \in Parsed(outcome.stderr) :
       \E i \in DOMAIN compiler :
         /\ \A j \in DOMAIN compiler : n \in compiler[j].says <=> j = i
         /\ \A k \in 0 .. Len(text) - 1 :
              Means(outcome.stderr[n], k) =>
                /\ Offset(compiler[i].range.start) = ByteAt(k)
                /\ Offset(compiler[i].range.end) = ByteAt(k + 1)

(* Nothing is lost between the two sets and the editor: what is not published
   has a native diagnostic in its place, or is announced as hidden by a note
   that stands behind a full list.  The analyzer's own diagnostics do not move or
   go away with what the compiler has to say: they come first, as many as there
   is room for. *)
Room == IF Len(native) <= MaxDiagnostics THEN Len(native) ELSE MaxDiagnostics
NativeComesFirst == SubSeq(published, 1, Room) = SubSeq(native, 1, Room)
Noted == \E i \in DOMAIN published : published[i].source = "note"
Shown(d) == \E i \in DOMAIN published : published[i] = d
Covered(c) == \E i \in DOMAIN native : native[i].range = c.range
NothingIsLost ==
  /\ \A i \in DOMAIN native : Shown(native[i]) \/ Noted
  /\ \A i \in DOMAIN compiler : Shown(compiler[i]) \/ Covered(compiler[i]) \/ Noted
  /\ Noted => Len(published) = MaxDiagnostics + 1
  /\ NativeComesFirst

-----------------------------------------------------------------------------
(* server.rs on build_compiler_diagnostics: a generic diagnostic is there "so a
   real failure is never silently cleared".  As the file's list stands, an error
   or a note that something is hidden is shown for a compile that failed. *)
FailureIsShown ==
  outcome.status \in Failing =>
    Noted \/ \E i \in DOMAIN published : published[i].severity = "error"

(* parse.rs on ParsedStderr::unparsed: "Non-empty => the caller should surface
   a generic diagnostic". *)
UnparsedIsSurfaced ==
  outcome.status = "error" /\ Unparsed(outcome.stderr) =>
    \E i \in DOMAIN compiler : compiler[i].range = Top
=============================================================================
