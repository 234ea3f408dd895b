------------------------------ MODULE StdlibStub ------------------------------
(***************************************************************************)
(* The stub of the standard library on disk                                *)
(* (crates/analyzer-core/src/stdlib.rs: materialize; run in                *)
(* crates/compact-analyzer/src/server.rs and register_stdlib in analysis.rs*)
(* which call and follow it).                                              *)
(*                                                                         *)
(* Every server of a version shares one file in the temporary directory.   *)
(* At its start a server compares it with the text it was built with,      *)
(* rewrites it in place if it differs, and then reads it, once for the     *)
(* whole session.  Servers start, end and are killed at any moment, and    *)
(* others may edit or remove the file.                                     *)
(*                                                                         *)
(* The file is the pieces in which it is written.  A missing file counts as*)
(* an empty one: neither is the stub.                                      *)
(***************************************************************************)
EXTENDS Naturals

CONSTANTS Servers,
          Blocks    \* how many pieces the text is written in

ASSUME StubAssumption == Blocks \in Nat \ {0}

VARIABLES file,     \* what each piece of the file holds
          pc,       \* where each server is in its start
          next,     \* the piece a server writes next
          text,     \* what each server has registered as the standard library
          alone,    \* whether nobody else has emptied or edited the file since it started
          spoiled   \* whether a writer was cut off or an outsider touched the file
stubVars == <<file, pc, next, text, alone, spoiled>>

Pieces == 1 .. Blocks
Content == [Pieces -> {"none", "bundled", "foreign"}]
Empty == [p \in Pieces |-> "none"]
IsBundled == \A p \in Pieces : file[p] = "bundled"
StartPhase == {"down", "check", "open", "write", "register", "serving"}
Text == {"none", "bundled", "other"}

StubInit ==
  /\ file \in Content
  /\ pc = [s \in Servers |-> "down"]
  /\ next = [s \in Servers |-> 1]
  /\ text = [s \in Servers |-> "none"]
  /\ alone = [s \in Servers |-> FALSE]
  /\ spoiled = FALSE

Go(s, phase) == pc' = [pc EXCEPT ![s] = phase]

-----------------------------------------------------------------------------
Start(s) ==
  /\ pc[s] = "down" /\ Go(s, "check")
  /\ text' = [text EXCEPT ![s] = "none"]
  /\ alone' = [alone EXCEPT ![s] = TRUE]
  /\ UNCHANGED <<file, next, spoiled>>

(* A mutant: what is there is taken for the stub. *)
CheckPresence(s) ==
  /\ pc[s] = "check"
  /\ Go(s, IF file = Empty THEN "open" ELSE "register")
  /\ UNCHANGED <<file, next, text, alone, spoiled>>

(* materialize: read_to_string, and whether it is the bundled text. *)
Check(s) ==
  /\ pc[s] = "check"
  /\ Go(s, IF IsBundled THEN "register" ELSE "open")
  /\ UNCHANGED <<file, next, text, alone, spoiled>>

(* create_dir_all; then fs::write opens the file and cuts it off. *)
Open(s) ==
  /\ pc[s] = "open" /\ Go(s, "write")
  /\ file' = Empty
  /\ next' = [next EXCEPT ![s] = 1]
  /\ alone' = [t \in Servers |-> alone[t] /\ t = s]
  /\ UNCHANGED <<text, spoiled>>

(* A mutant: one write call, however much of the text it takes. *)
WriteOnce(s) ==
  /\ pc[s] = "write" /\ Go(s, "register")
  /\ file' = [file EXCEPT ![next[s]] = "bundled"]
  /\ UNCHANGED <<next, text, alone, spoiled>>

(* fs::write goes on, at its own place in the file, to the end of the text. *)
Write(s) ==
  /\ pc[s] = "write" /\ Go(s, IF next[s] = Blocks THEN "register" ELSE "write")
  /\ file' = [file EXCEPT ![next[s]] = "bundled"]
  /\ next' = [next EXCEPT ![s] = IF @ = Blocks THEN 1 ELSE @ + 1]
  /\ UNCHANGED <<text, alone, spoiled>>

(* The directory or the file cannot be written: the server does without. *)
Fail(s) ==
  /\ pc[s] \in {"open", "write"} /\ Go(s, "serving")
  /\ spoiled' = (spoiled \/ pc[s] = "write")
  /\ UNCHANGED <<file, next, text, alone>>

(* register_stdlib reads the file through the VFS, which keeps what it read. *)
Register(s) ==
  /\ pc[s] = "register" /\ Go(s, "serving")
  /\ text' = [text EXCEPT ![s] = IF IsBundled THEN "bundled" ELSE "other"]
  /\ UNCHANGED <<file, next, alone, spoiled>>

(* The process of a server ends. *)
Stop(s) ==
  /\ pc[s] # "down" /\ Go(s, "down")
  /\ spoiled' = (spoiled \/ pc[s] = "write")
  /\ text' = [text EXCEPT ![s] = "none"]
  /\ UNCHANGED <<file, next, alone>>

(* Somebody edits the file, which go-to-definition opens, or clears it away. *)
Touch ==
  /\ file' \in Content
  /\ alone' = [s \in Servers |-> FALSE] /\ spoiled' = TRUE
  /\ UNCHANGED <<pc, next, text>>

StubNext ==
  \/ Touch
  \/ \E s \in Servers : Start(s) \/ Check(s) \/ Open(s) \/ Write(s) \/ Fail(s) \/ Register(s) \/ Stop(s)
StubSpec == StubInit /\ [][StubNext]_stubVars

-----------------------------------------------------------------------------
(* Every variable keeps its type. *)
StubTypeOK ==
  /\ file \in Content
  /\ pc \in [Servers -> StartPhase] /\ next \in [Servers -> Pieces] /\ text \in [Servers -> Text]
  /\ alone \in [Servers -> BOOLEAN] /\ spoiled \in BOOLEAN

(* Whatever earlier servers left behind when they were killed, and whoever is
   still writing, a server during whose start nobody else empties or edits the
   file has the bundled library, or none. *)
AloneIsRight == \A s \in Servers : alone[s] => text[s] # "other"

(* Servers that start together write over each other, but the file that is left
   is the stub: a start after them finds it in order. *)
Ready(s) == pc[s] = "register" \/ text[s] # "none"
SettledIsWhole ==
  ~spoiled /\ (\A s \in Servers : pc[s] # "write") /\ (\E s \in Servers : Ready(s)) => IsBundled

-----------------------------------------------------------------------------
(* stdlib.rs: "the analyzer mirrors it with this embedded, signature-accurate
   stub".  What a server registers is the bundled text, if no writer was cut off
   and nobody else touched the file. *)
RegisteredIsBundled == ~spoiled => \A s \in Servers : text[s] # "other"
=============================================================================
