------------------------- MODULE MCDiagnosticsServer -------------------------
(* Small instances of DiagnosticsServer.                                   *)
EXTENDS DiagnosticsServer, TLC

CONSTANTS a, b

\* Toolchain present and compile-on-save wanted: the workers run.
WithToolchain == {[compile_on_save |-> TRUE, formatting |-> TRUE, toolchain |-> TRUE]}

\* With the features wanted, with and without a toolchain.
EitherToolchain == [compile_on_save : {TRUE}, formatting : {TRUE}, toolchain : BOOLEAN]

\* How often each document can be saved, or closed after a save: a goes through
\* save, close, reopen and save again, b is only edited.
Three == a :> 3
ThreeAndNone == a :> 3 @@ b :> 0

=============================================================================
