--------------------------- MODULE MCAnalysisHost ---------------------------
(* Small instances of AnalysisHost.                                        *)
EXTENDS AnalysisHost, TLC

CONSTANTS a, b,        \* files
          plain, uses, takes  \* texts

\* `uses` includes the spec "b" and `takes` imports it as a module; so b,
\* holding one of them, includes or imports itself.
Spec_b == [raw |-> "b", is_include |-> TRUE]
Import_b == [raw |-> "b", is_include |-> FALSE]

Includes_b == (plain :> {}) @@ (uses :> {Spec_b})
UsesOrTakes_b == Includes_b @@ (takes :> {Import_b})

\* "b" is the file b, wherever it is asked from.
OnlyB == "b" :> <<b>>

\* "b" is looked for at a first, so that a shadows b whenever it exists.
ShadowedB == "b" :> <<a, b>>

=============================================================================
