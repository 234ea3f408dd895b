--------------------------- MODULE MCProcessControl ---------------------------
(* Small instances of ProcessControl.                                      *)
EXTENDS ProcessControl

Invocation(modes, unix, prepared, usable) ==
  [mode : modes, unix : unix, prepared : prepared, usable : usable]

\* Compiles with process groups, and without, where the search path may not join;
\* formatting requests whose file may fail to be written or read back; the version
\* query, with an answer that looks like a version or not.
EachPlatform == Invocation({"compile"}, {TRUE}, {TRUE}, {TRUE})
                  \cup Invocation({"compile"}, {FALSE}, BOOLEAN, {TRUE})
                  \cup Invocation({"format"}, {FALSE}, BOOLEAN, BOOLEAN)
                  \cup Invocation({"discover"}, {TRUE}, {TRUE}, BOOLEAN)

=============================================================================
