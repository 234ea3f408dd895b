-------------------------- MODULE MCEditorExtension --------------------------
(* Small instances of EditorExtension.                                     *)
EXTENDS EditorExtension, TLC

CONSTANTS v, w   \* windows

Surroundings(os, on_path, stored, pinned, artifact) ==
  [windows_os : os, on_path : on_path, stored : stored, pinned : pinned, artifact : artifact]

\* A first installation and one that finds a good server stored, with a release
\* that is good or of the wrong version; and a machine with a server on PATH and
\* no artifact.
Machines ==
  Surroundings({FALSE}, {Absent}, {Absent, "good"}, {"good", "other"}, {TRUE})
    \cup Surroundings({TRUE}, {Absent}, {Absent}, {"good"}, {TRUE})
    \cup Surroundings({FALSE}, {"good"}, {"broken"}, {"good"}, {FALSE})

\* Either window is started and restarted, or started and closed.
TwoAndTwo == v :> 2 @@ w :> 2

=============================================================================
