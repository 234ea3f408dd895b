-------------------------- MODULE MCDiagnosticMerge --------------------------
(* A small instance of DiagnosticMerge: of the texts that are typed, these are *)
(* compiled: nothing, wide characters on one line and on two, and a CR LF.     *)
EXTENDS DiagnosticMerge

MCSavedTexts ==
  {<< >>, <<"astral", "ascii">>, <<"accent", "nl", "astral">>, <<"cr", "nl">>}
=============================================================================
