------------------------------ MODULE MCTools -------------------------------
(* Two callers on one server, under some loads.                             *)
EXTENDS Tools, TLC

CONSTANTS one, other

Load(first, second) == one :> first @@ other :> second
MCLoads == {
  Load(<<"hover">>, <<"previewRename">>),
  Load(<<"previewRename", "applyRename">>, <<"status">>),
  Load(<<"hover", "previewRename", "applyRename">>, <<>>),
  Load(<<"previewRename", "previewRename", "applyRename">>, <<>>),
  Load(<<"signature">>, <<"applyRename">>),
  Load(<<"workspaceSymbols">>, <<"diagnostics">>),
  Load(<<"hierarchy">>, <<"applyRename">>)}

Symmetry == Permutations(Files) \cup Permutations(Texts)
=============================================================================
