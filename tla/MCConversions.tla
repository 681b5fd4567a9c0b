--------------------------- MODULE MCConversions ----------------------------
(* The instance of Conversions and Outlines for TLC: see MCConversions.cfg.*)
EXTENDS Outlines

MCNewTexts == {<<"acute">>}

\* One extension ends in the other; a name may be an extension, or begin with
\* the dot of one.
MCExtensions == {<<"ts">>, <<"d", "ts">>}
MCNames == {<<"x", "d", "ts">>, <<"x", "ts">>, <<"", "ts">>, <<"ts">>}

\* Two patterns that meet on one file.
MCPatterns == {
  [matches |-> {<<"x", "ts">>, <<"ts">>}, language |-> "typescript"],
  [matches |-> {<<"x", "ts">>, <<"x", "d", "ts">>}, language |-> "template"]}
=============================================================================
