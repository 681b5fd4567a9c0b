------------------------------- MODULE Routes -------------------------------
(***************************************************************************)
(* Which server answers for a file, and in which language it is opened:    *)
(* Config::route and language_id_for_path of src/src/config.rs.            *)
(*                                                                         *)
(* A file name is the sequence of its parts between dots, an extension     *)
(* that of the parts behind its first dot.  A pattern is the set of names  *)
(* that it matches; globs themselves are the library's.                    *)
(***************************************************************************)
EXTENDS Naturals, Sequences, FiniteSets

\* RawConfig::validate: a server that nothing leads to is refused.
Valid(server) == server.extensions # <<>> \/ server.patterns # {}

PatternLanguages(server, name) ==
  {p.language : p \in {q \in server.patterns : name \in q.matches}}

\* ends_with: the extension brings its dot.
EndsWith(name, extension) ==
  LET stem == Len(name) - Len(extension) IN
  stem > 0 /\ SubSeq(name, stem + 1, Len(name)) = extension
Matching(server, name) ==
  {e \in DOMAIN server.extensions : EndsWith(name, e)}
Longest(extensions) ==
  CHOOSE e \in extensions : \A other \in extensions : Len(other) <= Len(e)

\* A pattern goes before an extension, and a longer extension before others.
LanguageIdForPath(server, name) ==
  LET languages == PatternLanguages(server, name)
      matching == Matching(server, name)
  IN CASE Cardinality(languages) > 1 -> [kind |-> "AmbiguousLanguages"]
       [] Cardinality(languages) = 1 ->
            [kind |-> "Language", language |-> CHOOSE l \in languages : TRUE]
       [] languages = {} /\ matching = {} -> [kind |-> "NoMatch"]
       [] OTHER -> [kind |-> "Language",
                    language |-> server.extensions[Longest(matching)]]

Speaks(server, name) == LanguageIdForPath(server, name).kind = "Language"

\* The route to the n-th server, which the caller named.
RouteTo(servers, name, n) ==
  IF n \notin DOMAIN servers THEN [kind |-> "UnknownServer"]
  ELSE LET result == LanguageIdForPath(servers[n], name) IN
       IF result.kind # "Language" THEN result
       ELSE [kind |-> "Route", server |-> n, language |-> result.language]

\* The mutant that is content with the first server that speaks for the file.
RouteFirst(servers, name) ==
  LET matches == {n \in DOMAIN servers : Speaks(servers[n], name)} IN
  IF matches = {} THEN [kind |-> "NoMatch"]
  ELSE RouteTo(servers, name,
               CHOOSE n \in matches : \A m \in matches : n <= m)

\* Without a name: all servers are asked, and one that is of two minds ends it.
Route(servers, name) ==
  LET matches == {n \in DOMAIN servers : Speaks(servers[n], name)} IN
  IF \E n \in DOMAIN servers :
       LanguageIdForPath(servers[n], name).kind = "AmbiguousLanguages"
    THEN [kind |-> "AmbiguousLanguages"]
  ELSE CASE matches = {} -> [kind |-> "NoMatch"]
         [] Cardinality(matches) = 1 ->
              RouteTo(servers, name, CHOOSE n \in matches : TRUE)
         [] OTHER -> [kind |-> "AmbiguousServers", servers |-> matches]
=============================================================================
