----------------------------- MODULE ProxyRoute -----------------------------
(***************************************************************************)
(* Pure helpers of the reverse-proxy route                                 *)
(* (src/frontend/web/src/app/api/proxy/[...path]/route.ts, lines 1-42):    *)
(* which backend base the server forwards to and onto which backend path  *)
(* a captured /api/proxy/<rest> request is rewritten.  Strings use the     *)
(* alphabet of module Resolver.                                            *)
(*                                                                         *)
(* An environment variable is Unset (undefined) or a base value of         *)
(* Resolver, where NoBase stands for a variable set to a blank string.     *)
(***************************************************************************)
EXTENDS Resolver

Unset == [kind |-> "unset", origin |-> "none", path |-> <<>>]

\* `candidate.replace(/\/+/, "/")`: only the FIRST run of slashes is
\* collapsed (the regular expression has no g flag).
RECURSIVE CollapseFirstSlashRun(_)
CollapseFirstSlashRun(s) ==
    IF s = <<>> THEN s
    ELSE IF Head(s) = "/" THEN <<"/">> \o StripLeadingSlashes(Tail(s))
    ELSE <<Head(s)>> \o CollapseFirstSlashRun(Tail(s))

(***************************************************************************)
(* resolveApiBaseUrl: API_BASE_URL ?? NEXT_PUBLIC_API_BASE_URL ?? "".      *)
(* The ?? operator only skips an undefined variable, so a blank            *)
(* API_BASE_URL hides a configured NEXT_PUBLIC_API_BASE_URL.  Anything     *)
(* but an absolute URL is a configuration error (a 500 response).          *)
(***************************************************************************)
resolveApiBaseUrl(serverEnv, publicEnv) ==
    LET candidate == IF serverEnv # Unset THEN serverEnv
                     ELSE IF publicEnv # Unset THEN publicEnv
                     ELSE NoBase
    IN  IF candidate.kind = "abs" THEN candidate ELSE NoUrl

\* Mutant: the base pathname keeps its trailing slashes.
buildTargetUrlKeepTrailing(base, joined) ==
    LET normalizedPath == StripLeadingSlashes(joined)
    IN  [kind   |-> "abs",
         origin |-> base.origin,
         path   |-> CollapseFirstSlashRun(JoinPath(base.path, normalizedPath))]

(***************************************************************************)
(* buildTargetUrl: the captured path (segments joined by "/"), leading     *)
(* slashes cut, appended to the base pathname without its trailing         *)
(* slashes, then the first slash run collapsed.  The query string is       *)
(* re-applied verbatim and is not modelled.                                *)
(***************************************************************************)
buildTargetUrl(base, joined) ==
    LET normalizedPath == StripLeadingSlashes(joined)
    IN  [kind   |-> "abs",
         origin |-> base.origin,
         path   |-> CollapseFirstSlashRun(
                       JoinPath(StripTrailingSlashes(base.path), normalizedPath))]

=============================================================================
