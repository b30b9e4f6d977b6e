------------------------------ MODULE Resolver ------------------------------
(***************************************************************************)
(* Target resolution of the browser API client                             *)
(* (src/frontend/web/src/lib/api-client.ts, lines 1-143): the pure         *)
(* functions that decide whether one call goes to the backend directly,    *)
(* to a same-origin relative path, or through the same-origin proxy route  *)
(* /api/proxy/[...path].                                                   *)
(*                                                                         *)
(* Strings.  A path is a sequence over a four-letter alphabet:             *)
(*   "/"  a slash,                                                         *)
(*   "a"  any ordinary path text ("auth", "login", "users", ...),          *)
(*   "P"  the text "api/proxy", i.e. the proxy space without its leading   *)
(*        slash, so "P/a" is "api/proxy/a" and "Pa" is "api/proxya",       *)
(*   "!"  the text of a base URL that no URL parser accepts.               *)
(* The slash trimming, prefix tests and joins of the code are modelled     *)
(* character by character on this alphabet; scheme and host are kept as   *)
(* an origin field.                                                        *)
(*                                                                         *)
(* A URL value is a record [kind, origin, path]: kind "abs" for a string   *)
(* that new URL() parses on its own (origin is then its origin), "rel"     *)
(* for a string that is not absolute (its origin field is unused).         *)
(* A configured base URL (NEXT_PUBLIC_API_BASE_URL after trim) is either   *)
(* NoBase (undefined or blank), an absolute URL with origin "page" (the    *)
(* origin the page was loaded from), "backend" (any other origin) or       *)
(* "null" (an opaque origin such as file:), a root-relative path ("rel",   *)
(* resolving against the page origin), or "invalid" (rejected by new URL   *)
(* with and without a base).  Its path is the URL's pathname.              *)
(***************************************************************************)
EXTENDS Naturals, Sequences, SequencesExt

Chars == {"/", "a", "P"}

NoBase == [kind |-> "none", origin |-> "none", path |-> <<>>]

\* The null result of collapseSameOriginBase.
NoUrl == [kind |-> "none", origin |-> "none", path |-> <<>>]

Rel(p) == [kind |-> "rel", origin |-> "none", path |-> p]

\* path.replace(/^\/+/, "")
RECURSIVE StripLeadingSlashes(_)
StripLeadingSlashes(s) ==
    IF s # <<>> /\ Head(s) = "/" THEN StripLeadingSlashes(Tail(s)) ELSE s

\* baseUrl.replace(/\/+$/, "")
RECURSIVE StripTrailingSlashes(_)
StripTrailingSlashes(s) ==
    IF s # <<>> /\ Last(s) = "/" THEN StripTrailingSlashes(Front(s)) ELSE s

\* The template `${a}/${b}`.
JoinPath(a, b) == a \o <<"/">> \o b

\* PROXY_PREFIX = "/api/proxy"
PROXY_PREFIX == <<"/", "P">>

\* The raw text of the base after its origin: the pathname, or the
\* unparseable text of an invalid base.
BaseText(base) == IF base.kind = "invalid" THEN <<"!">> ELSE base.path

(***************************************************************************)
(* isAbsoluteUrl: new URL(url) succeeds.                                   *)
(***************************************************************************)
isAbsoluteUrl(u) == u.kind = "abs"

(***************************************************************************)
(* shouldProxyBrowserRequests: only in the browser, only for a non-blank   *)
(* base.  An absolute base proxies when its origin is "null" or differs    *)
(* from the page's; a relative base is resolved against the page origin    *)
(* and so never differs; a base that fails both parses proxies.            *)
(***************************************************************************)
shouldProxyBrowserRequests(base, inBrowser) ==
    /\ inBrowser
    /\ base.kind # "none"
    /\ \/ base.kind = "abs" /\ (base.origin = "null" \/ base.origin # "page")
       \/ base.kind = "invalid"

(***************************************************************************)
(* buildProxyPath                                                          *)
(***************************************************************************)
buildProxyPath(path) ==
    LET trimmedPath == StripLeadingSlashes(path)
    IN  Rel(IF trimmedPath = <<>> THEN PROXY_PREFIX
            ELSE JoinPath(PROXY_PREFIX, trimmedPath))

(***************************************************************************)
(* collapseSameOriginBase: resolve the base against the page origin; when  *)
(* the result is same-origin, join its pathname (trailing slashes cut)     *)
(* with the normalized path and return it as a root-relative path.         *)
(***************************************************************************)
collapseSameOriginBase(base, normalizedPath, inBrowser) ==
    IF \/ ~inBrowser
       \/ base.kind = "invalid"
       \/ base.kind = "abs" /\ base.origin # "page"
    THEN NoUrl
    ELSE LET basePath   == StripTrailingSlashes(base.path)
             joinedPath == IF normalizedPath # <<>>
                           THEN JoinPath(basePath, normalizedPath)
                           ELSE basePath
         IN  IF joinedPath = <<>> THEN Rel(<<"/">>)
             ELSE IF Head(joinedPath) = "/" THEN Rel(joinedPath)
             ELSE Rel(<<"/">> \o joinedPath)

\* The fully-qualified `${trimmedBase}/${normalizedPath}` (or trimmedBase).
FullUrl(base, normalizedPath) ==
    LET trimmedBase == StripTrailingSlashes(BaseText(base))
        path        == IF normalizedPath # <<>>
                       THEN JoinPath(trimmedBase, normalizedPath)
                       ELSE trimmedBase
    IN  IF base.kind = "abs"
        THEN [kind |-> "abs", origin |-> base.origin, path |-> path]
        ELSE Rel(path)

\* Mutant: the test that keeps paths already in the proxy space from being
\* prefixed again is missing.
joinWithBaseNoPrefixCheck(base, inBrowser, path) ==
    LET normalizedPath == StripLeadingSlashes(path)
        sameOriginPath == collapseSameOriginBase(base, normalizedPath, inBrowser)
    IN
    IF base.kind = "none"
    THEN [url |-> Rel(path), normalizedPath |-> normalizedPath, usedProxy |-> FALSE]
    ELSE IF shouldProxyBrowserRequests(base, inBrowser) /\ normalizedPath # <<>>
    THEN [url |-> buildProxyPath(normalizedPath),
          normalizedPath |-> normalizedPath, usedProxy |-> TRUE]
    ELSE IF sameOriginPath # NoUrl
    THEN [url |-> sameOriginPath, normalizedPath |-> normalizedPath, usedProxy |-> FALSE]
    ELSE [url |-> FullUrl(base, normalizedPath),
          normalizedPath |-> normalizedPath, usedProxy |-> FALSE]

(***************************************************************************)
(* joinWithBase: the four rules of the resolver, in the code's order.      *)
(***************************************************************************)
joinWithBase(base, inBrowser, path) ==
    LET normalizedPath == StripLeadingSlashes(path)
        sameOriginPath == collapseSameOriginBase(base, normalizedPath, inBrowser)
    IN
    IF base.kind = "none"
    THEN [url |-> Rel(path), normalizedPath |-> normalizedPath, usedProxy |-> FALSE]
    ELSE IF /\ shouldProxyBrowserRequests(base, inBrowser)
            /\ normalizedPath # <<>>
            /\ ~IsPrefix(StripLeadingSlashes(PROXY_PREFIX), normalizedPath)
    THEN [url |-> buildProxyPath(normalizedPath),
          normalizedPath |-> normalizedPath, usedProxy |-> TRUE]
    ELSE IF sameOriginPath # NoUrl
    THEN [url |-> sameOriginPath, normalizedPath |-> normalizedPath, usedProxy |-> FALSE]
    ELSE [url |-> FullUrl(base, normalizedPath),
          normalizedPath |-> normalizedPath, usedProxy |-> FALSE]

(***************************************************************************)
(* resolveRequestInput for a string input, followed by the re-check at     *)
(* the top of apiRequest: a non-empty relative result without a leading    *)
(* slash gets one, an empty result becomes "/" + normalizedPath or "/".    *)
(***************************************************************************)
resolveRequestInput(base, inBrowser, input) ==
    LET j   == joinWithBase(base, inBrowser, input)
        u   == j.url
        u1  == IF u.path # <<>> /\ ~isAbsoluteUrl(u) /\ Head(u.path) # "/"
               THEN Rel(<<"/">> \o u.path) ELSE u
        u2  == IF ~isAbsoluteUrl(u1) /\ u1.path = <<>>
               THEN Rel(IF j.normalizedPath # <<>>
                        THEN <<"/">> \o j.normalizedPath ELSE <<"/">>)
               ELSE u1
    IN  [info |-> u2, normalizedPath |-> j.normalizedPath, usedProxy |-> j.usedProxy]

(***************************************************************************)
(* The condition of apiRequest's catch block (line 191) under which a      *)
(* rejected direct fetch is retried through the proxy: in the browser,     *)
(* with a base, a non-empty normalized path, a direct attempt that did not *)
(* already use the proxy, and a string input (the only kind callers pass). *)
(***************************************************************************)
FallbackAllowed(base, inBrowser, plan) ==
    /\ inBrowser
    /\ base.kind # "none"
    /\ plan.normalizedPath # <<>>
    /\ ~plan.usedProxy

=============================================================================
