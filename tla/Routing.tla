------------------------------ MODULE Routing ------------------------------
(***************************************************************************)
(* One logical call of apiRequest (src/frontend/web/src/lib/api-client.ts, *)
(* lines 169-201) followed across the network: the target is resolved,    *)
(* the direct attempt is sent, and after a network-level failure the call  *)
(* may be retried once through the proxy route, which rewrites the path    *)
(* onto the server-side base URL (api/proxy/[...path]/route.ts).           *)
(*                                                                         *)
(* The question this module asks is where each attempt lands: on the      *)
(* backend endpoint the caller meant, whichever of the four resolver       *)
(* rules and whichever attempt produced the request.                       *)
(***************************************************************************)
EXTENDS ProxyRoute

CONSTANTS
    PublicBases,   \* values NEXT_PUBLIC_API_BASE_URL may have (NoBase = blank)
    ServerBases,   \* values API_BASE_URL may have (Unset = undefined)
    Inputs         \* path strings callers pass to apiRequest

ASSUME Inputs \subseteq Seq(Chars)

VARIABLES
    env,       \* the deployment: [public, server, inBrowser]
    input,     \* the caller's path
    pc,        \* "resolve" | "direct" | "fallback" | "done"
    plan,      \* the result of resolveRequestInput
    reached    \* endpoints the attempts were delivered to, in order

vars == <<env, input, pc, plan, reached>>

Envs == [public : PublicBases, server : ServerBases, inBrowser : BOOLEAN]

NoPlan == [info |-> NoUrl, normalizedPath |-> <<>>, usedProxy |-> FALSE]

\* An endpoint is an origin and a path; "/" and the empty path are the same.
Endpoint(origin, path) ==
    [origin |-> origin, path |-> IF path = <<>> THEN <<"/">> ELSE path]

\* A request that never reaches any endpoint: the proxy answered 500
\* (misconfigured), or a relative URL was fetched outside the browser.
NotSent == [origin |-> "none", path |-> <<>>]

\* The route /api/proxy/[...path] of the page origin captures at least one
\* segment; the captured segments joined by "/" are the rest of the path.
ProxyRest(path) ==
    IF /\ Len(path) > 3
       /\ SubSeq(path, 1, 3) = <<"/", "P", "/">>
       /\ StripLeadingSlashes(SubSeq(path, 4, Len(path))) # <<>>
    THEN SubSeq(path, 4, Len(path))
    ELSE <<>>

(***************************************************************************)
(* Where fetch(u) lands.  An absolute URL goes to its origin.  In the      *)
(* browser a relative URL goes to the page origin, where a path under the  *)
(* proxy route is forwarded by proxyRequest to buildTargetUrl of the       *)
(* server-side base.                                                       *)
(***************************************************************************)
Reach(u, e) ==
    IF isAbsoluteUrl(u) THEN Endpoint(u.origin, u.path)
    ELSE IF ~e.inBrowser THEN NotSent
    ELSE IF ProxyRest(u.path) # <<>>
    THEN LET base == resolveApiBaseUrl(e.server, e.public)
         IN  IF base = NoUrl THEN NotSent
             ELSE LET t == buildTargetUrl(base, ProxyRest(u.path))
                  IN  Endpoint(t.origin, t.path)
    ELSE Endpoint("page", u.path)

(***************************************************************************)
(* Actions                                                                 *)
(***************************************************************************)
Init ==
    /\ env \in Envs
    /\ input \in Inputs
    /\ pc = "resolve"
    /\ plan = NoPlan
    /\ reached = <<>>

\* Lines 171-176: resolve the target once per call.
Resolve ==
    /\ pc = "resolve"
    /\ plan' = resolveRequestInput(env.public, env.inBrowser, input)
    /\ pc' = "direct"
    /\ UNCHANGED <<env, input, reached>>

\* Lines 187-193: the direct attempt is delivered; it then resolves (the
\* call ends) or rejects, and a rejected call without a fallback rethrows.
Direct ==
    /\ pc = "direct"
    /\ reached' = Append(reached, Reach(plan.info, env))
    /\ \/ pc' = "done"
       \/ /\ FallbackAllowed(env.public, env.inBrowser, plan)
          /\ pc' = "fallback"
    /\ UNCHANGED <<env, input, plan>>

\* Mutant: the proxied attempt is itself retried on failure.
FallbackRepeat ==
    /\ pc = "fallback"
    /\ reached' = Append(reached, Reach(buildProxyPath(plan.normalizedPath), env))
    /\ pc' \in {"fallback", "done"}
    /\ UNCHANGED <<env, input, plan>>

\* Lines 194-200: the single retry through buildProxyPath(normalizedPath).
Fallback ==
    /\ pc = "fallback"
    /\ reached' = Append(reached, Reach(buildProxyPath(plan.normalizedPath), env))
    /\ pc' = "done"
    /\ UNCHANGED <<env, input, plan>>

Next == Resolve \/ Direct \/ Fallback

Spec == Init /\ [][Next]_vars

(***************************************************************************)
(* Properties                                                              *)
(***************************************************************************)
TypeOK ==
    /\ env \in Envs
    /\ input \in Inputs
    /\ pc \in {"resolve", "direct", "fallback", "done"}
    /\ plan.usedProxy \in BOOLEAN
    /\ Len(reached) <= 2

\* The client-side base mirrors the authoritative server-side one: the
\* same absolute URL, the same path on the page origin, or no base with
\* the backend served from the page origin's root.
Mirrors(e) ==
    LET b == resolveApiBaseUrl(e.server, e.public)
    IN  /\ b # NoUrl
        /\ \/ e.public = b
           \/ /\ e.public.kind = "rel"
              /\ b.origin = "page"
              /\ StripTrailingSlashes(e.public.path) = StripTrailingSlashes(b.path)
           \/ /\ e.public.kind = "none"
              /\ b.origin = "page"
              /\ StripTrailingSlashes(b.path) = <<>>

\* The endpoint a call for normalized path np means: np under the
\* server-side base.
Intended(e, np) ==
    LET b == resolveApiBaseUrl(e.server, e.public)
        p == StripTrailingSlashes(b.path)
    IN  Endpoint(b.origin, IF np # <<>> THEN JoinPath(p, np) ELSE p)

(***************************************************************************)
(* EndpointAgreement: when the client base mirrors the server base, every  *)
(* attempt of a call (the direct one, collapsed to a same-origin path,     *)
(* sent to the fully-qualified URL or to the proxy, and the proxy retry    *)
(* of lines 194-200) lands on the one endpoint the caller meant, or is     *)
(* not sent at all.  A slip in any of the slash trimmings and joins of     *)
(* the resolver or of buildTargetUrl sends a request to another endpoint.  *)
(* An endpoint of a backend on the page origin under /api/proxy/ is        *)
(* shadowed by the proxy route itself and is left out.                     *)
(***************************************************************************)
Shadowed(ep) == ep.origin = "page" /\ ProxyRest(ep.path) # <<>>

EndpointAgreement ==
    Mirrors(env) /\ ~Shadowed(Intended(env, plan.normalizedPath)) =>
        \A i \in 1..Len(reached) :
            reached[i] \in {Intended(env, plan.normalizedPath), NotSent}

(***************************************************************************)
(* RulesAgree: the resolved plan is the one the rules of the resolver      *)
(* contract give, read declaratively: (a) no base: the path verbatim;      *)
(* (b) in the browser, a base whose origin differs from the page's (or     *)
(* that does not parse) and a path outside the proxy space: the proxy      *)
(* path; (c) a base that resolves to the page origin: its pathname joined  *)
(* with the path; (d) otherwise the base joined with the path.  The rules  *)
(* say nothing of an empty path, which is left out.                        *)
(***************************************************************************)
CrossOrigin(base) ==
    base.kind = "invalid" \/ (base.kind = "abs" /\ base.origin # "page")

RuleTarget(e, path) ==
    LET np == StripLeadingSlashes(path) IN
    CASE e.public.kind = "none" -> Rel(path)
      [] e.inBrowser /\ CrossOrigin(e.public) /\ ~IsPrefix(<<"P">>, np) ->
            Rel(<<"/", "P", "/">> \o np)
      [] e.inBrowser /\ ~CrossOrigin(e.public) ->
            Rel(StripTrailingSlashes(e.public.path) \o <<"/">> \o np)
      [] OTHER ->
            FullUrl(e.public, np)

RulesAgree ==
    pc # "resolve" /\ plan.normalizedPath # <<>> =>
        joinWithBase(env.public, env.inBrowser, input).url = RuleTarget(env, input)

=============================================================================
