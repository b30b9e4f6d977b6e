-------------------------- MODULE AuthDiagnostics --------------------------
(***************************************************************************)
(* The diagnostic probe sequencer runAuthDiagnostics                       *)
(* (src/frontend/web/src/lib/auth-diagnostics.ts, lines 184-447): a backend *)
(* reachability check (HEAD, then GET if HEAD throws), then the strictly   *)
(* sequential chain register -> login -> token -> verification.  Each      *)
(* stage is one await of the backend; every stage that sends a request     *)
(* replays the cookie jar and merges the response's Set-Cookie values      *)
(* into it before the next stage.                                          *)
(*                                                                         *)
(* Data is abstracted to what the properties tell apart: an email is E1    *)
(* or Blank (undefined or ""), a cookie is a name and a value, a response  *)
(* is an outcome ("throw": fetch rejected, "ok": 2xx, "notOk") with its    *)
(* Set-Cookie list, and a duration is 0 or 1 (one millisecond or more).    *)
(* The hostname lookup (lines 217-231) only fills a display field and is   *)
(* left out; so are messages other than the backend status message.       *)
(*                                                                         *)
(* The sequencer is composed with its two callers: the POST handler of     *)
(* app/private/api/diagnostics/auth/route.ts, which parses the body and    *)
(* resolves the base URL, and the operator page                            *)
(* app/private/security/auth-tests/page.tsx, whose runDiagnostics builds   *)
(* the body from its form and shows the report or the error message.  An  *)
(* email may be the template Tmpl (the page's default                      *)
(* "diagnostic+{{timestamp}}@example.com"); applyEmailTemplate turns it    *)
(* into Stamped, the address of the moment of use.  A base URL is "none",  *)
(* "valid" (absolute) or "invalid" (not absolute).                         *)
(***************************************************************************)
EXTENDS Naturals, Sequences, SequencesExt

CONSTANTS
    CookieNames,       \* cookie names backends set (XSRF-TOKEN, laravel_session)
    CookieValues,      \* their values
    NoCookie,          \* a name absent from the jar
    E1, Blank,         \* an email address / undefined or ""
    Tmpl, Stamped,     \* an email template / the address it gives when applied
    EnvBases,          \* values of NEXT_PUBLIC_API_BASE_URL ?? API_BASE_URL
    NoConfig,          \* a probe the operator did not configure
    MaxSetCookies,     \* bound on Set-Cookie headers of one response
    HasGetSetCookie,   \* the runtime's Headers has getSetCookie()
    LoginBodies        \* bodies a login answer may carry (see BodyData)

Inputs   == {E1, Tmpl, Blank}        \* emails an operator can type
Emails   == Inputs \cup {Stamped}
Bases    == {"none", "valid", "invalid"}
Outcomes == {"throw", "ok", "notOk"}
Chain    == <<"register", "login", "token", "verification">>

\* An AuthDiagnosticsRequest: optional register and login probes with
\* their email, and the verification override email.
Requests ==
    [register : {NoConfig} \cup [email : Inputs],
     login : {NoConfig} \cup [email : Inputs],
     verification : Inputs]

Jars == [CookieNames -> CookieValues \cup {NoCookie}]

(***************************************************************************)
(* Response bodies.  A raw body is empty, text JSON cannot parse, or a    *)
(* JSON object; an object's `token` and `plainTextToken` are absent,       *)
(* "empty" (the string ""), "str" (another string) or "num" (not a        *)
(* string), and its `data` is null, a string or another object.  A token  *)
(* named by where it was found: the nesting depth under `data` and the     *)
(* key, and whether it is the empty string.                                *)
(***************************************************************************)
EmptyBody == [kind |-> "empty"]
NullV     == [kind |-> "null"]
TextV     == [kind |-> "text"]
Obj(t, p, d) == [kind |-> "obj", token |-> t, plainTextToken |-> p, data |-> d]
IsObject(v) == v.kind = "obj"
IsString(f) == f \in {"empty", "str"}
NoToken == [depth |-> 0, key |-> "none", empty |-> TRUE]
Tok(n, k, f) == [depth |-> n, key |-> k, empty |-> f = "empty"]
Truthy(t) == t.key # "none" /\ ~t.empty

\* readJsonResponse (lines 243-256): an empty body gives null, a body JSON
\* cannot parse gives the trimmed text, any other the parsed value.
readJsonResponse(raw) == IF raw = EmptyBody THEN NullV ELSE raw

\* Mutant: plainTextToken is preferred to token.
RECURSIVE extractTokenPlainFirst(_, _)
extractTokenPlainFirst(v, n) ==
    CASE ~IsObject(v)             -> NoToken
      [] IsString(v.plainTextToken) -> Tok(n, "plainTextToken", v.plainTextToken)
      [] IsString(v.token)        -> Tok(n, "token", v.token)
      [] IsObject(v.data)         -> extractTokenPlainFirst(v.data, n + 1)
      [] OTHER                    -> NoToken

\* extractTokenFromPayload (lines 166-182): token, else plainTextToken, of
\* the first object down the `data` chain that has a string in either; a
\* string is returned even when empty.  n: the depth of v.
RECURSIVE extractTokenFromPayload(_, _)
extractTokenFromPayload(v, n) ==
    CASE ~IsObject(v)             -> NoToken
      [] IsString(v.token)        -> Tok(n, "token", v.token)
      [] IsString(v.plainTextToken) -> Tok(n, "plainTextToken", v.plainTextToken)
      [] IsObject(v.data)         -> extractTokenFromPayload(v.data, n + 1)
      [] OTHER                    -> NoToken

\* The login pages' tokenCandidate (public/login/page.tsx lines 72-82, the
\* same in (public)/login): token, plainTextToken, then data.token only;
\* the page stores it when truthy.
loginPageToken(v) ==
    CASE ~IsObject(v)                               -> NoToken
      [] IsString(v.token)                          -> Tok(0, "token", v.token)
      [] IsString(v.plainTextToken)                 -> Tok(0, "plainTextToken", v.plainTextToken)
      [] IsObject(v.data) /\ IsString(v.data.token) -> Tok(1, "token", v.data.token)
      [] OTHER                                      -> NoToken

SetCookieLists ==
    BoundedSeq([name : CookieNames, value : CookieValues], MaxSetCookies)

VARIABLES
    stage,     \* "head" | "get" | a stage of Chain | "done"
    req,       \* the request
    jar,       \* cookieJar.current, parsed
    backend,   \* the BackendStatus being built
    results,   \* the AuthTestResult list
    context,   \* registeredEmail, loginEmail, loginToken (NoToken or a Tok)
    setLog,    \* history: the jar every Set-Cookie received so far would give
    post,      \* the POST: client, base override, server env, operator's
               \* verification input, response status (0: none yet)
    shown,     \* what the page shows: "none" | "report" | "error"
    sentTo     \* the email the verification probe was sent to (Blank: none)

vars == <<stage, req, jar, backend, results, context, setLog, post, shown, sentTo>>

page == <<post, shown, sentTo>>

applyEmailTemplate(e) == IF e = Tmpl THEN Stamped ELSE e

\* Mutant: the jar stores the whole name=value pair as the value, so the
\* next Cookie header reads name=name=value.
RECURSIVE mergeCookieJarKeepPair(_, _)
mergeCookieJarKeepPair(j, setCookies) ==
    IF setCookies = <<>> THEN j
    ELSE mergeCookieJarKeepPair([j EXCEPT ![Head(setCookies).name] = Head(setCookies)],
                                Tail(setCookies))

(***************************************************************************)
(* mergeCookieJar (lines 113-128): each Set-Cookie's first name=value pair *)
(* overwrites the jar entry of that name, in order.                        *)
(***************************************************************************)
RECURSIVE mergeCookieJar(_, _)
mergeCookieJar(j, setCookies) ==
    IF setCookies = <<>> THEN j
    ELSE mergeCookieJar([j EXCEPT ![Head(setCookies).name] = Head(setCookies).value],
                        Tail(setCookies))

(***************************************************************************)
(* getSetCookieHeaders (lines 130-141): every header when getSetCookie()   *)
(* exists; otherwise headers.get("set-cookie"), which joins all of them    *)
(* with ", " into one string, of which extractFirstCookie keeps the pair   *)
(* before the first ";": the first cookie (Laravel sets attributes on      *)
(* every cookie).                                                          *)
(***************************************************************************)
getSetCookieHeaders(setCookies) ==
    IF HasGetSetCookie \/ Len(setCookies) <= 1 THEN setCookies
    ELSE <<Head(setCookies)>>

\* Mutant: cookies are merged only after the status check, so an error
\* response's cookies are dropped.
sendJsonRequestMergeOnOk(outcome, setCookies) ==
    /\ jar' = IF outcome # "ok" THEN jar
              ELSE mergeCookieJar(jar, getSetCookieHeaders(setCookies))
    /\ setLog' = IF outcome = "throw" THEN setLog
                 ELSE mergeCookieJar(setLog, setCookies)

(***************************************************************************)
(* sendJsonRequest (lines 258-289): the request replays the jar; when a    *)
(* response arrives its cookies are merged, BEFORE the status is checked,  *)
(* so an error response's cookies are kept too.  A rejected fetch changes  *)
(* nothing.                                                                *)
(***************************************************************************)
sendJsonRequest(outcome, setCookies) ==
    /\ jar' = IF outcome = "throw" THEN jar
              ELSE mergeCookieJar(jar, getSetCookieHeaders(setCookies))
    /\ setLog' = IF outcome = "throw" THEN setLog
                 ELSE mergeCookieJar(setLog, setCookies)

\* The entry runTest pushes (lines 309-356).
Result(id, status, dur) == [id |-> id, status |-> status, dur |-> dur, data |-> NullV]

\* A result of a runner that ran: Date.now() - started.
Measured(id, outcome) ==
    { Result(id, IF outcome = "ok" THEN "success" ELSE "error", d) : d \in {0, 1} }

EmailOf(config) == IF config = NoConfig THEN Blank ELSE config.email

(***************************************************************************)
(* Init: the page is idle with no report; the server's environment gives   *)
(* its base URL.  The jar is what the incoming Cookie header will carry.   *)
(***************************************************************************)
Init ==
    /\ stage = "idle"
    /\ req = [register |-> NoConfig, login |-> NoConfig, verification |-> Blank]
    /\ jar \in Jars
    /\ setLog = jar
    /\ backend = [reachable |-> FALSE, status |-> "none", message |-> "none"]
    /\ results = <<>>
    /\ context = [registeredEmail |-> Blank, loginEmail |-> Blank, loginToken |-> NoToken]
    /\ \E env \in EnvBases :
         post = [client |-> "none", base |-> "none", env |-> env, verIn |-> Blank,
                 json |-> TRUE, status |-> 0]
    /\ shown = "none"
    /\ sentTo = Blank

\* The body fields register / login: sent only when all their fields are
\* non-blank (page lines 74-89); name and passwords are "filled" or not.
Config(email, filled) ==
    IF email # Blank /\ filled THEN [email |-> email] ELSE NoConfig

(***************************************************************************)
(* runDiagnostics (page lines 59-97): the operator's click POSTs the form.  *)
(* The verification email falls back to the RAW register email when left  *)
(* blank (lines 90-95).  The isRunning guard admits one run at a time.     *)
(***************************************************************************)
runDiagnostics ==
    /\ stage = "idle"
    /\ \E base \in Bases, rEmail \in Inputs, rFilled \in BOOLEAN,
          lEmail \in {E1, Blank}, vEmail \in {E1, Blank} :
         /\ req' = [register |-> Config(rEmail, rFilled),
                    login |-> Config(lEmail, TRUE),
                    verification |-> IF vEmail # Blank THEN vEmail ELSE rEmail]
         /\ post' = [post EXCEPT !.client = "page", !.base = base, !.verIn = vEmail]
    /\ stage' = "route"
    /\ UNCHANGED <<jar, setLog, backend, results, context, shown, sentTo>>

\* Another client POSTs any body, well-formed JSON or not.
DirectPost ==
    /\ stage = "idle"
    /\ \E r \in Requests, base \in Bases, json \in BOOLEAN :
         /\ req' = r
         /\ post' = [post EXCEPT !.client = "api", !.base = base,
                                 !.verIn = r.verification, !.json = json]
    /\ stage' = "route"
    /\ UNCHANGED <<jar, setLog, backend, results, context, shown, sentTo>>

\* resolveBaseUrl (route lines 7-15): a non-blank override, else the env.
resolveBaseUrl(override) == IF override # "none" THEN override ELSE post.env

\* normalizeBaseUrl, lines 52-70: a blank base, or one the URL parser
\* rejects, throws; an absolute one is kept without its trailing slashes.
normalizeBaseUrl(base) == IF base = "valid" THEN "valid" ELSE "throws"

(***************************************************************************)
(* POST (route lines 27-60) up to the first probe: malformed JSON answers  *)
(* 400; no base URL answers 500; a base normalizeBaseUrl rejects           *)
(* (auth-diagnostics lines 52-70) throws inside runAuthDiagnostics and the *)
(* catch answers 500.  Otherwise the sequencer starts (lines 296-304).     *)
(***************************************************************************)
POST ==
    /\ stage = "route"
    /\ \/ /\ ~post.json
          /\ post' = [post EXCEPT !.status = 400]
          /\ stage' = "responded"
          /\ UNCHANGED context
       \/ /\ post.json
          /\ resolveBaseUrl(post.base) = "none"
          /\ post' = [post EXCEPT !.status = 500]
          /\ stage' = "responded"
          /\ UNCHANGED context
       \/ /\ post.json
          /\ resolveBaseUrl(post.base) # "none"
          /\ normalizeBaseUrl(resolveBaseUrl(post.base)) = "throws"
          /\ post' = [post EXCEPT !.status = 500]
          /\ stage' = "responded"
          /\ UNCHANGED context
       \/ /\ post.json
          /\ normalizeBaseUrl(resolveBaseUrl(post.base)) = "valid"
          /\ context' = [context EXCEPT !.loginEmail = EmailOf(req.login)]
          /\ stage' = "head"
          /\ UNCHANGED post
    /\ UNCHANGED <<req, jar, setLog, backend, results, shown, sentTo>>

\* Route line 61: the report is answered with status 200.
Respond ==
    /\ stage = "done"
    /\ post' = [post EXCEPT !.status = 200]
    /\ stage' = "responded"
    /\ UNCHANGED <<req, jar, setLog, backend, results, context, shown, sentTo>>

\* Page lines 98-109: a 2xx answer is shown as the report, any other as
\* the error message; isRunning is cleared.
ShowResponse ==
    /\ stage = "responded"
    /\ post.client = "page"
    /\ shown' = IF post.status = 200 THEN "report" ELSE "error"
    /\ stage' = "shown"
    /\ UNCHANGED <<req, jar, setLog, backend, results, context, post, sentTo>>

(***************************************************************************)
(* checkBackendStatus, lines 189-202: HEAD the base URL.                   *)
(***************************************************************************)
HeadProbe ==
    /\ stage = "head"
    /\ \E o \in Outcomes :
         /\ backend' = CASE o = "throw" -> [backend EXCEPT !.message = "headError"]
                         [] o = "ok"    -> [reachable |-> TRUE, status |-> "ok", message |-> "none"]
                         [] o = "notOk" -> [reachable |-> TRUE, status |-> "notOk", message |-> "status"]
         /\ stage' = IF o = "throw" THEN "get" ELSE "register"
    /\ UNCHANGED <<req, jar, results, context, setLog, page>>

(***************************************************************************)
(* Lines 203-215: HEAD threw, so GET the base URL.  A 2xx answer leaves    *)
(* the message as HEAD's failure set it.                                   *)
(***************************************************************************)
GetProbe ==
    /\ stage = "get"
    /\ \E o \in Outcomes :
         backend' = CASE o = "throw" -> [backend EXCEPT !.message = "getError"]
                      [] o = "ok"    -> [backend EXCEPT !.reachable = TRUE, !.status = "ok"]
                      [] o = "notOk" -> [reachable |-> TRUE, status |-> "notOk", message |-> "status"]
    /\ stage' = "register"
    /\ UNCHANGED <<req, jar, results, context, setLog, page>>

\* runTest without a runner (lines 315-317).
NotConfigured(id) ==
    /\ results' = Append(results, Result(id, "skipped", 0))
    /\ UNCHANGED <<jar, setLog, context>>

\* Mutant: the email is stored before the request is awaited.
RegisterEmailFirst ==
    /\ stage = "register"
    /\ \/ req.register = NoConfig /\ NotConfigured("register")
       \/ /\ req.register # NoConfig
          /\ \E o \in Outcomes, sc \in SetCookieLists :
               /\ sendJsonRequest(o, sc)
               /\ \E r \in Measured("register", o) : results' = Append(results, r)
               /\ context' = [context EXCEPT !.registeredEmail =
                                               applyEmailTemplate(req.register.email)]
    /\ stage' = "login"
    /\ UNCHANGED <<req, backend, page>>

(***************************************************************************)
(* Lines 358-383: the register probe sends applyEmailTemplate(email)       *)
(* (lines 81-84); on a 2xx answer that address becomes                     *)
(* context.registeredEmail.                                                *)
(***************************************************************************)
Register ==
    /\ stage = "register"
    /\ \/ req.register = NoConfig /\ NotConfigured("register")
       \/ /\ req.register # NoConfig
          /\ \E o \in Outcomes, sc \in SetCookieLists :
               /\ sendJsonRequest(o, sc)
               /\ \E r \in Measured("register", o) : results' = Append(results, r)
               /\ context' = IF o = "ok"
                             THEN [context EXCEPT !.registeredEmail =
                                                     applyEmailTemplate(req.register.email)]
                             ELSE context
    /\ stage' = "login"
    /\ UNCHANGED <<req, backend, page>>

\* Mutant: the token is extracted from any response body, before the
\* status check.
LoginTokenFromAnyBody ==
    /\ stage = "login"
    /\ \/ req.login = NoConfig /\ NotConfigured("login")
       \/ /\ req.login # NoConfig
          /\ \E o \in Outcomes, sc \in SetCookieLists, raw \in LoginBodies :
               LET data == IF o = "throw" THEN NullV ELSE readJsonResponse(raw)
                   token == extractTokenFromPayload(data, 0)
               IN /\ sendJsonRequest(o, sc)
                  /\ \E r \in Measured("login", o) : results' = Append(results, [r EXCEPT !.data = IF o = "ok" THEN data ELSE NullV])
                  /\ context' = IF o # "throw" /\ Truthy(token)
                                THEN [context EXCEPT !.loginToken = token]
                                ELSE context
    /\ stage' = "token"
    /\ UNCHANGED <<req, backend, page>>

(***************************************************************************)
(* Lines 385-408: the login probe; a 2xx answer whose body carries a       *)
(* truthy token (extractTokenFromPayload) sets context.loginToken.  The    *)
(* result of a 2xx answer keeps its body (details.data); an error's body  *)
(* is not told apart.                                                      *)
(***************************************************************************)
Login ==
    /\ stage = "login"
    /\ \/ req.login = NoConfig /\ NotConfigured("login")
       \/ /\ req.login # NoConfig
          /\ \E o \in Outcomes, sc \in SetCookieLists, raw \in LoginBodies :
               LET data == IF o = "throw" THEN NullV ELSE readJsonResponse(raw)
                   token == extractTokenFromPayload(data, 0)
               IN /\ sendJsonRequest(o, sc)
                  /\ \E r \in Measured("login", o) : results' = Append(results, [r EXCEPT !.data = IF o = "ok" THEN data ELSE NullV])
                  /\ context' = IF o = "ok" /\ Truthy(token)
                                THEN [context EXCEPT !.loginToken = token]
                                ELSE context
    /\ stage' = "token"
    /\ UNCHANGED <<req, backend, page>>

(***************************************************************************)
(* Lines 410-421: the token stage always has a runner; without a captured  *)
(* token it resolves null and is recorded skipped, with the elapsed        *)
(* Date.now() - started of lines 319 and 327.                              *)
(***************************************************************************)
Token ==
    /\ stage = "token"
    /\ \E d \in {0, 1} :
         results' = Append(results,
                           Result("token", IF Truthy(context.loginToken) THEN "success" ELSE "skipped", d))
    /\ stage' = "verification"
    /\ UNCHANGED <<req, jar, backend, context, setLog, page>>

\* Line 423: request.verification?.email || registeredEmail || loginEmail,
\* as an index into the three sources (0: none).
verificationEmail ==
    SelectInSeq(<<req.verification, context.registeredEmail, context.loginEmail>>,
                LAMBDA e : e # Blank)

(***************************************************************************)
(* Lines 423-440: the verification probe runs when some email is known.    *)
(***************************************************************************)
Verification ==
    /\ stage = "verification"
    /\ \/ verificationEmail = 0 /\ NotConfigured("verification") /\ UNCHANGED sentTo
       \/ /\ verificationEmail # 0
          /\ \E o \in Outcomes, sc \in SetCookieLists :
               /\ sendJsonRequest(o, sc)
               /\ \E r \in Measured("verification", o) : results' = Append(results, r)
          /\ sentTo' = <<req.verification, context.registeredEmail,
                         context.loginEmail>>[verificationEmail]
          /\ UNCHANGED context
    /\ stage' = "done"
    /\ UNCHANGED <<req, backend, post, shown>>

Next == runDiagnostics \/ DirectPost \/ POST \/ Respond \/ ShowResponse
        \/ HeadProbe \/ GetProbe \/ Register \/ Login \/ Token \/ Verification

Spec == Init /\ [][Next]_vars

(***************************************************************************)
(* Properties                                                              *)
(***************************************************************************)
TypeOK ==
    /\ stage \in {"idle", "route", "head", "get", "done", "responded", "shown"}
                 \cup Range(Chain)
    /\ req \in Requests
    /\ jar \in Jars /\ setLog \in Jars
    /\ backend \in [reachable : BOOLEAN, status : {"none", "ok", "notOk"},
                    message : {"none", "status", "headError", "getError"}]
    /\ results \in Seq([id : Range(Chain), status : {"success", "error", "skipped"},
                        dur : {0, 1},
                        data : {NullV} \cup {readJsonResponse(b) : b \in LoginBodies}])
    /\ context \in [registeredEmail : Emails, loginEmail : Emails,
                   loginToken : {NoToken} \cup [depth : Nat, key : {"token", "plainTextToken"},
                                                empty : {FALSE}]]
    /\ post \in [client : {"none", "page", "api"}, base : Bases, env : Bases,
                 verIn : Inputs, json : BOOLEAN, status : {0, 200, 400, 500}]
    /\ shown \in {"none", "report", "error"}
    /\ sentTo \in Emails

Ran(id) == \E i \in DOMAIN results : results[i].id = id
ResultOf(id) == results[CHOOSE i \in DOMAIN results : results[i].id = id]

(***************************************************************************)
(* JarReflectsResponses: the Cookie header each stage replays holds, for   *)
(* every cookie name, the value of the latest Set-Cookie any earlier       *)
(* response carried, error responses included ("this is what lets login   *)
(* pick up a session cookie set by register").                             *)
(***************************************************************************)
JarReflectsResponses == jar = setLog

(***************************************************************************)
(* TokenFollowsLogin: the token stage succeeds exactly when the login      *)
(* stage succeeded and captured a token; a failed login never yields a     *)
(* token stage success.                                                    *)
(***************************************************************************)
TokenFollowsLogin ==
    Ran("token") =>
        (ResultOf("token").status = "success"
            <=> ResultOf("login").status = "success" /\ Truthy(context.loginToken))

(***************************************************************************)
(* LoginTokenAsLoginPage: when the login probe succeeds on an answer from  *)
(* which the login pages would store a token (their inline                 *)
(* tokenCandidate), the diagnostics captured that same token, so a        *)
(* "token captured" report vouches for the token the app will send.  The  *)
(* converse does not hold: the probe also digs deeper into `data`.         *)
(***************************************************************************)
LoginTokenAsLoginPage ==
    LET data == ResultOf("login").data
    IN (Ran("login") /\ ResultOf("login").status = "success" /\ Truthy(loginPageToken(data)))
           => context.loginToken = loginPageToken(data)

(***************************************************************************)
(* VerificationSkipReason: the verification stage is skipped exactly when  *)
(* no email source exists: no override, no login email, and no register    *)
(* stage that succeeded with an email.                                     *)
(***************************************************************************)
NoEmailSource ==
    /\ req.verification = Blank
    /\ EmailOf(req.login) = Blank
    /\ ~(ResultOf("register").status = "success" /\ EmailOf(req.register) # Blank)

VerificationSkipReason ==
    Ran("verification") => (ResultOf("verification").status = "skipped" <=> NoEmailSource)

(***************************************************************************)
(* VerificationTargetsRegistered: when the operator leaves the             *)
(* verification email empty and the register probe registered an address, *)
(* the verification notification is requested for that address (the       *)
(* precedence of line 423: override, else registeredEmail).  The page's    *)
(* fallback (page lines 93-94) forwards the raw register template instead, *)
(* which the sequencer never applies.                                      *)
(***************************************************************************)
VerificationTargetsRegistered ==
    (/\ Ran("verification")
     /\ post.verIn = Blank
     /\ ResultOf("register").status = "success"
     /\ context.registeredEmail # Blank)
        => sentTo = context.registeredEmail

=============================================================================
