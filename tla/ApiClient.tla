----------------------------- MODULE ApiClient -----------------------------
(***************************************************************************)
(* The request executor and the credential store of the browser client,    *)
(* with the two flows that write the store, against a backend that issues, *)
(* accepts and expires bearer tokens.                                      *)
(*                                                                         *)
(*  - apiRequest (src/frontend/web/src/lib/api-client.ts 169-243): read    *)
(*    the stored token into the Authorization header, fetch, retry once    *)
(*    through the proxy on a network-level failure, clear the store on     *)
(*    401/419, read the body.  Calls run concurrently: every component,    *)
(*    and every tab of the origin, since localStorage is shared by them.   *)
(*  - LoginPage.onSubmit (app/(public)/login/page.tsx 54-106): apiMutation *)
(*    of auth/login, then setStoredToken of the token in the response      *)
(*    body, if any.                                                        *)
(*  - UserNav.handleSignOut (components/private/user-nav.tsx 134-163): a   *)
(*    plain fetch of the signout route, which forwards the request's       *)
(*    Authorization header to the backend logout (app/private/api/auth/    *)
(*    signout/route.ts 30-71); the finally block clears the store.         *)
(*                                                                         *)
(* Each await of the code is a step boundary: the backend executes a       *)
(* request in one step (Process), and the client resumes in another, with  *)
(* the response (Deliver) or with a network-level rejection (Reject) that  *)
(* may come before or after the backend executed the request (a refused   *)
(* connection, or a response the browser withheld).                        *)
(***************************************************************************)
EXTENDS Resolver, FiniteSets

CONSTANTS
    Calls,       \* components calling apiRequest (UserNav's "user", notifications, ...)
    LoginPage,   \* the login form
    UserNav,     \* the sign-out menu item
    Tokens,      \* bearer tokens the backend may issue
    NoToken,     \* the empty localStorage slot / no Authorization header
    Env,         \* [public |-> base, inBrowser |-> BOOLEAN] of the page
    CallPaths,   \* paths the components pass to apiRequest
    LoginPath,   \* "auth/login"
    UserCall,    \* the call of UserNav's mount effect, apiRequest("user")
    UserResources \* bodies the backend may answer "user" with (see Payload)

ASSUME NoToken \notin Tokens
ASSUME UserCall \in Calls
ASSUME CallPaths \cup {LoginPath} \subseteq Seq(Chars)

Requesters == Calls \cup {LoginPage}
Actors     == Requesters \cup {UserNav}

AuthStatuses == {401, 419}
Statuses     == {0, 200, 422, 500} \cup AuthStatuses

VARIABLES
    token,     \* localStorage["yamato.authToken"]
    valid,     \* tokens the backend accepts
    issued,    \* tokens the backend has ever issued
    act,       \* per actor: its one call, see ActRec
    rejected,  \* history: tokens some 401/419 answer was given for
    expected,  \* history: the credential the lifecycle says is stored
    signoutTok,\* history: the stored token when sign-out began
    resource,  \* the body of the answer to "user", once it has been read
    user,      \* UserNav's user state
    isLoading  \* UserNav's isLoading state

nav  == <<resource, user, isLoading>>
vars == <<token, valid, issued, act, rejected, expected, signoutTok, nav>>

(***************************************************************************)
(* One call: pc is "idle", "await1" (direct attempt in flight), "await2"   *)
(* (proxy retry in flight), "body" (reading response.text()) or "done";    *)
(* plan its resolved target; sent the token of its Authorization header;   *)
(* wire "none", "sent" (not yet executed) or "answered" (executed, answer  *)
(* on its way); executed the attempts (1, 2) the backend executed; reply   *)
(* the token in a login answer's body.                                     *)
(***************************************************************************)
ActRec ==
    [pc : {"idle", "await1", "await2", "body", "done"},
     plan : [info : [kind : {"none", "rel", "abs"}, origin : STRING, path : Seq(Chars)],
             normalizedPath : Seq(Chars), usedProxy : BOOLEAN],
     sent : Tokens \cup {NoToken},
     wire : {"none", "sent", "answered"},
     status : Statuses,
     executed : SUBSET {1, 2},
     reply : Tokens \cup {NoToken},
     outcome : {"none", "ok", "httpError", "authRequired", "networkError"}]

Attempt(a) == IF act[a].pc = "await2" THEN 2 ELSE 1

Idle == [pc |-> "idle",
         plan |-> [info |-> NoUrl, normalizedPath |-> <<>>, usedProxy |-> FALSE],
         sent |-> NoToken, wire |-> "none", status |-> 0, executed |-> {},
         reply |-> NoToken, outcome |-> "none"]

(***************************************************************************)
(* UserNav's user resource (user-nav.tsx 26-70).  A JSON value is null, a  *)
(* string or an object; an object's name, profile.name and email are       *)
(* absent (null or undefined), "empty" (the string "") or "str" (another   *)
(* string), and its data is absent, null, a string or an object.  The      *)
(* normalized user keeps what the menu shows: where the display name comes *)
(* from, and whether there is an email line.                               *)
(***************************************************************************)
NullV    == [kind |-> "null"]
Payload(n, pn, e, d) ==
    [kind |-> "obj", name |-> n, profileName |-> pn, email |-> e, data |-> d]
NoUser   == [name |-> "none", email |-> FALSE]
Truthy(f) == f = "str"

\* Mutant: the Laravel `data` wrapper is not unwrapped.
extractUserNoUnwrap(payload) ==
    IF payload.kind # "obj" THEN NullV ELSE payload

\* extractUser, lines 42-51: follow a truthy `data` member, whatever it is.
RECURSIVE extractUser(_)
extractUser(payload) ==
    CASE payload.kind # "obj"                  -> NullV
      [] payload.data.kind \in {"obj", "str"}  -> extractUser(payload.data)
      [] OTHER                                 -> payload

\* normalizeUser, lines 53-70: `raw.name ?? raw.profile?.name` skips only
\* an absent name, so an empty name hides the profile name.
normalizeUser(payload) ==
    LET raw  == extractUser(payload)
        name == IF raw.kind = "obj" /\ raw.name # "absent" THEN [v |-> raw.name, src |-> "name"]
                ELSE [v |-> IF raw.kind = "obj" THEN raw.profileName ELSE "absent", src |-> "profile"]
    IN  IF raw.kind # "obj" \/ (~Truthy(name.v) /\ ~Truthy(raw.email)) THEN NoUser
        ELSE [name |-> IF Truthy(name.v) THEN name.src ELSE "email", email |-> Truthy(raw.email)]

(***************************************************************************)
(* Init: a page load, possibly with a token persisted by an earlier        *)
(* session that the backend may since have expired.                       *)
(***************************************************************************)
Init ==
    /\ \E t \in Tokens \cup {NoToken} :
         /\ token = t
         /\ issued = IF t = NoToken THEN {} ELSE {t}
         /\ valid \in SUBSET issued
    /\ act = [a \in Actors |-> Idle]
    /\ rejected = {}
    /\ expected = token
    /\ signoutTok = NoToken
    /\ resource = NullV
    /\ user = NoUser
    /\ isLoading = TRUE

\* Mutant: the header carries the formatted "Bearer <token>" pair rather
\* than the credential the backend checks.
apiRequestRawHeader(a, path) ==
    /\ act[a].pc = "idle"
    /\ act' = [act EXCEPT ![a] = [@ EXCEPT
                  !.pc   = "await1",
                  !.plan = resolveRequestInput(Env.public, Env.inBrowser, path),
                  !.sent = <<"Bearer", token>>,
                  !.wire = "sent"]]
    /\ UNCHANGED <<token, valid, issued, rejected, expected, signoutTok, nav>>

(***************************************************************************)
(* apiRequest, lines 171-189: resolve the target, read the stored token    *)
(* into the Authorization header (no caller sets one), send the direct     *)
(* attempt.                                                                *)
(***************************************************************************)
apiRequest(a, path) ==
    /\ act[a].pc = "idle"
    /\ act' = [act EXCEPT ![a] = [@ EXCEPT
                  !.pc   = "await1",
                  !.plan = resolveRequestInput(Env.public, Env.inBrowser, path),
                  !.sent = token,
                  !.wire = "sent"]]
    /\ UNCHANGED <<token, valid, issued, rejected, expected, signoutTok, nav>>

StartCall(c) == \E path \in CallPaths : apiRequest(c, path)

\* onSubmit, line 65: apiMutation("auth/login", ...).
SubmitLogin == apiRequest(LoginPage, LoginPath)

\* handleSignOut, lines 134-144: the isSigningOut guard, then a fetch of
\* /private/api/auth/signout that carries cookies but no Authorization.
handleSignOut ==
    /\ act[UserNav].pc = "idle"
    /\ act' = [act EXCEPT ![UserNav] = [@ EXCEPT
                  !.pc = "await1", !.sent = NoToken, !.wire = "sent"]]
    /\ signoutTok' = token
    /\ UNCHANGED <<token, valid, issued, rejected, expected, nav>>

(***************************************************************************)
(* The backend executes an attempt.  auth/login answers 200 with a fresh   *)
(* token or with none (a session-cookie login), or 422.  The signout       *)
(* route forwards the Authorization header it received (an empty one      *)
(* here) to auth/logout, which revokes that token.  Any other endpoint     *)
(* answers 200 or 500 to a valid token and 401 or 419 otherwise.           *)
(***************************************************************************)
Executed(a) == [act EXCEPT ![a].wire = "answered",
                           ![a].executed = @ \cup {Attempt(a)}]

Process(a) ==
    /\ act[a].wire = "sent"
    /\ \/ /\ a = LoginPage
          /\ \/ \E r \in (Tokens \ issued) \cup {NoToken} :
                  /\ act' = [Executed(a) EXCEPT ![a].status = 200, ![a].reply = r]
                  /\ issued' = issued \cup ({r} \ {NoToken})
                  /\ valid' = valid \cup ({r} \ {NoToken})
             \/ /\ act' = [Executed(a) EXCEPT ![a].status = 422]
                /\ UNCHANGED <<issued, valid>>
       \/ /\ a = UserNav
          /\ act' = [Executed(a) EXCEPT ![a].status = 200]
          /\ valid' = valid \ {act[a].sent}
          /\ UNCHANGED issued
       \/ /\ a \in Calls
          /\ \E s \in IF act[a].sent \in valid THEN {200, 500} ELSE AuthStatuses :
                act' = [Executed(a) EXCEPT ![a].status = s]
          /\ UNCHANGED <<issued, valid>>
    /\ UNCHANGED <<token, rejected, expected, signoutTok, nav>>

\* A token expires or is revoked elsewhere.
Expire(t) ==
    /\ t \in valid
    /\ valid' = valid \ {t}
    /\ UNCHANGED <<token, issued, act, rejected, expected, signoutTok, nav>>

(***************************************************************************)
(* UserNav's mount effect, user-nav.tsx 105-129, resumed when its          *)
(* apiRequest("user") ends (act' is the calls after the step): data sets   *)
(* the user to normalizeUser(payload), a throw to null, and the finally    *)
(* clears isLoading.  The `mounted` checks always pass here: the navbar     *)
(* stays mounted until a full page load ends the page.                     *)
(***************************************************************************)
userEffect(a, next) ==
    IF a = UserCall /\ next[a].pc = "done"
    THEN /\ IF next[a].outcome = "ok"
            THEN \E r \in UserResources : resource' = r /\ user' = normalizeUser(r)
            ELSE UNCHANGED resource /\ user' = NoUser
         /\ isLoading' = FALSE
    ELSE UNCHANGED nav

\* Mutant: the catch block retries through the proxy again after the
\* proxied attempt also failed.
RejectRetryAgain(a) ==
    /\ a \in Requesters
    /\ act[a].wire \in {"sent", "answered"}
    /\ act[a].pc \in {"await1", "await2"}
    /\ IF FallbackAllowed(Env.public, Env.inBrowser, act[a].plan)
       THEN act' = [act EXCEPT ![a].pc = "await2", ![a].wire = "sent"]
       ELSE act' = [act EXCEPT ![a].pc = "done", ![a].wire = "none",
                               ![a].outcome = "networkError"]
    /\ userEffect(a, act')
    /\ UNCHANGED <<token, valid, issued, rejected, expected, signoutTok>>

(***************************************************************************)
(* apiRequest, lines 190-201: the fetch promise rejects.  The direct       *)
(* attempt is retried once through buildProxyPath(normalizedPath) with the *)
(* same headers when FallbackAllowed; otherwise the error is rethrown and  *)
(* the caller's catch ends the call (the login form shows a message).      *)
(***************************************************************************)
Reject(a) ==
    /\ a \in Requesters
    /\ act[a].wire \in {"sent", "answered"}
    /\ act[a].pc \in {"await1", "await2"}
    /\ IF act[a].pc = "await1" /\ FallbackAllowed(Env.public, Env.inBrowser, act[a].plan)
       THEN act' = [act EXCEPT ![a].pc = "await2", ![a].wire = "sent"]
       ELSE act' = [act EXCEPT ![a].pc = "done", ![a].wire = "none",
                               ![a].outcome = "networkError"]
    /\ userEffect(a, act')
    /\ UNCHANGED <<token, valid, issued, rejected, expected, signoutTok>>

\* Mutant: only 401 clears the store; 419 (CSRF/session expired) is
\* treated as an ordinary HTTP error.
DeliverOnly401(a) ==
    /\ a \in Requesters
    /\ act[a].wire = "answered"
    /\ act[a].pc \in {"await1", "await2"}
    /\ IF act[a].status = 401
       THEN /\ token' = NoToken
            /\ act' = [act EXCEPT ![a].pc = "done", ![a].wire = "none",
                                  ![a].outcome = "authRequired"]
            /\ rejected' = rejected \cup ({act[a].sent} \ {NoToken})
            /\ expected' = IF expected = act[a].sent THEN NoToken ELSE expected
       ELSE /\ act' = [act EXCEPT ![a].pc = "body", ![a].wire = "none"]
            /\ rejected' = rejected \cup (IF act[a].status = 419
                                          THEN {act[a].sent} \ {NoToken} ELSE {})
            /\ UNCHANGED <<token, expected>>
    /\ userEffect(a, act')
    /\ UNCHANGED <<valid, issued, signoutTok>>

(***************************************************************************)
(* apiRequest, lines 203-210: a 401 or 419 answer clears the store and     *)
(* ends the call with "Authentication required"; any other answer goes on  *)
(* to read the body.  The history records the rejected credential and, as  *)
(* the credential lifecycle has it, forgets it if it was the stored one.   *)
(***************************************************************************)
Deliver(a) ==
    /\ a \in Requesters
    /\ act[a].wire = "answered"
    /\ act[a].pc \in {"await1", "await2"}
    /\ IF act[a].status \in AuthStatuses
       THEN /\ token' = NoToken
            /\ act' = [act EXCEPT ![a].pc = "done", ![a].wire = "none",
                                  ![a].outcome = "authRequired"]
            /\ rejected' = rejected \cup ({act[a].sent} \ {NoToken})
            /\ expected' = IF expected = act[a].sent THEN NoToken ELSE expected
       ELSE /\ act' = [act EXCEPT ![a].pc = "body", ![a].wire = "none"]
            /\ UNCHANGED <<token, rejected, expected>>
    /\ userEffect(a, act')
    /\ UNCHANGED <<valid, issued, signoutTok>>

(***************************************************************************)
(* apiRequest, lines 212-242, and for the login form its lines 72-83: the  *)
(* body is read; a non-2xx status throws, a 2xx one returns the data; a    *)
(* successful login stores the token of the answer if there is one.        *)
(***************************************************************************)
\* Mutant: the store is overwritten with the answer's token even when the
\* answer carried none, clearing the stored one.
storeReturnedTokenClearsWhenNone(a) ==
    IF a = LoginPage /\ act[a].status = 200
    THEN /\ token' = act[a].reply
         /\ expected' = act[a].reply
    ELSE UNCHANGED <<token, expected>>

\* onSubmit, lines 72-83: setStoredToken(tokenCandidate) when the login
\* answer carried one.
storeReturnedToken(a) ==
    IF a = LoginPage /\ act[a].status = 200 /\ act[a].reply # NoToken
    THEN /\ token' = act[a].reply
         /\ expected' = act[a].reply
    ELSE UNCHANGED <<token, expected>>

ReadBody(a) ==
    /\ act[a].pc = "body"
    /\ act' = [act EXCEPT ![a].pc = "done",
                          ![a].outcome = IF act[a].status = 200 THEN "ok" ELSE "httpError"]
    /\ storeReturnedToken(a)
    /\ userEffect(a, act')
    /\ UNCHANGED <<valid, issued, rejected, signoutTok>>

(***************************************************************************)
(* handleSignOut, lines 145-162: whether the signout route answered or the *)
(* fetch failed, the finally block clears the stored token and the user.  *)
(***************************************************************************)
SignOutSettled ==
    /\ act[UserNav].pc = "await1"
    /\ act[UserNav].wire \in {"sent", "answered"}
    /\ act' = [act EXCEPT ![UserNav].pc = "done", ![UserNav].wire = "none"]
    /\ token' = NoToken
    /\ expected' = NoToken
    /\ user' = NoUser
    /\ UNCHANGED <<valid, issued, rejected, signoutTok, resource, isLoading>>

Next ==
    \/ \E c \in Calls : StartCall(c)
    \/ SubmitLogin
    \/ handleSignOut
    \/ \E a \in Actors : Process(a)
    \/ \E t \in Tokens : Expire(t)
    \/ \E a \in Requesters : Reject(a) \/ Deliver(a) \/ ReadBody(a)
    \/ SignOutSettled

(***************************************************************************)
(* Fairness: the hosting environment bounds every network call (no        *)
(* timeouts are set by the code), so an attempt in flight is eventually    *)
(* executed and eventually settles; a pending body read completes.  No     *)
(* fairness is assumed for the user or for token expiry.                  *)
(***************************************************************************)
Fairness ==
    /\ \A a \in Actors : WF_vars(Process(a))
    /\ \A a \in Requesters : WF_vars(Reject(a) \/ Deliver(a))
    /\ \A a \in Requesters : WF_vars(ReadBody(a))
    /\ WF_vars(SignOutSettled)

Spec == Init /\ [][Next]_vars /\ Fairness

(***************************************************************************)
(* Properties                                                              *)
(***************************************************************************)
TypeOK ==
    /\ token \in Tokens \cup {NoToken}
    /\ valid \subseteq issued /\ issued \subseteq Tokens
    /\ act \in [Actors -> ActRec]
    /\ rejected \subseteq Tokens
    /\ expected \in Tokens \cup {NoToken}
    /\ signoutTok \in Tokens \cup {NoToken}
    /\ resource \in UserResources \cup {NullV}
    /\ user \in {NoUser} \cup [name : {"name", "profile", "email"}, email : BOOLEAN]
    /\ isLoading \in BOOLEAN

(***************************************************************************)
(* RejectedTokenNotReused: once any call has been answered 401 or 419 for  *)
(* a token, no call started afterwards, in any component or tab, sends     *)
(* that token again.  It takes the clear of lines 204-205 on both statuses *)
(* and a store that only ever receives fresh tokens from a login.          *)
(***************************************************************************)
RejectedTokenNotReused ==
    [][\A a \in Requesters :
          act[a].pc = "idle" /\ act'[a].pc = "await1" => act'[a].sent \notin rejected
      ]_vars

(***************************************************************************)
(* EveryCallEnds: a call that has started ends, with data or an error,     *)
(* after at most the one proxy retry: nothing in the executor waits or     *)
(* retries without bound.                                                  *)
(***************************************************************************)
EveryCallEnds ==
    \A a \in Actors : act[a].pc # "idle" ~> act[a].pc = "done"

(***************************************************************************)
(* CredentialLifecycle: the store holds exactly the credential its         *)
(* lifecycle gives: the token of the latest login, until a logout or an    *)
(* authentication rejection of that token; a concurrent call that read an  *)
(* older token (or none) is allowed to race, and "self-heals on the next   *)
(* call".                                                                  *)
(***************************************************************************)
CredentialLifecycle == token = expected

(***************************************************************************)
(* SignOutRevokesToken: once the backend has executed the sign-out's      *)
(* logout request, the bearer token that was stored when sign-out began is *)
(* no longer accepted, as the signout route's comment says ("so Laravel    *)
(* can revoke both Sanctum sessions and tokens").  A POST that never       *)
(* reaches the backend is outside it: user-nav.tsx line 150 accepts that.  *)
(***************************************************************************)
SignOutRevokesToken ==
    act[UserNav].executed # {} => signoutTok \notin valid

\* The user resource read without recursion, for bodies whose `data`
\* chain is at most two deep: the object at the end of the chain of truthy
\* `data` members, none if a link is a string; its name, else (if the name
\* is absent) its profile name, else its email, must be a non-empty string.
RefUser(p) ==
    LET inner == CASE p.kind # "obj"                         -> NullV
                   [] p.data.kind \notin {"obj", "str"}      -> p
                   [] p.data.kind = "str"                    -> NullV
                   [] p.data.data.kind \notin {"obj", "str"} -> p.data
                   [] OTHER                                  -> NullV
    IN  CASE inner.kind # "obj"                                     -> NoUser
          [] Truthy(inner.name)                                     -> [name |-> "name", email |-> Truthy(inner.email)]
          [] inner.name = "absent" /\ Truthy(inner.profileName)     -> [name |-> "profile", email |-> Truthy(inner.email)]
          [] Truthy(inner.email)                                    -> [name |-> "email", email |-> TRUE]
          [] OTHER                                                  -> NoUser

(***************************************************************************)
(* UserNavShowsUserCall: once UserNav's "user" call has ended, and before  *)
(* sign-out has finished, the menu has stopped loading and shows the user  *)
(* of the answered resource (a Laravel resource wrapped in `data` included) *)
(* if the call returned data, and no user if it threw (401/419, an HTTP    *)
(* error, a network failure after the proxy retry).                        *)
(***************************************************************************)
UserNavShowsUserCall ==
    act[UserCall].pc = "done" /\ act[UserNav].pc # "done" =>
        /\ ~isLoading
        /\ user = IF act[UserCall].outcome = "ok" THEN RefUser(resource) ELSE NoUser

(***************************************************************************)
(* LoginExecutedAtMostOnce: the backend executes the login POST (the one   *)
(* non-idempotent request of the model: each execution issues a token) at  *)
(* most once per submit, whatever the network does.  Spec section 9 asks   *)
(* only whether the proxy retry masks an outage.                           *)
(***************************************************************************)
LoginExecutedAtMostOnce == Cardinality(act[LoginPage].executed) <= 1

(***************************************************************************)
(* Refinement of the contract.  A requester's call is open while its       *)
(* attempt is on the wire, answered once the backend executed it (or while *)
(* its body is read), closed when it is done.                              *)
(***************************************************************************)
\* No answer in hand: not started, on the wire, or given up on
Lost(a) == act[a].pc = "idle" \/ act[a].wire = "sent" \/ act[a].outcome = "networkError"

Verdict(a) == CASE Lost(a)                           -> "none"
                [] act[a].status \in AuthStatuses    -> "auth"
                [] act[a].status = 200               -> "ok"
                [] OTHER                             -> "error"

CallOf(a) ==
    [st      |-> CASE act[a].pc = "idle"   -> "idle"
                   [] act[a].pc = "done"   -> "closed"
                   [] act[a].wire = "sent" -> "open"
                   [] OTHER                -> "answered",
     sent    |-> act[a].sent,
     verdict |-> Verdict(a),
     reply   |-> IF Verdict(a) = "ok" THEN act[a].reply ELSE NoToken]

Contract == INSTANCE CredentialStore WITH cred <- token, call <- [a \in Requesters |-> CallOf(a)]

(***************************************************************************)
(* ImplementsCredentialStore: the executor, the login form and sign-out    *)
(* together implement the contract of spec.md: every call attaches the     *)
(* credential stored when it starts, and the store changes only when a     *)
(* call ends with an authentication rejection (cleared) or a successful    *)
(* login answer with a token (stored), and on sign-out (cleared).          *)
(***************************************************************************)
ImplementsCredentialStore == Contract!Spec

=============================================================================
