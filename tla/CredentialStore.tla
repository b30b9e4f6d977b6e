--------------------------- MODULE CredentialStore ---------------------------
(***************************************************************************)
(* What the Request Executor and the Credential Store promise, as spec.md  *)
(* states it (sections 3, 4.2 and 5): one persisted slot holding at most   *)
(* one bearer credential; every call attaches the credential stored when   *)
(* it starts; the credential is "created on successful login" and          *)
(* "destroyed on logout or on receiving an authentication-rejection status *)
(* from any call"; no other client-side state mutation.                   *)
(*                                                                         *)
(* A call is idle, open (a request on the wire), answered (a verdict and,  *)
(* for a login, the token of the answer), or closed.  The network may lose *)
(* an answer and the executor send the request again (Retry), or give up   *)
(* (Fail).  The store changes only when a call closes, and on sign-out.   *)
(***************************************************************************)
CONSTANTS
    Requesters,   \* callers of the executor
    LoginPage,    \* the caller whose successful answer carries a credential
    Tokens,
    NoToken

VARIABLES
    cred,   \* the stored credential, or NoToken
    call    \* per caller: [st, sent, verdict, reply]

absVars == <<cred, call>>

Verdicts == {"none", "ok", "error", "auth"}   \* 2xx, other non-2xx, 401/419

Fresh == [st |-> "idle", sent |-> NoToken, verdict |-> "none", reply |-> NoToken]

Init ==
    /\ cred \in Tokens \cup {NoToken}
    /\ call = [a \in Requesters |-> Fresh]

\* The call starts and attaches the stored credential
Open(a) ==
    /\ call[a].st = "idle"
    /\ call' = [call EXCEPT ![a] = [Fresh EXCEPT !.st = "open", !.sent = cred]]
    /\ UNCHANGED cred

\* The backend answers; only a successful login answer may carry a token
Answer(a, v, r) ==
    /\ call[a].st = "open"
    /\ r # NoToken => a = LoginPage /\ v = "ok"
    /\ call' = [call EXCEPT ![a].st = "answered", ![a].verdict = v, ![a].reply = r]
    /\ UNCHANGED cred

\* A network-level failure: the request is sent again with the same header
Retry(a) ==
    /\ call[a].st \in {"open", "answered"}
    /\ call' = [call EXCEPT ![a].st = "open", ![a].verdict = "none", ![a].reply = NoToken]
    /\ UNCHANGED cred

\* A network-level failure the executor gives up on
Fail(a) ==
    /\ call[a].st \in {"open", "answered"}
    /\ call' = [call EXCEPT ![a].st = "closed", ![a].verdict = "none", ![a].reply = NoToken]
    /\ UNCHANGED cred

\* The caller receives the answer: an authentication rejection destroys the
\* credential, a successful login creates one, anything else leaves it.
Close(a) ==
    /\ call[a].st = "answered"
    /\ call' = [call EXCEPT ![a].st = "closed"]
    /\ cred' = CASE call[a].verdict = "auth"                  -> NoToken
                 [] call[a].verdict = "ok" /\ call[a].reply # NoToken -> call[a].reply
                 [] OTHER                                     -> cred

\* Logout destroys the credential
SignOut ==
    /\ cred' = NoToken
    /\ UNCHANGED call

Next ==
    \/ \E a \in Requesters :
          \/ Open(a) \/ Retry(a) \/ Fail(a) \/ Close(a)
          \/ \E v \in Verdicts \ {"none"}, r \in Tokens \cup {NoToken} : Answer(a, v, r)
    \/ SignOut

Spec == Init /\ [][Next]_absVars
=============================================================================
