---------------------------- MODULE MCApiClient ----------------------------
(***************************************************************************)
(* Model of ApiClient: one component call, the login form and  *)
(* the sign-out item, two tokens, and a page whose API base is on its    *)
(* own origin (so a failed direct call is retried through the proxy).      *)
(***************************************************************************)
EXTENDS ApiClient

CONSTANTS c1, t1, t2

MCCalls  == {c1}
MCTokens == {t1, t2}

\* NEXT_PUBLIC_API_BASE_URL = "http://<page origin>/api"
MCEnv == [public |-> [kind |-> "abs", origin |-> "page", path |-> <<"/", "a">>],
          inBrowser |-> TRUE]

MCCallPaths == {<<"a">>}
MCLoginPath == <<"a", "/", "a">>

MCUserCall == c1

\* "user" answers: a Laravel resource {data: {name, email}}; a user whose
\* name is "" with a profile name and no email; a user with a truthy
\* string `data` member.
MCUserResources ==
    { Payload("absent", "absent", "absent", Payload("str", "absent", "str", [kind |-> "absent"])),
      Payload("empty", "str", "absent", [kind |-> "absent"]),
      Payload("str", "absent", "str", [kind |-> "str"]) }

=============================================================================
