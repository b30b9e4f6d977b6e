------------------------ MODULE MCAuthDiagnostics ------------------------
(***************************************************************************)
(* Model of AuthDiagnostics: two cookie names with two values each, and    *)
(* responses carrying up to two Set-Cookie headers, so that a response     *)
(* can set both the XSRF and the session cookie, or overwrite one.         *)
(***************************************************************************)
EXTENDS AuthDiagnostics

CONSTANTS xsrf, session, v1, v2

MCCookieNames  == {xsrf, session}
MCCookieValues == {v1, v2}

\* Login answers: empty (a session-cookie login), a root token beside a
\* plainTextToken, a plainTextToken under `data`, and an empty root token
\* over a nested one.
MCLoginBodies ==
    { EmptyBody,
      Obj("str", "str", NullV),
      Obj("absent", "absent", Obj("absent", "str", NullV)),
      Obj("empty", "absent", Obj("str", "absent", NullV)) }
=============================================================================
