---------------------------- MODULE MCNavigation ----------------------------
(* The app directory's pages, abstracted: /login, /public/login, a private *)
(* page, a public page, and the (public) group's /register and            *)
(* /verify-email; the user may also type a private path without a locale, *)
(* one with it, an asset path, the root and the /public/ paths the        *)
(* sign-up links use.                                                     *)
EXTENDS Navigation

MCPages == {<<"login">>, <<"public", "login">>, <<"private", "dashboard">>, <<"other">>,
            RegisterPath, VerifyPath}
MCVisits == MCPages \cup {<<"dashboard">>, <<"en", "dashboard">>, <<"_next", "other">>, <<>>}
\* Every string of up to 3 characters
MCAllFroms == BoundedSeq(Chars, 3)

\* Representatives of the `from` classes the helper tells apart: a private
\* path, one with leading spaces, a public path, and the scheme-relative
\* forms with two slashes and with a slash and a backslash.
MCFroms == {<<"/", "p">>, <<" ", "/", "p">>, <<"/", "d">>, <<"/", "/", "o">>,
            <<"/", "\\", "o">>}
\* The overlay finds the private page's and the verify page's images
\* complete (cached), the others' still loading.
MCCached == {<<"private", "dashboard">>, VerifyPath}
=============================================================================
