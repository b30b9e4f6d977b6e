-------------------------- MODULE MCAdminResource --------------------------
(* Two clicks on one admin key; the users page edits row 1 (`?id=1`), the *)
(* teams and roles pages are the create pages.                             *)
EXTENDS AdminResource

CONSTANTS k1, k2

MCClicks == {k1, k2}
MCServerIds == {1, 2, 3, 4, 5}
MCInitialIds == {1}
MCEditId == [p \in {"user", "team", "role", "permission"} |-> IF p = "user" THEN 1 ELSE NoId]
=============================================================================
