----------------------------- MODULE MCRouting -----------------------------
(***************************************************************************)
(* Model of Routing: base URLs with and without a path and a trailing      *)
(* slash on the page origin, on another origin and on an opaque origin,    *)
(* a root-relative base, an unparseable one and none; every path of up to *)
(* three characters.                                                       *)
(***************************************************************************)
EXTENDS Routing

PageRoot    == [kind |-> "abs", origin |-> "page",    path |-> <<"/">>]
PageApi     == [kind |-> "abs", origin |-> "page",    path |-> <<"/", "a">>]
PageApiDir  == [kind |-> "abs", origin |-> "page",    path |-> <<"/", "a", "/">>]
BackendRoot == [kind |-> "abs", origin |-> "backend", path |-> <<"/">>]
BackendApi  == [kind |-> "abs", origin |-> "backend", path |-> <<"/", "a">>]
OpaqueApi   == [kind |-> "abs", origin |-> "null",    path |-> <<"/", "a">>]
RelApi      == [kind |-> "rel", origin |-> "none",    path |-> <<"/", "a">>]
InvalidBase == [kind |-> "invalid", origin |-> "none", path |-> <<>>]

MCPublicBases ==
    {NoBase, PageRoot, PageApi, PageApiDir, BackendRoot, BackendApi,
     OpaqueApi, RelApi, InvalidBase}

MCServerBases == {Unset, NoBase, PageApi, BackendApi}

MCInputs == BoundedSeq(Chars, 3)
=============================================================================
