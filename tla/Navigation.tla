----------------------------- MODULE Navigation -----------------------------
(***************************************************************************)
(* Page navigation through the root middleware (middleware.ts) and the     *)
(* post-login redirect of the two login pages:                            *)
(*   - src/app/(public)/login/page.tsx, served at /login, which takes its  *)
(*     target from resolvePostLoginRedirect (src/lib/login-redirect.ts);   *)
(*   - src/app/public/login/page.tsx, served at /public/login, which       *)
(*     checks the `from` parameter inline.                                 *)
(*                                                                         *)
(* A pathname is a sequence of segment tokens.  A `from` parameter is a    *)
(* string over a small alphabet: "p" stands for the word `private`, "d"    *)
(* for `dashboard` (a PRIVATE_PREFIXES word), "e" for the locale `en`, "o" *)
(* for any other word, a backslash and a space.  Whether Next.js loads a   *)
(* middleware.ts at the project root of an app kept under src/app is a     *)
(* property of the deployment, so Init chooses it.                         *)
(*                                                                         *)
(* The public sign-up flow rides on the same browser: the links the pages  *)
(* render, the register page's submit and its router.push, the            *)
(* verify-email page's effects, and the I18nProvider of the root layout,   *)
(* whose locale the pages' dictionaries follow.  A typed URL is a full     *)
(* page load: it remounts the provider and ends every pending promise; a   *)
(* link or router.push is a client-side navigation that keeps them.        *)
(*                                                                         *)
(* The root layout also mounts PageLoadOverlay (components/                *)
(* PageLoadOverlay.tsx), whose effect runs on every committed pathname,    *)
(* and private pages render UserNav, whose sign-out ends in a full         *)
(* navigation to the localized login path (components/private/user-nav).  *)
(***************************************************************************)
EXTENDS Naturals, Sequences, SequencesExt

CONSTANTS
    Variant,     \* "helper": the (public)/login page; "inline": public/login
    Pages,       \* pathnames the app directory has a page for
    Visits,      \* pathnames a user may type
    Froms,       \* `from` strings a user may type, over Chars
    NoFrom,
    Locales,     \* locale codes of the language toggle, "en" among them
    MaxToggles,  \* bound on the language toggle's selections
    Deployments, \* whether middleware.ts is loaded: a subset of BOOLEAN
    Cached       \* pathnames whose images are complete when the overlay runs

VARIABLES
    mw,       \* the middleware is loaded
    cookie,   \* a Laravel session cookie is present
    loc,      \* the browser: a request for a path, a page, a 404, off-site
    locale,   \* I18nProvider: the locale state
    saved,    \* localStorage "locale", or "none"
    ploads,   \* I18nProvider: pending loadLocaleDict(..).then callbacks
    peff,     \* I18nProvider: the [locale] effect is due to run
    toggles,  \* selections made in the language toggle so far
    reg,      \* register page: isSubmitting, kept by a pending submit
    vp,       \* the mounted verify-email page, or VpOff
    ov,       \* PageLoadOverlay of the root layout
    so,       \* UserNav: isSigningOut, kept by a pending sign-out
    pd        \* the mounted login or register page's dictionary, or PdOff

vars == <<mw, cookie, loc, locale, saved, ploads, peff, toggles, reg, vp, ov, so, pd>>

Chars == {"/", "\\", "p", "d", "e", "o", " "}   \* "o": any other word

-----------------------------------------------------------------------------
(* The browser's URL parser, applied to a same-page href.                  *)

Slash(c) == c \in {"/", "\\"}

RECURSIVE DropSpaces(_)
DropSpaces(s) == IF s # <<>> /\ Head(s) = " " THEN DropSpaces(Tail(s)) ELSE s

\* String.prototype.trim over the alphabet
trim(s) == Reverse(DropSpaces(Reverse(DropSpaces(s))))

\* Two leading slashes or backslashes make a scheme-relative URL
SchemeRelative(s) == LET t == trim(s) IN Len(t) >= 2 /\ Slash(t[1]) /\ Slash(t[2])

RECURSIVE DropSlashes(_)
DropSlashes(s) == IF s # <<>> /\ Slash(Head(s)) THEN DropSlashes(Tail(s)) ELSE s

\* Its host: the parser skips every further slash, then reads up to the
\* next one
HostOf(s) ==
    LET r == DropSlashes(trim(s))
        i == SelectInSeq(r, Slash)
    IN IF i = 0 THEN r ELSE SubSeq(r, 1, i - 1)

\* A scheme-relative URL with a host is another site; one whose host is
\* empty or holds a space (a forbidden host code point) fails to parse.
OffOrigin(s) == SchemeRelative(s) /\ HostOf(s) # <<>> /\ " " \notin Range(HostOf(s))
BadUrl(s) == SchemeRelative(s) /\ ~OffOrigin(s)

Word(run) == CASE run = <<"p">> -> "private"
               [] run = <<"d">> -> "dashboard"
               [] run = <<"e">> -> "en"
               [] OTHER         -> "other"

\* The pathname's non-empty segments
RECURSIVE Segments(_, _)
Segments(s, run) ==
    IF s = <<>> THEN IF run = <<>> THEN <<>> ELSE <<Word(run)>>
    ELSE IF Slash(Head(s))
         THEN (IF run = <<>> THEN <<>> ELSE <<Word(run)>>) \o Segments(Tail(s), <<>>)
         ELSE Segments(Tail(s), Append(run, Head(s)))

PathOf(s) == Segments(trim(s), <<>>)

-----------------------------------------------------------------------------
(* Post-login targets.  A target is a `from` string, or a fixed pathname.  *)

Str(s) == [str |-> TRUE, s |-> s, path |-> <<>>]
Path(p) == [str |-> FALSE, s |-> <<>>, path |-> p]

\* POST_LOGIN_FALLBACK_ROUTE
POST_LOGIN_FALLBACK_ROUTE == Path(<<"private", "dashboard">>)

StartsWith(s, pre) == IsPrefix(pre, s)

resolvePostLoginRedirectNoPrivateCheck(f) ==
    IF f = NoFrom THEN POST_LOGIN_FALLBACK_ROUTE
    ELSE LET n == trim(f) IN
         IF ~StartsWith(n, <<"/">>) \/ StartsWith(n, <<"/", "/">>)
         THEN POST_LOGIN_FALLBACK_ROUTE ELSE Str(n)

\* resolvePostLoginRedirect: only an on-site path inside /private
resolvePostLoginRedirect(f) ==
    IF f = NoFrom THEN POST_LOGIN_FALLBACK_ROUTE
    ELSE LET n == trim(f) IN
         IF ~StartsWith(n, <<"/">>) \/ StartsWith(n, <<"/", "/">>)
            \/ ~StartsWith(n, <<"/", "p">>)
         THEN POST_LOGIN_FALLBACK_ROUTE ELSE Str(n)

\* public/login's fallbackRedirect: the dashboard under the locale
fallbackRedirect == Path(<<locale, "private", "dashboard">>)

\* public/login's redirectTarget: any `from` that starts with a slash, else
\* the localized dashboard
inlineRedirectTarget(f) ==
    IF f = NoFrom \/ ~StartsWith(f, <<"/">>)
    THEN fallbackRedirect
    ELSE Str(f)

redirectTarget(f) ==
    IF Variant = "helper" THEN resolvePostLoginRedirect(f)
    ELSE inlineRedirectTarget(f)

LoginPath == IF Variant = "helper" THEN <<"login">> ELSE <<"public", "login">>

-----------------------------------------------------------------------------
(* middleware.ts.  A locale other than `en` and the words of               *)
(* PRIVATE_PREFIXES other than `dashboard` behave alike and are omitted.   *)

LOCALES == {"en"}
DEFAULT_LOCALE == "en"
PRIVATE_PREFIXES == {"dashboard"}
PUBLIC_AUTH_PATHS == {<<"auth", "login">>, <<"auth", "register">>, <<"login">>, <<"register">>}

Pass == [redirect |-> FALSE, path |-> <<>>, from |-> NoFrom]
Redirect(p, f) == [redirect |-> TRUE, path |-> p, from |-> f]

\* `pathname + search` as a `from` value
Letter(w) == CASE w = "private" -> "p" [] w = "dashboard" -> "d"
               [] w = "en" -> "e" [] OTHER -> "o"
CharsOf(p) == FoldLeft(LAMBDA acc, w : acc \o <<"/", Letter(w)>>, <<>>, p)

middlewareNoLocalePrefix(p, f, c) ==
    LET hasLocale == p # <<>> /\ Head(p) \in LOCALES
        rest == IF hasLocale THEN Tail(p) ELSE p
        isPrivate == rest # <<>> /\ Head(rest) \in PRIVATE_PREFIXES
        isPublicAuth == \E a \in PUBLIC_AUTH_PATHS : IsPrefix(a, rest)
    IN CASE p # <<>> /\ Head(p) \in {"_next", "api"} -> Pass
         [] ~hasLocale -> Redirect(p, f)
         [] isPrivate /\ ~isPublicAuth /\ ~c -> Redirect(<<Head(p), "auth", "login">>, CharsOf(p))
         [] OTHER -> Pass

\* Assets and /api pass; a path without a locale is redirected under /en,
\* keeping its query; a private path without a session cookie is
\* redirected to the locale's auth/login with `from` set to it.
middleware(p, f, c) ==
    LET hasLocale == p # <<>> /\ Head(p) \in LOCALES
        rest == IF hasLocale THEN Tail(p) ELSE p
        isPrivate == rest # <<>> /\ Head(rest) \in PRIVATE_PREFIXES
        isPublicAuth == \E a \in PUBLIC_AUTH_PATHS : IsPrefix(a, rest)
    IN CASE p # <<>> /\ Head(p) \in {"_next", "api"} -> Pass
         [] ~hasLocale -> Redirect(<<DEFAULT_LOCALE>> \o p, f)
         [] isPrivate /\ ~isPublicAuth /\ ~c -> Redirect(<<Head(p), "auth", "login">>, CharsOf(p))
         [] OTHER -> Pass

-----------------------------------------------------------------------------
(* Pages of the sign-up flow and the links the pages render (next/link).  *)

RegisterPath == <<"register">>               \* src/app/(public)/register
VerifyPath == <<"verify-email">>             \* src/app/(public)/verify-email
VerifyPush == <<"public", "verify-email">>   \* register onSubmit's router.push

\* LoginShowcase on both login pages links to sign-up; the register and
\* verify-email pages link back to login.
Links == {[at |-> p, to |-> <<"public", "register">>] : p \in {<<"login">>, <<"public", "login">>}}
         \cup {[at |-> p, to |-> <<"public", "login">>] : p \in {RegisterPath, VerifyPath}}

LinkKinds == {"none", "valid", "invalid"}   \* verify-email's id & hash params

Req(p, f, by, l, e) == [st |-> "req", path |-> p, from |-> f, by |-> by, link |-> l, email |-> e]

VpOff == [on |-> FALSE, dict |-> "en", dload |-> "none", status |-> "idle",
          cur |-> 0, reqs |-> <<>>, shown |-> 0, resend |-> "idle"]

\* The login pages and the register page keep their own dictionary: it
\* starts as enBase, and their [locale] effect imports ./lang/<locale>.json.
\* loads: the imports not yet resolved, each with its run's `mounted`.
PdOff == [on |-> FALSE, dict |-> "en", loads |-> <<>>]
DictPages == {<<"login">>, <<"public", "login">>, RegisterPath}

\* A run of that effect: the previous run's cleanup sets its `mounted` to
\* false, and this run starts the import of locale l.
PageDictEffect(p, l) ==
    [p EXCEPT !.loads = [j \in DOMAIN @ |-> [@[j] EXCEPT !.alive = FALSE]]
                        \o <<[loc |-> l, alive |-> TRUE]>>]

-----------------------------------------------------------------------------
(* I18nProvider.  loadLocaleDict("en") returns at once, so its .then runs  *)
(* before any other event; any other locale is a dynamic import that       *)
(* resolves later, in any order with the others.                           *)

\* setLocale(l): React re-runs the [locale] effects only when l differs;
\* the verify-email page's dictionary import follows the new locale.
ApplyLocale(l, due) ==
    /\ locale' = l
    /\ peff' = (due \/ l # locale)
    /\ vp' = IF vp.on /\ l # locale THEN [vp EXCEPT !.dload = l] ELSE vp
    /\ pd' = IF pd.on /\ l # locale THEN PageDictEffect(pd, l) ELSE pd

\* The [locale] effect: a saved locale other than the current one is loaded
PersistedLocaleEffect ==
    /\ peff
    /\ CASE saved \in {"none", locale} ->
              peff' = FALSE /\ UNCHANGED <<locale, ploads, vp, pd>>
         [] saved = "en" -> ApplyLocale("en", FALSE) /\ UNCHANGED ploads
         [] OTHER ->
              /\ peff' = FALSE
              /\ ploads' = Append(ploads, [loc |-> saved, save |-> FALSE])
              /\ UNCHANGED <<locale, vp, pd>>
    /\ UNCHANGED <<mw, cookie, loc, saved, toggles, reg, ov, so>>

\* LanguageToggle onSelect -> changeLocale; replaceLocaleInPath leaves a
\* path without a locale segment, every page here, as it is.
changeLocale(l) ==
    /\ loc.st = "page" /\ ~peff /\ toggles < MaxToggles
    /\ l # locale
    /\ toggles' = toggles + 1
    /\ IF l = "en" THEN ApplyLocale("en", FALSE) /\ saved' = "en" /\ UNCHANGED ploads
       ELSE /\ ploads' = Append(ploads, [loc |-> l, save |-> TRUE])
            /\ UNCHANGED <<locale, peff, vp, saved, pd>>
    /\ UNCHANGED <<mw, cookie, loc, reg, ov, so>>

LocaleLoadedNoRerun(i) ==
    /\ ploads' = RemoveAt(ploads, i)
    /\ locale' = ploads[i].loc
    /\ vp' = IF vp.on /\ ploads[i].loc # locale THEN [vp EXCEPT !.dload = ploads[i].loc] ELSE vp
    /\ pd' = IF pd.on /\ ploads[i].loc # locale THEN PageDictEffect(pd, ploads[i].loc) ELSE pd
    /\ saved' = IF ploads[i].save THEN ploads[i].loc ELSE saved
    /\ UNCHANGED <<mw, cookie, loc, toggles, reg, peff, ov, so>>

\* A load resolves: setDict, setLocale, and for a toggle localStorage.setItem
LocaleLoaded(i) ==
    /\ ploads' = RemoveAt(ploads, i)
    /\ ApplyLocale(ploads[i].loc, peff)
    /\ saved' = IF ploads[i].save THEN ploads[i].loc ELSE saved
    /\ UNCHANGED <<mw, cookie, loc, toggles, reg, ov, so>>

-----------------------------------------------------------------------------
(* PageLoadOverlay, mounted by the root layout.  Its effect runs on every  *)
(* committed pathname: it shows the overlay, locks scrolling, and awaits   *)
(* the fonts and the images of the page; then it sets a timer that hides  *)
(* the overlay and unlocks scrolling unless the run was cleaned up         *)
(* (`alive`).  The cleanup clears the timer only once it is set, so a run  *)
(* cleaned up while awaiting stays pending (`stale`: the phases such runs  *)
(* are in) and its timer fires later.  The images of a Cached page are     *)
(* complete when the run starts, the others' still loading; a loading one  *)
(* fires load or error.  A complete image whose load had failed has        *)
(* naturalWidth 0: line 80 waits for its events, which already fired.     *)

OvOff == [on |-> FALSE, visible |-> TRUE, locked |-> FALSE, phase |-> "wait",
          img |-> "none", stale |-> {}]

\* rules: /login and /public/login wait for nothing, other paths for the
\* defaults' images and fonts
WaitsForImages(p) == p # <<"login">> /\ ~IsPrefix(<<"public", "login">>, p)

\* The effect on a new pathname, after the cleanup of the previous run;
\* `failed`: the page's complete image is a broken one
OverlayEffect(p, failed) ==
    [on |-> TRUE, visible |-> TRUE, locked |-> TRUE, phase |-> "wait",
     img |-> CASE ~WaitsForImages(p) -> "none"
               [] p \in Cached    -> IF failed THEN "failed" ELSE "complete"
               [] OTHER           -> "loading",
     stale |-> IF ov.on /\ ov.phase = "wait" /\ ov.img # "failed"
               THEN ov.stale \cup {"wait"} ELSE ov.stale]

\* UserNav's resolveLoginRedirect: the login path of the URL's locale
SUPPORTED_LOCALES == {"en", "es", "pt", "zh", "ja"}
resolveLoginRedirect(p) ==
    IF p # <<>> /\ Head(p) \in SUPPORTED_LOCALES THEN <<Head(p), "auth", "login">>
    ELSE <<"auth", "login">>

-----------------------------------------------------------------------------
Settled == loc.st \in {"start", "page", "404", "away"}

Init ==
    /\ mw \in Deployments
    /\ cookie = FALSE
    /\ loc = [st |-> "start", path |-> <<>>, from |-> NoFrom, by |-> "user",
              link |-> "none", email |-> FALSE]
    /\ locale = "en" /\ saved \in Locales \cup {"none"}
    /\ ploads = <<>> /\ peff = TRUE /\ toggles = 0
    /\ reg = "idle" /\ vp = VpOff
    /\ ov = OvOff /\ so = "idle" /\ pd = PdOff

\* The user types a URL: a full page load, which remounts the root layout's
\* provider.  Only a login page reads `from`, only verify-email id, hash
\* and email.
Visit(p, f, l, e) ==
    /\ Settled
    /\ f = NoFrom \/ p = LoginPath
    /\ (l = "none" /\ ~e) \/ p = VerifyPath
    /\ loc' = Req(p, f, "user", l, e)
    /\ locale' = "en" /\ ploads' = <<>> /\ peff' = TRUE
    /\ reg' = "idle" /\ vp' = VpOff /\ ov' = OvOff /\ so' = "idle" /\ pd' = PdOff
    /\ UNCHANGED <<mw, cookie, saved, toggles>>

\* A click on a rendered link: a client-side navigation
FollowLink(k) ==
    /\ loc.st = "page" /\ loc.path = k.at /\ ~peff
    /\ loc' = Req(k.to, NoFrom, "app", "none", FALSE)
    /\ vp' = VpOff /\ pd' = PdOff
    /\ UNCHANGED <<mw, cookie, locale, saved, ploads, peff, toggles, reg, ov, so>>

\* The verify-email page mounts: its dictionary starts as enBase and its
\* [locale] effect imports the provider's locale; with id and hash the
\* verify effect sets status "verifying" and sends the first GET.
Mount(l) ==
    [VpOff EXCEPT !.on = TRUE, !.dload = locale,
                  !.status = IF l = "none" THEN "idle" ELSE "verifying",
                  !.cur = IF l = "none" THEN 0 ELSE 1,
                  !.reqs = IF l = "none" THEN <<>> ELSE <<1>>]

\* The request passes the middleware (when loaded) and is served, or is
\* redirected, keeping its query, and requested again.
HandleRequest ==
    LET r == IF mw THEN middleware(loc.path, loc.from, cookie) ELSE Pass
        served == IF loc.path \in Pages THEN "page" ELSE "404"
    IN /\ loc.st = "req"
       /\ loc' = IF r.redirect THEN [loc EXCEPT !.path = r.path, !.from = r.from]
                 ELSE [loc EXCEPT !.st = served]
       /\ vp' = IF ~r.redirect /\ served = "page" /\ loc.path = VerifyPath
                THEN Mount(loc.link) ELSE vp
       /\ \E failed \in BOOLEAN : ov' = IF r.redirect THEN ov ELSE OverlayEffect(loc.path, failed)
       /\ pd' = IF ~r.redirect /\ served = "page" /\ loc.path \in DictPages
                THEN PageDictEffect([PdOff EXCEPT !.on = TRUE], locale) ELSE pd
       /\ UNCHANGED <<mw, cookie, locale, saved, ploads, peff, toggles, reg, so>>

\* onSubmit after apiMutation("auth/login") succeeded: the backend may have
\* set a session cookie; the token store is ApiClient's.  router.push of an
\* href on another origin is a full navigation there; an href the URL
\* parser rejects makes router.push throw into the catch, which only sets
\* errorMessage, as a failed login does.
onSubmit(setsCookie) ==
    LET t == redirectTarget(loc.from)
        bad == t.str /\ BadUrl(t.s)
    IN /\ loc.st = "page" /\ loc.path = LoginPath /\ ~peff
       /\ cookie' = (cookie \/ setsCookie)
       /\ loc' = CASE t.str /\ OffOrigin(t.s) -> [loc EXCEPT !.st = "away", !.path = <<>>, !.from = NoFrom]
                   [] bad                     -> loc
                   [] OTHER -> Req(IF t.str THEN PathOf(t.s) ELSE t.path, NoFrom, "app", "none", FALSE)
       /\ pd' = IF bad THEN pd ELSE PdOff
       /\ UNCHANGED <<mw, locale, saved, ploads, peff, toggles, reg, vp, ov, so>>

\* register onSubmit: ignored while isSubmitting; sends auth/register.  A
\* page remounted by a link while a submit is pending counts as submitting.
onRegister ==
    /\ loc.st = "page" /\ loc.path = RegisterPath /\ ~peff
    /\ reg = "idle"
    /\ reg' = "sending"
    /\ UNCHANGED <<mw, cookie, loc, locale, saved, ploads, peff, toggles, vp, ov, so, pd>>

\* The answer: on success router.push to /public/verify-email with the
\* email (and notice) in the query, from whatever page is shown; on an
\* error only formError and fieldErrors.  The finally clears isSubmitting.
RegisterAnswer(ok) ==
    /\ reg = "sending"
    /\ reg' = "idle"
    /\ IF ok THEN loc' = Req(VerifyPush, NoFrom, "app", "none", TRUE) /\ vp' = VpOff /\ pd' = PdOff
       ELSE UNCHANGED <<loc, vp, pd>>
    /\ UNCHANGED <<mw, cookie, locale, saved, ploads, peff, toggles, ov, so>>

dictLoadedNoResend ==
    /\ vp.on /\ vp.dload # "none"
    /\ LET rerun == vp.dload # vp.dict /\ loc.link # "none"
       IN vp' = [vp EXCEPT !.dict = vp.dload, !.dload = "none",
                           !.status = IF rerun THEN "verifying" ELSE @,
                           !.cur = IF rerun THEN @ + 1 ELSE @]
    /\ UNCHANGED <<mw, cookie, loc, locale, saved, ploads, peff, toggles, reg, ov, so, pd>>

\* The page's import resolves: setDict.  The verify effect depends on
\* dict.verified and dict.verification_failed, which differ between
\* locales: a new dictionary cancels the running verify and sends the GET
\* again.
DictLoaded ==
    /\ vp.on /\ vp.dload # "none"
    /\ LET rerun == vp.dload # vp.dict /\ loc.link # "none"
       IN vp' = [vp EXCEPT !.dict = vp.dload, !.dload = "none",
                           !.status = IF rerun THEN "verifying" ELSE @,
                           !.cur = IF rerun THEN @ + 1 ELSE @,
                           !.reqs = IF rerun THEN Append(@, vp.cur + 1) ELSE @]
    /\ UNCHANGED <<mw, cookie, loc, locale, saved, ploads, peff, toggles, reg, ov, so, pd>>

verifyAnswerNoCancel(i, o) ==
    /\ vp.on
    /\ o = "success" => loc.link = "valid"
    /\ vp' = [vp EXCEPT !.reqs = RemoveAt(@, i), !.status = o, !.shown = vp.reqs[i]]
    /\ UNCHANGED <<mw, cookie, loc, locale, saved, ploads, peff, toggles, reg, ov, so, pd>>

\* email/verify answers: success only for a valid signed link (an error
\* also when throttled or unreachable).  A cancelled run returns early.
VerifyAnswer(i, o) ==
    /\ vp.on
    /\ o = "success" => loc.link = "valid"
    /\ vp' = IF vp.reqs[i] = vp.cur
             THEN [vp EXCEPT !.reqs = RemoveAt(@, i), !.status = o, !.shown = vp.reqs[i]]
             ELSE [vp EXCEPT !.reqs = RemoveAt(@, i)]
    /\ UNCHANGED <<mw, cookie, loc, locale, saved, ploads, peff, toggles, reg, ov, so, pd>>

\* onResend: ignored while isResending; with neither the email parameter
\* nor a typed address it shows resend_error, else posts the notification.
onResend(typed) ==
    /\ vp.on /\ loc.st = "page" /\ ~peff
    /\ vp.resend # "sending"
    /\ vp' = [vp EXCEPT !.resend = IF loc.email \/ typed THEN "sending" ELSE "error"]
    /\ UNCHANGED <<mw, cookie, loc, locale, saved, ploads, peff, toggles, reg, ov, so, pd>>

ResendSettled(o) ==
    /\ vp.on /\ vp.resend = "sending"
    /\ vp' = [vp EXCEPT !.resend = o]
    /\ UNCHANGED <<mw, cookie, loc, locale, saved, ploads, peff, toggles, reg, ov, so, pd>>

\* A loading image of the current run fires load or error (lines 81-89)
ImageSettled ==
    /\ ov.on /\ ov.img = "loading"
    /\ ov' = [ov EXCEPT !.img = "settled"]
    /\ UNCHANGED <<mw, cookie, loc, locale, saved, ploads, peff, toggles, reg, vp, so, pd>>

\* Promise.all resolves: a complete image with a naturalWidth counts at
\* once (line 80); the timer is set (lines 94-98)
OverlayReady ==
    /\ ov.on /\ ov.phase = "wait" /\ ov.img \in {"none", "complete", "settled"}
    /\ ov' = [ov EXCEPT !.phase = "timer"]
    /\ UNCHANGED <<mw, cookie, loc, locale, saved, ploads, peff, toggles, reg, vp, so, pd>>

\* The current run's timer: hide and unlock scrolling (lines 99-102)
OverlayTimer ==
    /\ ov.on /\ ov.phase = "timer"
    /\ ov' = [ov EXCEPT !.phase = "done", !.visible = FALSE, !.locked = FALSE]
    /\ UNCHANGED <<mw, cookie, loc, locale, saved, ploads, peff, toggles, reg, vp, so, pd>>

\* A cleaned-up run's Promise.all resolves and it sets a timer no cleanup
\* will clear
StaleReady ==
    /\ ov.on /\ "wait" \in ov.stale
    /\ ov' = [ov EXCEPT !.stale = (@ \ {"wait"}) \cup {"timer"}]
    /\ UNCHANGED <<mw, cookie, loc, locale, saved, ploads, peff, toggles, reg, vp, so, pd>>

staleTimerNoAlive ==
    /\ ov.on /\ "timer" \in ov.stale
    /\ ov' = [ov EXCEPT !.stale = @ \ {"timer"}, !.visible = FALSE, !.locked = FALSE]
    /\ UNCHANGED <<mw, cookie, loc, locale, saved, ploads, peff, toggles, reg, vp, so, pd>>

\* Its timer fires: `alive` is false, so the callback returns (line 99)
StaleTimer ==
    /\ ov.on /\ "timer" \in ov.stale
    /\ ov' = [ov EXCEPT !.stale = @ \ {"timer"}]
    /\ UNCHANGED <<mw, cookie, loc, locale, saved, ploads, peff, toggles, reg, vp, so, pd>>

\* Mutant: the import's result is applied without checking `mounted`.
pageDictLoadedNoMounted(i) ==
    /\ pd.on
    /\ pd' = [pd EXCEPT !.loads = RemoveAt(@, i), !.dict = pd.loads[i].loc]
    /\ UNCHANGED <<mw, cookie, loc, locale, saved, ploads, peff, toggles, reg, vp, ov, so>>

\* An import of the pages' [locale] effect resolves: setDict only while its
\* run is still mounted.  Every locale of the toggle has its file, so the
\* catch (enBase) is not reached.
PageDictLoaded(i) ==
    /\ pd.on
    /\ pd' = [pd EXCEPT !.loads = RemoveAt(@, i),
                        !.dict = IF pd.loads[i].alive THEN pd.loads[i].loc ELSE @]
    /\ UNCHANGED <<mw, cookie, loc, locale, saved, ploads, peff, toggles, reg, vp, ov, so>>

\* UserNav's sign-out item on a private page: ignored while isSigningOut;
\* POSTs the signout route.
handleSignOut ==
    /\ loc.st = "page" /\ loc.path # <<>> /\ Head(loc.path) = "private" /\ ~peff
    /\ so = "idle"
    /\ so' = "sending"
    /\ UNCHANGED <<mw, cookie, loc, locale, saved, ploads, peff, toggles, reg, vp, ov, pd>>

\* The POST settles, answered or not; the finally clears the token (see
\* ApiClient) and assigns window.location the localized login path: a
\* full page load.  The backend's Set-Cookie renews the session cookies,
\* so their presence is unchanged.
SignOutSettled ==
    /\ so = "sending"
    /\ loc' = Req(resolveLoginRedirect(loc.path), NoFrom, "app", "none", FALSE)
    /\ locale' = "en" /\ ploads' = <<>> /\ peff' = TRUE
    /\ reg' = "idle" /\ vp' = VpOff /\ ov' = OvOff /\ so' = "idle" /\ pd' = PdOff
    /\ UNCHANGED <<mw, cookie, saved, toggles>>

Next ==
    \/ \E p \in Visits :
          \E f \in IF p = LoginPath THEN Froms \cup {NoFrom} ELSE {NoFrom},
             l \in IF p = VerifyPath THEN LinkKinds ELSE {"none"},
             e \in IF p = VerifyPath THEN BOOLEAN ELSE {FALSE} :
               Visit(p, f, l, e)
    \/ \E k \in Links : FollowLink(k)
    \/ HandleRequest
    \/ \E b \in BOOLEAN : onSubmit(b)
    \/ onRegister
    \/ \E b \in BOOLEAN : RegisterAnswer(b)
    \/ PersistedLocaleEffect
    \/ \E l \in Locales : changeLocale(l)
    \/ \E i \in 1..Len(ploads) : LocaleLoaded(i)
    \/ DictLoaded
    \/ \E i \in 1..Len(vp.reqs), o \in {"success", "error"} : VerifyAnswer(i, o)
    \/ \E b \in BOOLEAN : onResend(b)
    \/ \E o \in {"sent", "error"} : ResendSettled(o)
    \/ ImageSettled \/ OverlayReady \/ OverlayTimer
    \/ StaleReady \/ StaleTimer
    \/ handleSignOut \/ SignOutSettled
    \/ \E i \in 1..Len(pd.loads) : PageDictLoaded(i)

\* The current overlay run's next step: at most one of the three is enabled
\* at a time, so weak fairness of their disjunction is that of each.
OverlayStep == ImageSettled \/ OverlayReady \/ OverlayTimer

\* Requests are answered, promises resolve and effects run: the browser,
\* the server and React keep going.  The user may stop at any time.
Spec ==
    /\ Init /\ [][Next]_vars
    /\ WF_vars(HandleRequest) /\ WF_vars(PersistedLocaleEffect) /\ WF_vars(DictLoaded)
    /\ WF_vars(\E i \in 1..Len(ploads) : LocaleLoaded(i))
    /\ WF_vars(\E i \in 1..Len(vp.reqs), o \in {"success", "error"} : VerifyAnswer(i, o))
    /\ WF_vars(\E b \in BOOLEAN : RegisterAnswer(b))
    /\ WF_vars(\E o \in {"sent", "error"} : ResendSettled(o))
    /\ WF_vars(OverlayStep)
    /\ WF_vars(\E i \in 1..Len(pd.loads) : PageDictLoaded(i))

-----------------------------------------------------------------------------
TypeOK ==
    /\ mw \in BOOLEAN /\ cookie \in BOOLEAN
    /\ loc.st \in {"start", "req", "page", "404", "away"}
    /\ loc.from = NoFrom \/ loc.from \in Seq(Chars)
    /\ loc.by \in {"user", "app"} /\ loc.link \in LinkKinds /\ loc.email \in BOOLEAN
    /\ locale \in Locales /\ saved \in Locales \cup {"none"} /\ peff \in BOOLEAN
    /\ ploads \in Seq([loc : Locales, save : BOOLEAN]) /\ toggles \in 0..MaxToggles
    /\ reg \in {"idle", "sending"}
    /\ vp.status \in {"idle", "verifying", "success", "error"}
    /\ vp.resend \in {"idle", "sending", "sent", "error"}
    /\ ov \in [on : BOOLEAN, visible : BOOLEAN, locked : BOOLEAN,
               phase : {"wait", "timer", "done"},
               img : {"none", "complete", "failed", "loading", "settled"},
               stale : SUBSET {"wait", "timer"}]
    /\ so \in {"idle", "sending"}
    /\ pd \in [on : BOOLEAN, dict : Locales, loads : Seq([loc : Locales, alive : BOOLEAN])]

\* After a login the browser stays on this origin: the post-login
\* router.push never follows a `from` parameter to another host.
PostLoginSameOrigin == loc.st # "away"

\* Every request ends, as a page, a 404 or another site: the middleware's
\* redirects (locale prefix, then auth/login) never loop.
EveryNavigationSettles == [](loc.st = "req" => <>(loc.st # "req"))

\* A navigation the app starts itself (a rendered link, the register
\* page's router.push after auth/register succeeded, the post-login push)
\* reaches a page of the app, not the not-found page.
AppNavigationReachesPage == loc.by = "app" /\ loc.st \in {"page", "404"} => loc.st = "page"

\* The verify-email page shows the outcome of the verify GET of its latest
\* effect run: the answer of a run the dictionary change cancelled never
\* overwrites the status.
ShownStatusIsLatestAnswer ==
    vp.on /\ vp.status \in {"success", "error"} => vp.shown = vp.cur

\* A mounted verify-email page that says "verifying" comes to show an
\* outcome, or is left, although a late dictionary cancels its first run.
VerificationSettles ==
    vp.on /\ vp.status = "verifying" ~> ~vp.on \/ vp.status \in {"success", "error"}

\* The provider comes to show the locale saved in localStorage, unless the
\* user loads another page: the [locale] effect and the toggle's loads,
\* resolving in any order, do not leave it on another locale.
LocaleFollowsSaved ==
    saved \notin {"none", locale} ~> locale = saved \/ loc.st = "req"

\* The page-load overlay is hidden only by the timer of the run the current
\* pathname started: the timer of a run cleaned up by a client navigation,
\* set after its cleanup, never hides the next page's overlay early.
OverlayHiddenOnlyWhenReady == ov.on /\ ~ov.visible => ov.phase = "done"

\* PageDictFollowsLocale: once every import a still-mounted run of the
\* login or register page's [locale] effect started has resolved, the page
\* shows the provider's current locale, although the imports of earlier
\* runs (mount, saved locale, toggle) resolve in any order after it.
PageDictFollowsLocale ==
    pd.on /\ (\A j \in DOMAIN pd.loads : ~pd.loads[j].alive) => pd.dict = locale

=============================================================================
