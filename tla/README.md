# TLA+ models of the Yamato web client

These modules model the browser API client, the same-origin reverse proxy, the
credential store and the flows that write it, and the server-side
authentication diagnostics of `src/frontend/web`. Every definition is
translated from the TypeScript source. `PROJECT.json` maps each one to the
lines it models.

## The system

| Part | Source | State and operations |
|---|---|---|
| Target Resolver | `src/lib/api-client.ts` 1-143 | Pure. It decides between the proxy path `/api/proxy/<p>`, a same-origin relative path and the absolute backend URL. It also returns the normalized path used by a later fallback. |
| Request Executor | `src/lib/api-client.ts` 169-248 | One call: resolve, read the token, fetch, retry once through the proxy on a network-level rejection, clear the token on 401/419, read the body, throw on a non-2xx status. |
| Credential Store | `src/lib/api-client.ts` 145-167 | One `localStorage` slot, shared by every call of every tab of the origin. |
| Reverse Proxy Forwarder | `src/app/api/proxy/[...path]/route.ts` | Per request: pick the server-side base (`API_BASE_URL ?? NEXT_PUBLIC_API_BASE_URL`), rewrite the path, forward an allow-list of headers, mirror the answer. |
| Login page | `src/app/(public)/login/page.tsx` 54-106 | `apiMutation("auth/login")`, then `setStoredToken` of the returned token, if there is one. |
| UserNav | `src/components/private/user-nav.tsx` 86-165 | `apiRequest("user")` on mount. Sign-out posts to the signout route without an Authorization header. Its `finally` block clears the store and assigns `window.location` the localized `/auth/login`. |
| Page-load overlay | `src/components/PageLoadOverlay.tsx` 22-112 | Mounted by the root layout. On every new pathname an effect shows a full-page overlay and locks scrolling. It awaits the fonts and the page's images, then sets a timer that hides the overlay unless the run was cleaned up. |
| Signout route | `src/app/private/api/auth/signout/route.ts` | Forwards the incoming cookies and Authorization header to `auth/logout`. |
| Diagnostic Probe Sequencer | `src/lib/auth-diagnostics.ts` | First HEAD, then GET if HEAD throws. Then the strictly sequential chain register → login → token → verification. A cookie jar and a context are threaded through the chain. |
| Diagnostics route | `src/app/private/api/diagnostics/auth/route.ts` | Parses the body, chooses a base URL (the body's override, else the env), and runs the sequencer once. It answers 400, 500 or the report. |
| Diagnostics page | `src/app/private/security/auth-tests/page.tsx` | The operator's form. `runDiagnostics` POSTs it to the route and shows the report or the error. |
| Admin resource hook | `src/hooks/use-admin-resource.ts` | One SWR cache entry per admin list. `create` and `update` are SWR `mutate` calls with an optimistic list, `rollbackOnError: true` and `revalidate: false`; `refresh` revalidates. |
| Admin panels and forms | `components/secure/{users,teams,roles}/*Panel.tsx`, `*Form.tsx` | The panels seed a row and refresh. The add-edit forms edit fields, sync them from the cached record, and submit an update when the record is in the list, else a create. |
| Middleware guard | `middleware.ts` 29-75 | Per request: pass assets and `/api`; redirect a path without a locale to `/en<path>`; redirect a private path (after the locale) without a Laravel session cookie to `/<locale>/auth/login?from=<path>`. |
| Login redirect | `src/lib/login-redirect.ts`; `app/public/login/page.tsx` 31-37 | Where the post-login `router.push` goes: the helper accepts only a trimmed on-site `/private...` path; the `/public/login` page accepts any `from` that starts with `/`. |
| Sign-up pages | `app/(public)/register/page.tsx` 110-168, `app/(public)/verify-email/page.tsx` 55-195, `LoginShowcase.tsx` 169 | Register: `auth/register`, then `router.push("/public/verify-email?email=...")`. Verify-email: a `[locale]` effect imports the page dictionary; a verify effect sends the signed GET, cancelled by its cleanup, and depends on two dictionary strings; `onResend` posts a new notification. The pages link to each other under `/public/...`. |
| I18n provider | `app/providers/I18nProvider.tsx` 41-98 | Root-layout state `locale`. A `[locale]` effect loads the `localStorage` locale when it differs; `changeLocale` loads the chosen one and saves it when the load resolves. |
| Other UI | other components and pages | Not modelled (see below). |

How the parts interact:

- A browser call resolves its target from `NEXT_PUBLIC_API_BASE_URL`. It may land on the backend directly or on the proxy route. The proxy resolves the server's own base URL, which may be a different variable.
- All calls read the shared token slot before their first await. The login page writes the slot; a 401/419 answer and sign-out clear it.
- The diagnostics chain is sequential. Its stages interact only through the cookie jar and the context values.
- The page-load overlay's runs overlap across client navigations: a run cleaned up while it awaits still sets its timer later.

What is hard here, and what a unit test would hardly reach:

- The interleavings of calls, logins and sign-outs on the shared slot.
- A response that is lost after the backend executed the request, followed by the retry.
- The slash arithmetic of three joins done in two processes, which must agree on one endpoint.
- The cross-stage dependencies of the diagnostics chain, under every combination of backend answers.

## Modules

- **Resolver**: the resolver's pure functions, as operators over an abstract string alphabet.
  - `/` is a slash, `a` any path text, `P` the text `api/proxy`, `!` base text that no URL parser accepts.
  - The slash trimming, the prefix test and the joins are done character by character on this alphabet.
  - Origins are kept as a field: `page`, `backend`, `null`.
- **ProxyRoute**: `resolveApiBaseUrl` and `buildTargetUrl` of the proxy.
  - `buildTargetUrl` includes the non-global `replace(/\/+/, "/")`.
- **Routing**: one logical call followed across the network.
  - Actions: `Resolve`, then the `Direct` attempt, then the optional `Fallback`.
  - `Reach` says which endpoint an attempt lands on, through the proxy's rewrite when it goes through the proxy.
  - The deployment (client base, server base, browser or server) and the input path are chosen in `Init`.
- **ApiClient**: the executor and the store under concurrency.
  - Actors: component calls (`Calls`), the login form and the sign-out item. Each actor makes one call, whose state is `act[a]`.
  - Each await of the code is a step boundary.
    - `apiRequest` reads the token and sends the request.
    - `Process` is the backend executing the request: it issues tokens on login, checks a token on other calls, and revokes the received token on logout.
    - `Reject` is a network-level rejection, which can come before or after `Process`. It leads to the retry or to the rethrow.
    - `Deliver` is the response reaching the client: 401/419 clears the store.
    - `ReadBody` is the status check, plus the login page's store of the returned token.
    - `SignOutSettled` is the sign-out's `finally` block. It also resets UserNav's `user`.
  - UserNav's own state is `resource`, `user` and `isLoading`. When the `user` call (`UserCall`) finishes, `userEffect` runs the effect's continuation in the same step. An `ok` answer stores a payload chosen from `UserResources` and sets `user` to `normalizeUser` of it. A failure sets `user` to null. Both clear `isLoading`, as the `finally` block does.
    - `extractUser` is recursive, as in the code: it unwraps `data` while `data` is an object or a truthy string.
    - `normalizeUser` keeps the name's source (`name`, `profile`, `email`) and whether an email is set. The displayed text is not modelled.
  - The backend's token expiry is `Expire`.
  - History variables record what properties need:
    - `rejected`: tokens a 401/419 was given for;
    - `expected`: the credential the lifecycle says is stored;
    - `signoutTok`: the stored token when sign-out began.
- **CredentialStore**: the abstract contract of the executor and the store, from spec.md sections 3-5 (no code is mapped to it).
  - `cred` is the slot. A call is idle, open, answered (with a verdict `ok`, `error` or `auth`, and a login's token) or closed.
  - The store changes only when a call closes (`auth` clears it, an `ok` login answer with a token stores it) and on `SignOut`. The network may lose an answer (`Retry`, `Fail`).
  - `ApiClient` instantiates it as `Contract` with `cred <- token` and each requester's call mapped by `CallOf`: open while its attempt is on the wire, answered once the backend executed it or while its body is read, closed when done. The sign-out item is not a caller of the executor; its `finally` is `SignOut`.
- **AuthDiagnostics**: the diagnostics page, the route and `runAuthDiagnostics`, one action per step.
  - The page: `runDiagnostics` builds the body from the form. Register and login are sent only when all their fields are filled. An empty verification email falls back to the raw register email. `ShowResponse` shows the report or the error. `isRunning` admits one run at a time, so the model has one run.
  - `DirectPost` is any other client POSTing any body, malformed JSON included.
  - The route: `POST` answers 400 to malformed JSON. It answers 500 when `resolveBaseUrl` finds no base, and 500 from its `catch` when `normalizeBaseUrl` rejects a non-absolute base. Otherwise the sequencer starts. `Respond` is the 200 answer.
  - The sequencer: `HeadProbe`, `GetProbe`, `Register`, `Login`, `Token`, `Verification`.
  - `sendJsonRequest`, `mergeCookieJar` and `getSetCookieHeaders` are operators.
  - Abstractions:
    - a response is an outcome (`throw`, `ok`, `notOk`) with its Set-Cookie list;
    - an email is `E1`, `Blank`, the template `Tmpl` (the page's default `diagnostic+{{timestamp}}@example.com`) or `Stamped`, the address `applyEmailTemplate` makes of it;
    - a base URL is `none`, `valid` (absolute) or `invalid`;
    - a duration is 0 or "at least 1 ms".
  - The history `setLog` is the jar that every Set-Cookie received would give.
  - Login answers carry a body (`LoginBodies`): empty, or an object whose `token` and `plainTextToken` are a non-empty string, an empty string or absent, with an optional nested `data` object. `readJsonResponse` turns an empty body into `null`. `extractTokenFromPayload` is a RECURSIVE operator that follows `data` and records the depth and the key it found. `loginPageToken` is the login page's own inline candidate (`token`, `plainTextToken`, `data.token`).

- **AdminResource**: one admin list key, its panel and its add-edit form.
  - The cache is SWR 2's state for the key: `data`, the committed snapshot `_c` (`cc`), `MUTATION[key]` (`mut`: start and end timestamps) and the timestamp counter (`clock`).
  - `StartMutation` is `mutate` up to its await. It captures the committed list (`_c`, else the displayed list), shows the hook's `optimisticData`, stamps the start, and sends the request.
  - `Process` or `Refuse` is the backend: it executes the save, or answers an error status without changing anything. `Reject` is `apiRequest`'s catch (`apiMutation` is `apiRequest`). The fetch rejects before the request arrived, or after the backend executed it and the answer was lost. The direct attempt is retried once through the proxy when `Fallback` holds, so a create may run twice; otherwise the error reaches `mutate`. The history `lost` records the rows a lost answer left changed at the backend. `Settle` is `mutate` after the await: the latest mutation writes the hook callback's result or rolls back; an older one changes nothing.
  - `Revalidate`, `refresh`, `FetchServe` and `FetchDone` are the list fetch. An answer that started before the last mutation ended is dropped.
  - `page` (chosen in `Init` from the constant `Forms`) says which panel and add-edit form are mounted: users, teams, roles, or the permissions editor (`RolePermissionsForm`, whose selector picks the record to edit; `Target` is that selection, or the page's `?id=` on the other forms).
  - The forms' state is abstracted to where the fields came from (`blank`, `record`, `typed`), whether the password has six characters, `formError` and the selected permission. `userSync`, `teamSync`, `roleSync` and `permissionSync` are the `useEffect` on the active record. It runs when the record *object* changes: SWR keeps the old `data` only when a fetch returns a deeply equal list, so a fetch with any change renews every row object, while a mutation renews only the row it updates (`Resynced`).
  - A PATCH of an id the backend does not hold (the permissions selector lists optimistic placeholder rows) can only be refused.
  - Rows are ids with an abstract content value. A click's own id stands for its optimistic `Date.now()` row.
  - The SWR behaviour is the library's, not this repository's, and is not in the map.
- **Navigation**: the browser's requests through the middleware and the post-login push.
  - `loc` is the browser: a request in flight, a page, a 404, or another site (`away`). `cookie` is the Laravel session cookie. `mw` says whether Next.js loads the root `middleware.ts`; the app lives under `src/app`, where Next.js looks for `src/middleware.ts`, so `Init` leaves it open.
  - `Visit` is the user typing a URL (a login page may carry a `from`). `HandleRequest` applies `middleware` and either redirects (a new request) or serves the page, or a 404 when the app has no page for the path. `onSubmit` is a successful login: the backend may set the cookie, and `router.push(redirectTarget)` starts a request, or leaves the origin.
  - Sign-up flow: `FollowLink` is a click on a rendered `next/link` (a client-side navigation, which keeps pending promises); `Visit` is a full page load, which remounts the root layout's `I18nProvider` and drops them. `onRegister` and `RegisterAnswer` are the register page's submit and its answer; a successful answer pushes `/public/verify-email` from whatever page is shown. `loc.by` says whether the user or the app started a navigation.
  - The verify-email page (`vp`) mounts in `HandleRequest` with its first verify GET (`Mount`). `DictLoaded` is its dictionary import resolving: the locale's strings differ from `enBase`, so the verify effect is cleaned up (the run in flight is cancelled) and sends the GET again. `VerifyAnswer` applies only the answer of the latest run. `onResend` and `ResendSettled` are the resend form.
  - The provider: `PersistedLocaleEffect` is the `[locale]` effect, `changeLocale` the language toggle, `LocaleLoaded` a pending `loadLocaleDict(..).then`. `loadLocaleDict("en")` returns at once, so an `en` load is applied in the same step; other locales resolve later, in any order. Pending effects run before the next user event (React flushes passive effects before a discrete event), so user actions wait for `peff`.
  - The overlay (`ov`): `HandleRequest` commits a pathname and runs `OverlayEffect`, after the previous run's cleanup. `ImageSettled` is a loading image's load or error event. `OverlayReady` is `Promise.all` resolving and the timer being set. `OverlayTimer` hides the overlay. A run cleaned up while it awaited joins `stale`: `StaleReady` sets its timer and `StaleTimer` fires it, which returns because `alive` is false. `stale` holds the phases such runs are in, not their number. The images of a `Cached` page are complete when the run starts, with a `naturalWidth` or, when their load had failed, without one (`failed`, which `OverlayReady` never resolves). The images of the other pages are still loading.
  - Page dictionaries (`pd`): the login pages and the register page run their own `[locale]` effect with a `mounted` flag. Each run starts an import (`loads`); the next run's cleanup marks the earlier ones dead. `PageDictLoaded` is one import resolving, in any order; a dead one is ignored.
  - Sign-out (`so`): `handleSignOut` is the click on a private page. `SignOutSettled` is the `finally` block: a full load of `resolveLoginRedirect` of the current path.
  - A pathname is a sequence of words. A `from` is a string over `/ \ p d e o` and a space (`p` = `private`, `d` = `dashboard`, `e` = `en`, `o` any other word). `trim`, the scheme-relative test and the pathname split are the browser's URL parser and are not in the map.

Each `MC*.tla` module gives model values and small sets to the constants, and each `.cfg` names one run.

## Runs

| Run | Cfg | Expect | What it shows |
|---|---|---|---|
| routing | `MCRouting.cfg` | pass | See "Routing" below. |
| api_client | `MCApiClient.cfg` | pass | See "ApiClient" below. |
| credential_lifecycle | `MCApiClient_CredentialLifecycle.cfg` | violation | A stale 401 erases a freshly stored login token. |
| signout_revokes | `MCApiClient_SignOutRevokesToken.cfg` | violation | The backend executes sign-out's logout request, and the stored bearer token is still valid: the request carries no Authorization header. |
| diagnostics | `MCAuthDiagnostics.cfg` | pass | See "AuthDiagnostics" below. |
| diag_template | `MCAuthDiagnostics_Template.cfg` | violation | With the page's default register template and no verification email, verification targets the raw template, not the registered address. |
| admin_pages | `MCAdminResource_Pages.cfg` | pass | See "AdminResource" below. |
| admin_phantom_row | `MCAdminResource_PhantomRow.cfg` | violation | Two seeds before the list has loaded leave a placeholder row in the list until a later revalidation replaces it. |
| admin_concurrent_creates | `MCAdminResource_ConcurrentCreates.cfg` | violation | Two overlapping creates on a loaded list lose the first created row. |
| nav | `MCNavigation.cfg` | pass | See "Navigation" below. |
| nav_open_redirect | `MCNavigation_OpenRedirect.cfg` | violation | `/public/login?from=//p` sends the logged-in user to the host `p`. |
| nav_public_links | `MCNavigation_PublicLinks.cfg` | violation | The sign-up link and the register page's push go to `/public/register` and `/public/verify-email`, which are 404s. |

### Routing (MCRouting)

- **Bounds.** 9 client bases (none, the page root, `/api`, `/api/`, a backend origin at root and at `/api`, an opaque origin, a relative base, an unparseable base), 4 server bases (unset, blank, page `/api`, backend `/api`), browser or server, and every path of up to 3 characters over `/ a P`.
- **Why the bounds are enough.** These cover every rule, the leading and trailing slash cases, the empty path, and paths already in the proxy space.
- **Properties.**
  - `EndpointAgreement`: when the client and server bases agree, every attempt lands on the intended endpoint or is not sent at all.
  - `RulesAgree`: the resolver's result is the one the contract's rules (a)-(d) give, read declaratively.

### ApiClient (MCApiClient)

- **Bounds.** One component call, the login form, the sign-out item and two tokens. The page base is on its own origin, so a failed direct call is retried.
- **Why the bounds are enough.** This is the smallest configuration in which one call can read a token that a login replaces and the backend rejects. A second component call made the state space grow past any useful bound (several million states) without adding an interleaving the properties distinguish.
- **Properties.**
  - `UserNavShowsUserCall`: once the `user` call has finished and the sign-out has not, UserNav has stopped loading. It shows the null user after a failure, and after success the user given by `RefUser`. `RefUser` is a non-recursive reference for the unwrapping and the name fallbacks, written out case by case for payloads nested up to two levels.
    - `MCUserResources` has three payloads: a Laravel `{data: {name, email}}` resource; an empty name with a profile name and no email; and a name beside a truthy string `data`. The third one is unwrapped into a non-object, so it gives the null user.
    - Together they take every branch of `extractUser` and of `normalizeUser`'s name fallback.
  - `RejectedTokenNotReused` (an action property): no call started after a 401/419 for a token sends that token again.
  - `EveryCallEnds` (liveness): every call that has started ends.
  - `ImplementsCredentialStore` (refinement): `Contract!Spec` holds of the executor, the login form and sign-out. Every call attaches the credential stored when it starts, and the store changes only as the contract says.
  - `LoginExecutedAtMostOnce` is stated but checked by no run: the retry after a lost answer executes a login twice, which spec section 9 accepts (see `hazards`).

### AuthDiagnostics (MCAuthDiagnostics)

- **Base URLs.** A base is `none`, `valid` or `invalid`. `normalizeBaseUrl` throws on `invalid`, which stands for a non-absolute string such as `api`.
- **Bounds.** Every body the page can build and every request shape another client can send. Every base override, with the server env unset (so every route answer happens), two cookie names with two values each, responses with up to two Set-Cookie headers, and every backend answer at every stage.
- **Properties.**
  - `JarReflectsResponses`: the jar holds the latest value of every cookie any response set.
  - `TokenFollowsLogin`: the token stage succeeds exactly when login succeeded and captured a token.
  - `VerificationSkipReason`: verification is skipped exactly when no email source exists.
  - `LoginTokenAsLoginPage`: whenever the login page itself would store a token from the login answer, the diagnostics sequencer captured the same token. The converse fails (a token under `data.plainTextToken` or deeper is found only by the sequencer), which spec.md allows, so it is a hazard note, not a run.
- **Login bodies.** `MCLoginBodies` has four: an empty body, a top-level token, a nested `data.plainTextToken`, and an empty top-level token with a nested `data.token`. Together they take every branch of both extractors. More shapes tripled the run time without a new branch.

- **Violation (diag_template).** `VerificationTargetsRegistered` says: when the operator gives no verification email and register registered an address, verification is requested for that address. The page fills the empty field with the register email before the template is applied. The sequencer prefers that raw value to `registeredEmail`, so the notification is requested for the literal `{{timestamp}}` address.

The duration recorded for a skipped token stage and HEAD's message kept after a 2xx GET are display values. They are in the model, but no run checks them. The fallback without `getSetCookie` is in the model too, but the route runs on Node, which has `getSetCookie`.

### AdminResource (MCAdminResource)

- **Bounds.** Backend ids 1-5 with row 1 present at mount (enough for two clicks that each execute twice), two clicks, and up to three list fetches (`MaxFetches`) in admin_pages: the mount fetch, then revalidations and refreshes. The clicks are seeds or form submits. admin_pages mounts any of the four pages (`Forms`). The users form edits `?id=1` (`EditId`); the others create.
- **Why the bounds are enough.** Two clicks are the fewest that overlap. Two fetches let a refresh supersede the mount fetch and let a fetch straddle a save.
- **Configurations.** `Overlap = FALSE` lets a click start only when no save is in flight, as an admin who waits would do. `Preloaded` starts with the list in the cache, as after returning to a visited page. `Fallback = TRUE` is a page base for which `FallbackAllowed` holds, so a rejected save is retried through the proxy.
- **Properties.**
  - All three are checked by admin_pages, with one save at a time and the list loaded.
  - `SettledCacheIsConfirmed`: once all saves have settled, `_c` is clear and every row shown is a backend row.
  - `CacheMatchesServerWhenQuiet`: once all saves have settled, the cached list shows every backend row with the backend's content and no other row, whatever the fetches in flight do. The one exception is a row in `lost`. A save whose answer was lost is rolled back, or after the proxy retry only the retry's row is shown, and `revalidate: false` fetches nothing. This is listed as a hazard.
  - `TypeOK`: every row carries a schema-valid payload.
  - Overlapping clicks break both list properties, so they are checked only by the two violation runs below.
- **Violations.** The same two list properties fail in the cases the code does not protect:
  - a double seed before the list loads (admin_phantom_row);
  - two overlapping creates (admin_concurrent_creates).
  - A create before the list has loaded also fails `CacheMatchesServerWhenQuiet`: the list becomes the new row alone. This is recorded as a hazard.

### Navigation (MCNavigation)

- **Bounds.** Six pages (`/login`, `/public/login`, `/private/dashboard`, a public page, `/register`, `/verify-email`), four more typed paths (`/dashboard`, `/en/dashboard`, an asset, `/`), the middleware loaded or not, and logins that do or do not set the cookie. In the nav run: five `from` values (a private path, the same with leading spaces, a public path, `//o` and `/\o`), verify links absent, valid or invalid, with or without `email`, locales `en`, `es`, `ja`, any saved locale, and one selection in the language toggle. For the overlay, the private page and the verify page are `Cached`.
- **Why the bounds are enough.** The five `from` values take every branch of the helper's checks and of `OffOrigin`. nav_open_redirect types every `from` of up to 3 characters. Cached and loading pages give the three image cases: complete, complete but failed (`naturalWidth` 0), and still loading. A client navigation from a page whose run still awaits creates a stale run. The typed paths exercise every branch of `middleware`. One toggle selection and the saved-locale load are the two loads whose order matters; `ja` makes the saved locale differ from both `en` and the selection.
- **Properties** (the `/login` page, which uses `resolvePostLoginRedirect`):
  - `PostLoginSameOrigin`: the post-login push never leaves the origin.
  - `EveryNavigationSettles` (liveness): every request ends after the middleware's redirects, as a page or a 404.
  - `ShownStatusIsLatestAnswer`: the verify-email page shows the answer of its latest verify run, never that of a run a dictionary change cancelled.
  - `VerificationSettles` (liveness): a mounted verify-email page that says "verifying" comes to an outcome or is left.
  - `LocaleFollowsSaved` (liveness): the provider comes back to the saved locale, however its loads interleave, unless the user loads another page.
  - `OverlayHiddenOnlyWhenReady`: the overlay is hidden only by the timer of the current pathname's run. A stale run's timer never hides the next page's overlay early.
  - `PageDictFollowsLocale`: once a login or register page's dictionary imports have all resolved, or every pending one is dead, the page shows the provider's current locale. An earlier locale's import that resolves last never wins.
- **Violations.**
  - The `/public/login` page's inline check lets `//p` through (nav_open_redirect). After two slashes or backslashes the browser's URL parser skips any further ones and reads the host. An empty host, or one with a space, fails to parse: `router.push` throws, the `catch` shows an error and the page stays (`BadUrl`). So only a `from` with a host leaves the origin.
  - `AppNavigationReachesPage` (nav_public_links, middleware not loaded): TLC's trace is the login page's sign-up link to `/public/register`. The sign-out redirect to `/auth/login` fails the same way: no page serves it. With that link removed, the trace becomes the register page's push to `/public/verify-email` after a successful `auth/register`. Both pages are in the `(public)` route group, served at `/register` and `/verify-email`. `tests/registration-verification.spec.ts` expects the `/public/...` URLs.
- **What the model also shows.** With the middleware loaded, every app path gets an `/en` prefix and then has no page (there is no `[locale]` route), and the guard's prefixes (`/dashboard`, ...) never match the app's `/private/...` pages. Whether the root `middleware.ts` is loaded at all is a deployment fact, so these are listed as hazards. The verify re-run sends the signed GET twice. A toggle's choice is saved when its load resolves, so two selections can end on the earlier one.

Every property of a passing run has a mutant in `PROJECT.json`: a plausible bug in the mapped code that TLC shows the property catches. The findings of the violation runs are in `PROJECT.json` under `findings`.

## Fairness

`ApiClient` assumes weak fairness only for the network and the backend:

- an attempt in flight is eventually executed (`Process`);
- it eventually settles (`Deliver` or `Reject`);
- a body read completes.

The spec states that "no timeouts are imposed internally; callers/hosting environment are expected to bound call duration". No fairness is assumed for users or for token expiry. `Navigation` assumes weak fairness of the server and the browser: `HandleRequest` (a request in flight is answered); a page's dictionary import (`PageDictLoaded`); the register and resend answers and the verify GETs; the provider's and the page's imports (`LocaleLoaded`, `DictLoaded`); React running a due effect (`PersistedLocaleEffect`); and the current overlay run's next step (`OverlayStep`): a loading image fires load or error, `document.fonts.ready` resolves, and a timer fires. A stale run gets no fairness, and neither does the sign-out POST. It assumes none for the user, who may stop anywhere. No liveness is claimed for the overlay: a page whose image failed before the effect ran keeps the overlay up for good (see `hazards`). `Routing`, `AuthDiagnostics` and `AdminResource` check only safety. A save settles only when the backend answers, which nothing in the hook bounds. No liveness is claimed for a diagnostics run: `sendJsonRequest` awaits `fetch` with no timeout, so a silent backend keeps the page running for good.

Deadlock checking is off in the `Routing`, `ApiClient` and `AuthDiagnostics` runs. A call, a page or a diagnostics run really ends, and the final state has no successor. The `AdminResource` and `Navigation` runs check deadlock, because a form can always be edited and a URL can always be typed.

## Not modelled, and why

- URL and `Request` inputs to `resolveRequestInput`. No caller passes them.
- JSON versus text body parsing, message extraction and host lookup. These only shape display values.
- The proxy's header allow-list, body forwarding and Set-Cookie mirroring. The signin route. These are stateless forwarders.
- The `window.location` navigation after a 401 or a sign-out. It ends the page, but it is asynchronous and does not affect other tabs, which share the store.
- Presentation code: the home page, the showcase views, the shadcn examples, the admin `ModulesConfigurator` (its `lang/*.json` dictionaries are not in the repository), and the missing `secure/shell` and `admin-panel/content-layout` components. `LanguageToggle` is rendered only by components nothing imports; the model's `changeLocale` stands for any caller.
- The task dashboard under `src/frontend/app` (outside `web/`): one server fetch per request, no shared state.
- The UI outside the admin pages, the login, the sign-up flow and the page-load overlay. `LoaderGuard` is mounted only by `AppShell`, which nothing imports. The overlay is opaque but lets keyboard events through, so user actions are not blocked while it is shown. In the middleware, locales other than `en` and private prefixes other than `dashboard`, which take the same branches. The backend's verified flag, and a second register submit from a register page remounted while the first is pending (the model keeps the page busy). The `search` string the middleware copies into `from`.
- The hook's `destroy`, which no component calls. `sanitizeAdminPath`: every caller passes a fixed literal.
- `buildInitials` and UserNav's menu, and the I18nProvider's `getByPath`, `interpolate` and `deepMerge`: string helpers that only shape the displayed text. The model keeps which dictionary is loaded for which locale, not what it says.
- `AnnouncementBar` (a dismiss flag saved in `localStorage`) and `NotificationsBell` (an open flag): local UI state that no other part reads.
- The role form's second key, `admin/permissions`: it only names the permissions in the optimistic row.
- List fetch errors. SWR keeps the previous `data` and only sets `error`.

## What remains

The remaining code is mostly presentation or stateless forwarding. The parts that still have state are:

1. **Proxy forwarding.** The `proxyRequest` handler: the header allow-list, body dropping for GET/HEAD, the 500 and 502 paths, and Set-Cookie mirroring. The proxy is stateless. Its effect on the client is already in `Routing` (where a request lands) and in `ApiClient` (the retry).
2. **Verify backend.** Relate the verify-email page's shown status to the backend's verified flag across the re-sent GET.
