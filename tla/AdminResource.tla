--------------------------- MODULE AdminResource ---------------------------
(***************************************************************************)
(* The admin resource hook (src/hooks/use-admin-resource.ts) and the       *)
(* panels and add-edit forms that call it, over one resource key.          *)
(*                                                                         *)
(* The hook hands create/update to SWR's bound `mutate` with an            *)
(* optimisticData list, rollbackOnError and revalidate: false.  The cache  *)
(* behaviour is SWR 2's: a mutation captures the committed list (`_c` if   *)
(* an optimistic write is pending, else the displayed list), shows the     *)
(* optimistic list, calls the hook's callback with the committed list, and *)
(* when the request settles writes the callback's result or rolls back,    *)
(* unless a newer mutation started meanwhile, in which case the result is  *)
(* dropped.  A revalidation is discarded when it started before the last   *)
(* mutation ended or while one is unfinished.                              *)
(*                                                                         *)
(* A list is a function from item ids to an abstract content value.        *)
(* Server ids are numbers; the optimistic row of a click has the click     *)
(* itself as id (it stands for the `Date.now()` id, which no server row    *)
(* has).                                                                   *)
(***************************************************************************)
EXTENDS Naturals, FiniteSets, TLC

CONSTANTS
    ServerIds,     \* ids the backend can assign
    InitialIds,    \* rows the backend holds when the page mounts
    Clicks,        \* seed or submit clicks; each is handled at most once
    EditId,        \* per page, the `?id=` of its add-edit form (NoId: create)
    NoId,          \* no `?id=`: the create page
    Forms,         \* the add-edit pages that may be mounted: "user"
                   \* (AdminUserForm), "team" (AdminTeamForm), "role"
                   \* (AdminRoleForm), "permission" (RolePermissionsForm)
    Overlap,       \* FALSE: the admin waits for each save to settle
    Preloaded,     \* the SWR cache already holds the list at mount
    MaxFetches,    \* bound on revalidations
    Fallback,      \* FallbackAllowed holds for the page's base: a rejected
                   \* direct fetch is retried once through the proxy
    NoData         \* `undefined`

VARIABLES
    srv,     \* the backend's list
    data,    \* SWR cache `data` (NoData or a list)
    cc,      \* SWR cache `_c`: the committed list behind an optimistic one
    mut,     \* MUTATION[key]: [s |-> start ts, e |-> end ts, 0 = unfinished]
    clock,   \* SWR's getTimestamp() counter
    fetch,   \* the revalidation in flight
    fetches, \* revalidations started
    click,   \* per click: its mutation
    form,    \* the form's fields, password, formError and selected id
    page,    \* which panel and form are mounted
    lost     \* history: ids of rows a save changed at the backend whose
             \* answer never reached the hook

vars == <<srv, data, cc, mut, clock, fetch, fetches, click, form, page, lost>>

Vals == {"v0", "s", "x"}   \* a stored row, a seeded row, typed fields
ItemIds == ServerIds \cup Clicks
EmptyList == [i \in {} |-> "v0"]
IsList(l) == DOMAIN l \subseteq ItemIds /\ \A i \in DOMAIN l : l[i] \in Vals
NoMut == [s |-> 0, e |-> 0]   \* MUTATION[key] unset: never discards
MaxClock == MaxFetches + 2 * Cardinality(Clicks)

\* `data?.data ?? []`
Items(d) == IF d = NoData THEN EmptyList ELSE d

\* The id the form edits: the page's `?id=`, or the permission picked in
\* RolePermissionsForm's selector
Target(f) == IF page = "permission" THEN f.sel ELSE EditId[page]

ActiveOf(d, id) == IF id # NoId /\ id \in DOMAIN Items(d) THEN Items(d)[id] ELSE NoData

\* The add-edit form's `activeUser`/`activeTeam`: items.find(id === userId)
Active(d) == ActiveOf(d, Target(form))

-----------------------------------------------------------------------------
(* The hook's list arithmetic.                                             *)

createResultNoAppend(current, rid, v) == Items(current)

\* create's callback: [...(current?.data ?? []), response.data]
createResult(current, rid, v) == (rid :> v) @@ Items(current)

\* create's optimisticData: [...(data?.data ?? []), options.optimistic]
createOptimistic(d, k, v) == (k :> v) @@ Items(d)

updateResultAll(current, id, v) == [i \in DOMAIN Items(current) |-> v]

\* update's callback and optimisticData: map the item with that id
updateResult(current, id, v) ==
    [i \in DOMAIN Items(current) |-> IF i = id THEN v ELSE Items(current)[i]]

\* The option the hook passes to every mutate
RollbackOnErrorOff == FALSE
RollbackOnError == TRUE

-----------------------------------------------------------------------------
(* The forms' field synchronisation: the useEffect on the active record,   *)
(* which runs when the record object changes.  A list written by a fetch   *)
(* with new content is all new objects (SWR keeps the old `data` only when *)
(* it is deeply equal); a mutation keeps every row object but the one it   *)
(* updates.  `renewed` says the active record, if any, is a new object.    *)

Resynced(old, new, renewed) ==
    Active(old) # Active(new) \/ (renewed /\ Active(new) # NoData)

Reloaded(f, new) ==
    [f EXCEPT !.fields = IF ActiveOf(new, Target(f)) = NoData THEN "blank" ELSE "record"]

\* AdminUserForm: blank fields without a record, else the record's; the
\* password is always cleared.
userSync(f, old, new, renewed) ==
    IF Resynced(old, new, renewed) THEN [Reloaded(f, new) EXCEPT !.pwd = FALSE] ELSE f

\* AdminTeamForm: the same without a password
teamSync(f, old, new, renewed) ==
    IF Resynced(old, new, renewed) THEN Reloaded(f, new) ELSE f

\* AdminRoleForm: the same, the selected permissions being fields
roleSync(f, old, new, renewed) == teamSync(f, old, new, renewed)

\* RolePermissionsForm: the same, on the selected permission
permissionSync(f, old, new, renewed) == teamSync(f, old, new, renewed)

Sync(f, old, new, renewed) ==
    CASE page = "user" -> userSync(f, old, new, renewed)
      [] page = "team" -> teamSync(f, old, new, renewed)
      [] page = "role" -> roleSync(f, old, new, renewed)
      [] OTHER         -> permissionSync(f, old, new, renewed)

-----------------------------------------------------------------------------
Idle == [ph |-> "idle", from |-> "panel", op |-> "create", ts |-> 0,
         base |-> NoData, val |-> "v0", rid |-> 0, id |-> NoId, try |-> 1]

Quiet == \A k \in Clicks : click[k].ph \in {"idle", "done"}

\* A click may start while another save is in flight only under Overlap
CanStart(k) == click[k].ph = "idle" /\ (Overlap \/ Quiet)

InitialList == [i \in InitialIds |-> "v0"]

Init ==
    /\ srv = InitialList
    /\ data = IF Preloaded THEN InitialList ELSE NoData
    /\ cc = NoData
    /\ mut = NoMut
    /\ clock = 1
    /\ fetch = [st |-> "sent", at |-> 1, snap |-> EmptyList]   \* mount fetch
    /\ fetches = 1
    /\ click = [k \in Clicks |-> Idle]
    /\ page \in Forms
    /\ lost = {}
    /\ form = [fields |-> IF ActiveOf(data, IF page = "permission" THEN NoId ELSE EditId[page]) = NoData
                          THEN "blank" ELSE "record",
               pwd |-> FALSE, err |-> "none", sel |-> NoId]

\* SWR mutate up to the await: capture the committed list, show the
\* optimistic one, stamp MUTATION[key], call the hook's callback (which
\* sends the request).
StartMutation(k, from, op, v) ==
    LET committed == IF cc # NoData THEN cc ELSE data
        opt == IF op = "create" THEN createOptimistic(data, k, v)
               ELSE updateResult(data, Target(form), v)
    IN /\ clock < MaxClock
       /\ click' = [click EXCEPT ![k] = [ph |-> "sent", from |-> from, op |-> op,
                       ts |-> clock + 1, base |-> committed, val |-> v, rid |-> 0,
                       id |-> Target(form), try |-> 1]]
       /\ clock' = clock + 1
       /\ mut' = [s |-> clock + 1, e |-> 0]
       /\ data' = opt
       /\ cc' = committed
       /\ form' = Sync(form, data, opt, op = "update")
       /\ UNCHANGED <<srv, fetch, fetches, page, lost>>

\* AdminUsersPanel.handleSeedUser: create a seeded row with an optimistic row
handleSeedUser(k) ==
    /\ page = "user" /\ CanStart(k)
    /\ StartMutation(k, "panel", "create", "s")

\* AdminTeamsPanel.handleSeedTeam: the same for a seeded team
handleSeedTeam(k) ==
    /\ page = "team" /\ CanStart(k)
    /\ StartMutation(k, "panel", "create", "s")

\* The backend executes the POST (a fresh id) or the PATCH of the record's
\* id; a PATCH of an id it does not hold (a placeholder row's) is refused.
\* A retried create executes again and gets a second id.
Process(k) ==
    /\ click[k].ph = "sent"
    /\ click[k].op = "update" => click[k].id \in DOMAIN srv
    /\ click[k].op = "create" => ServerIds \ DOMAIN srv # {}
    /\ IF click[k].op = "create"
       THEN LET rid == CHOOSE i \in ServerIds \ DOMAIN srv : TRUE
            IN /\ srv' = (rid :> click[k].val) @@ srv
               /\ click' = [click EXCEPT ![k].ph = "ok", ![k].rid = rid]
       ELSE /\ srv' = [srv EXCEPT ![click[k].id] = click[k].val]
            /\ click' = [click EXCEPT ![k].ph = "ok"]
    /\ UNCHANGED <<data, cc, mut, clock, fetch, fetches, form, page, lost>>

\* The backend answers with an error status (a validation error): the
\* body check of apiRequest throws and nothing changed at the backend.
Refuse(k) ==
    /\ click[k].ph = "sent"
    /\ click' = [click EXCEPT ![k].ph = "err"]
    /\ UNCHANGED <<srv, data, cc, mut, clock, fetch, fetches, form, page, lost>>

\* The row a save changed at the backend
Saved(c) == IF c.op = "create" THEN c.rid ELSE c.id

(***************************************************************************)
(* apiMutation is apiRequest (api-client.ts 245-248), whose catch, lines   *)
(* 190-201, handles a rejected fetch: before the request reached the      *)
(* backend, or after the backend executed it and the answer was lost.  The *)
(* direct attempt is retried once through the proxy with the same body     *)
(* when FallbackAllowed; otherwise the error propagates into mutate.       *)
(***************************************************************************)
Reject(k) ==
    /\ click[k].ph \in {"sent", "ok"}
    /\ click' = [click EXCEPT ![k] = IF @.try = 1 /\ Fallback
                                     THEN [@ EXCEPT !.ph = "sent", !.try = 2]
                                     ELSE [@ EXCEPT !.ph = "err"]]
    /\ lost' = IF click[k].ph = "ok" THEN lost \cup {Saved(click[k])} ELSE lost
    /\ UNCHANGED <<srv, data, cc, mut, clock, fetch, fetches, form, page>>

\* What the handler that clicked does once `await create/update` returns
\* or throws.  Only the forms do anything.
AfterSave(f, c) ==
    CASE c.from = "panel" -> f
      [] c.ph = "err"     -> [f EXCEPT !.err = "request"]
      [] c.op = "create"  -> [f EXCEPT !.fields = "blank", !.pwd = FALSE, !.err = "none"]
      [] OTHER            -> [f EXCEPT !.err = "none"]

\* SWR mutate after the await.  The latest mutation writes the callback's
\* result, or rolls back to the committed list on error, then stamps the
\* end of MUTATION[key] and clears `_c`.  An older one changes nothing.
Settle(k) ==
    LET c == click[k]
        latest == mut.s = c.ts
        result == IF c.op = "create" THEN createResult(c.base, c.rid, c.val)
                  ELSE updateResult(c.base, c.id, c.val)
        new == CASE ~latest      -> data
                 [] c.ph = "ok"  -> result
                 [] RollbackOnError -> c.base
                 [] OTHER        -> data
    IN /\ c.ph \in {"ok", "err"}
       /\ data' = new
       /\ cc' = IF latest THEN NoData ELSE cc
       /\ mut' = IF latest THEN [mut EXCEPT !.e = clock + 1] ELSE mut
       /\ clock' = IF latest THEN clock + 1 ELSE clock
       /\ click' = [click EXCEPT ![k].ph = "done"]
       /\ form' = AfterSave(Sync(form, data, new, latest /\ c.op = "update"), c)
       /\ UNCHANGED <<srv, fetch, fetches, page, lost>>

-----------------------------------------------------------------------------
(* Revalidation: useSWR's fetch of the list.                               *)

StartFetch ==
    /\ fetches < MaxFetches /\ clock < MaxClock
    /\ fetch' = [st |-> "sent", at |-> clock + 1, snap |-> EmptyList]
    /\ clock' = clock + 1
    /\ fetches' = fetches + 1
    /\ UNCHANGED <<srv, data, cc, mut, click, form, page, lost>>

\* useSWR revalidates on focus or reconnect, deduplicated against a fetch
\* already in flight.
Revalidate == fetch.st = "idle" /\ StartFetch

\* refresh: globalMutate(resourcePath) drops the fetch in flight and starts
\* a new one; the dropped one's answer is discarded.
refresh == StartFetch

FetchServe ==
    /\ fetch.st = "sent"
    /\ fetch' = [fetch EXCEPT !.st = "served", !.snap = srv]
    /\ UNCHANGED <<srv, data, cc, mut, clock, fetches, click, form, page, lost>>

\* The answer is dropped when it started before the last mutation's start
\* or end, or while that mutation is unfinished.
FetchDone ==
    LET stale == mut # NoMut /\ (fetch.at <= mut.s \/ fetch.at <= mut.e \/ mut.e = 0)
        new == IF stale THEN data ELSE fetch.snap
    IN /\ fetch.st = "served"
       /\ data' = new
       /\ fetch' = [fetch EXCEPT !.st = "idle"]
       /\ form' = Sync(form, data, new, new # data)
       /\ UNCHANGED <<srv, cc, mut, clock, fetches, click, page, lost>>

-----------------------------------------------------------------------------
(* AdminUserForm.  `isEditing` is Boolean(userId && activeUser): the form  *)
(* edits only while the record is in the cached list.  Typed fields are    *)
(* taken to pass the schema; the password is at least six characters or    *)
(* not.                                                                    *)

UnchangedSave == UNCHANGED <<srv, data, cc, mut, clock, fetch, fetches, click, page, lost>>

\* The payload: the typed fields, the record the fields were loaded from,
\* or blank fields (a blank name, which the schemas reject)
FormVal == CASE form.fields = "typed"  -> "x"
             [] form.fields = "record" -> Active(data)
             [] OTHER                  -> ""

\* The inputs' onChange handlers (name, email, password, phone, bio)
userType(longPwd) ==
    /\ page = "user"
    /\ form' = [form EXCEPT !.fields = "typed", !.pwd = longPwd]
    /\ UnchangedSave

toggleRole ==
    /\ page = "user"
    /\ form' = [form EXCEPT !.fields = "typed"]
    /\ UnchangedSave

\* A non-numeric or zero team id only sets formError
handleAddTeam(numericId) ==
    /\ page = "user"
    /\ form' = IF numericId THEN [form EXCEPT !.fields = "typed", !.err = "none"]
               ELSE [form EXCEPT !.err = "teamId"]
    /\ UnchangedSave

handleRemoveTeam ==
    /\ page = "user"
    /\ form' = [form EXCEPT !.fields = "typed"]
    /\ UnchangedSave

\* The Reset button reloads the fields from activeUser
userReset ==
    /\ page = "user"
    /\ form' = [Reloaded(form, data) EXCEPT !.pwd = FALSE, !.err = "none"]
    /\ UnchangedSave

\* handleSubmit up to its await: the password floor when not editing, then
\* update(userId) when editing and create otherwise.
handleSubmit(k) ==
    LET isEditing == Active(data) # NoData
    IN /\ page = "user" /\ CanStart(k)
       /\ IF ~isEditing /\ ~form.pwd
          THEN /\ form' = [form EXCEPT !.err = "password"]
               /\ UnchangedSave
          ELSE StartMutation(k, "form", IF isEditing THEN "update" ELSE "create",
                             FormVal)

-----------------------------------------------------------------------------
(* AdminTeamForm: the same shape without a password; a blank name fails    *)
(* adminTeamSchema.                                                        *)

teamType ==
    /\ page = "team"
    /\ form' = [form EXCEPT !.fields = "typed"]
    /\ UnchangedSave

handleAddMember(numericId) ==
    /\ page = "team"
    /\ form' = IF numericId THEN [form EXCEPT !.fields = "typed", !.err = "none"]
               ELSE [form EXCEPT !.err = "memberId"]
    /\ UnchangedSave

handleRemoveMember ==
    /\ page = "team"
    /\ form' = [form EXCEPT !.fields = "typed"]
    /\ UnchangedSave

teamReset ==
    /\ page = "team"
    /\ form' = [Reloaded(form, data) EXCEPT !.err = "none"]
    /\ UnchangedSave

teamHandleSubmitNoSchema(k) ==
    LET isEditing == Active(data) # NoData
    IN /\ page = "team" /\ CanStart(k)
       /\ StartMutation(k, "form", IF isEditing THEN "update" ELSE "create", FormVal)

\* A handleSubmit up to its await: the schema's parse (a blank name fails
\* it), then update of the active record when editing, create otherwise.
SchemaSubmit(k) ==
    LET isEditing == Active(data) # NoData
    IN IF form.fields = "blank"
       THEN /\ form' = [form EXCEPT !.err = "schema"]
            /\ UnchangedSave
       ELSE StartMutation(k, "form", IF isEditing THEN "update" ELSE "create", FormVal)

\* AdminTeamForm.handleSubmit: adminTeamSchema, update(teamId) or create
teamHandleSubmit(k) == page = "team" /\ CanStart(k) /\ SchemaSubmit(k)

-----------------------------------------------------------------------------
(* The roles page: AdminRolesPanel on admin/roles, AdminRoleForm, and the  *)
(* RolePermissionsForm on admin/permissions.  Both are modelled on the one *)
(* key the module has: the role form's permission options are another     *)
(* key, which only shapes the optimistic row's permission names.           *)

\* AdminRolesPanel.handleSeedRole: create a seeded role, optimistically
handleSeedRole(k) ==
    /\ page = "role" /\ CanStart(k)
    /\ StartMutation(k, "panel", "create", "s")

\* The name, display name and description inputs
roleType ==
    /\ page = "role"
    /\ form' = [form EXCEPT !.fields = "typed"]
    /\ UnchangedSave

\* A permission checkbox
togglePermission ==
    /\ page = "role"
    /\ form' = [form EXCEPT !.fields = "typed"]
    /\ UnchangedSave

\* The Reset button reloads the fields from activeRole
roleReset ==
    /\ page = "role"
    /\ form' = [Reloaded(form, data) EXCEPT !.err = "none"]
    /\ UnchangedSave

\* AdminRoleForm.handleSubmit: adminRoleSchema, update(roleId) or create
roleHandleSubmit(k) == page = "role" /\ CanStart(k) /\ SchemaSubmit(k)

permissionType ==
    /\ page = "permission"
    /\ form' = [form EXCEPT !.fields = "typed"]
    /\ UnchangedSave

\* The selector's onChange: an existing permission or "Create new"; the
\* effect on activePermission then reloads the fields.
selectPermission(i) ==
    /\ page = "permission"
    /\ i = NoId \/ i \in DOMAIN Items(data)
    /\ form' = IF ActiveOf(data, i) = NoData /\ Active(data) = NoData THEN [form EXCEPT !.sel = i]
               ELSE Reloaded([form EXCEPT !.sel = i], data)
    /\ UnchangedSave

\* The Reset button: no selection and blank fields
permissionReset ==
    /\ page = "permission"
    /\ form' = [form EXCEPT !.sel = NoId, !.fields = "blank", !.err = "none"]
    /\ UnchangedSave

\* RolePermissionsForm.handleSubmit: adminPermissionSchema, then update of
\* the selected permission when it is in the list, create otherwise
permissionHandleSubmit(k) == page = "permission" /\ CanStart(k) /\ SchemaSubmit(k)

-----------------------------------------------------------------------------
Next ==
    \/ \E k \in Clicks :
          \/ handleSeedUser(k) \/ handleSeedTeam(k) \/ handleSeedRole(k)
          \/ handleSubmit(k) \/ teamHandleSubmit(k) \/ roleHandleSubmit(k)
          \/ permissionHandleSubmit(k)
          \/ Process(k) \/ Refuse(k) \/ Reject(k) \/ Settle(k)
    \/ Revalidate \/ refresh \/ FetchServe \/ FetchDone
    \/ \E b \in BOOLEAN : userType(b) \/ handleAddTeam(b) \/ handleAddMember(b)
    \/ toggleRole \/ handleRemoveTeam \/ userReset
    \/ teamType \/ handleRemoveMember \/ teamReset
    \/ roleType \/ togglePermission \/ roleReset
    \/ permissionType \/ permissionReset
    \/ \E i \in ServerIds \cup Clicks \cup {NoId} : selectPermission(i)

Spec == Init /\ [][Next]_vars

-----------------------------------------------------------------------------
ListOrNone(d) == d = NoData \/ IsList(d)

\* Every row of the backend, the cache and the committed list carries a
\* payload that passed the form schema.
TypeOK ==
    /\ IsList(srv) /\ DOMAIN srv \subseteq ServerIds
    /\ ListOrNone(data) /\ ListOrNone(cc)
    /\ clock \in 1..MaxClock /\ fetches \in 1..MaxFetches
    /\ fetch.st \in {"idle", "sent", "served"} /\ IsList(fetch.snap)
    /\ \A k \in Clicks :
          /\ click[k].ph \in {"idle", "sent", "ok", "err", "done"}
          /\ click[k].op \in {"create", "update"}
          /\ ListOrNone(click[k].base) /\ click[k].try \in {1, 2}
    /\ lost \subseteq ServerIds
    /\ form.fields \in {"blank", "record", "typed"} /\ form.pwd \in BOOLEAN
    /\ page \in Forms

\* Once every save has settled, no optimistic state is left in the cache:
\* `_c` is cleared and every row shown is a row the backend holds (no
\* placeholder row of a seed or submit, no row of a rolled-back create).
\* About create/update's optimisticData and rollbackOnError under SWR's
\* handling of overlapping mutations.
SettledCacheIsConfirmed ==
    Quiet => /\ cc = NoData
             /\ data # NoData => DOMAIN data \subseteq DOMAIN srv

(***************************************************************************)
(* "Fetch the admin list using SWR so the UI stays in sync with mutations" *)
(* (hook line 34): once every save has settled, a loaded list shows every  *)
(* backend row with the backend's content and no other row, except a row   *)
(* whose save the backend executed while its answer was lost: the hook    *)
(* rolls that save back (or, after the proxy retry, shows only the         *)
(* retry's row) and revalidate: false fetches nothing.  About the          *)
(* callback's list arithmetic, rollbackOnError and SWR's handling of a     *)
(* superseded mutation.                                                    *)
(***************************************************************************)
CacheMatchesServerWhenQuiet ==
    Quiet /\ data # NoData =>
        \A i \in (DOMAIN srv \cup DOMAIN data) \ lost :
            i \in DOMAIN srv /\ i \in DOMAIN data /\ data[i] = srv[i]
=============================================================================
