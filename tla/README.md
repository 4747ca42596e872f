# OmniStore in TLA+

OmniStore is a multi-user warehouse and inventory application: a NestJS backend
(`src/backend`), a React frontend (`src/frontend`), DTOs and enums they share
(`src/shared`), Postgres with row-level security, Redis and Stripe. The modules in
this directory model the parts of it in which the order of steps matters. On the
server: sessions, roles, subscriptions, invites and registration, warehouses, the
inventory, and the pooled connections all requests share. In the browser: the API
client in tabs that share their cookies, the state of the subscription around a
checkout, the table of items, and the pages of the organization and of the active
warehouse. TLC checks them on small instances; TLAPS proves every safety property of
the passing runs for every size of instance, and of the promises that the code breaks
it proves what exactly has to happen for that.

`PROJECT.json` maps every definition that models code to the lines it stands for,
and lists the components, the runs, a mutant of the code for every property, the
hazards and the theorems.

## The system

| Part | State | Operations | Talks to |
|---|---|---|---|
| Sessions (`auth/`, `login/`, `logout/`, migration `1795000000000`) | `refresh_tokens`; `auth:revoked:<user>` in Redis; access tokens nobody stores | login, refresh (rotation, reuse detection), logout, revocation, AuthGuard | every controller through AuthGuard; removals of users |
| Roles in the organization (`userOrganizationRole/`, `roles/organizationRoles/`, migration `1783439070000`) | `user_org_role` | change a role, remove a member, leave | Sessions (revocation), Warehouses (cascade) |
| Organizations (`organization/`) | `organization` | register, rename, delete, list | Invites, Subscriptions, everything that cascades |
| Invites and registration (`invite/`, `register/`, migrations `1786210196000`, `1792000000000`) | `invite`, `"user"` | invite, resend, revoke, accept, register | Mail, Roles, Warehouses |
| Subscriptions (`payment/`, migrations `1791…`, `1794…`) | two columns of `organization`; sessions and subscriptions at Stripe | checkout, confirm, webhook, portal | Stripe; SubscriptionGuard in front of every write |
| Warehouses (`warehouse/`, `userWarehouseRole/`, `roles/warehouseRoles/`, migration `1783439080000`) | `warehouse`, `user_warehouse_role` | create, add a user, change a role | policies read both role tables |
| Inventory (`inventory/`, migration `1782066151000`) | `inventory` | list, create, update, delete | Warehouses (cascade) |
| Requests (`rls/`, `utils/guardDB.service.ts`) | a transaction and a pooled connection per request | begin, set the session variables of the policies, commit, roll back | every service |
| API client (`frontend/src/api`, `AuthProvider`, `NavBar`) | cookies shared by tabs; per tab one promise to refresh, `isAuthenticated` | refresh once for all refused calls, repeat each once, log in and out | Sessions |
| Subscription state (`SubscriptionProvider`, `checkoutPending`, success page) | context, `sessionStorage` | ask for the plan, poll after a checkout, give up, start again | Subscriptions |
| Inventory table (`features/inventory`) | controls, rows, loads in flight | load, abort, show, reload after a write | Inventory |
| Pages (`features/organization`, `features/warehouse`) | rows, headings, `orgRole`, `activeWarehouse`, `activeRole`, `userWarehouses` in `localStorage` | load, offer what the remembered role permits, write, switch | Roles, Invites, Warehouses |
| Mail, contact form, health check, rate limiter, configuration, deployment | none of their own, or kept by a library | | |

How they interact. A request passes AuthGuard (signature, Redis, and Postgres when
Redis does not answer), then role and subscription guards, which read outside any
transaction, and then `RlsInterceptor`, which opens a READ COMMITTED transaction,
gives the policies the identity of the caller, runs the handler and commits. Some
handlers reach outside the transaction while it is open: they write to Redis, call
Stripe, or read on a second connection through `GuardDBService`. Stripe calls back
through a webhook that has no user.

What is hard here, then, is what lies between two awaited calls: the guard's
answer is old when the handler runs; a check (`count`, `findOne`) is a statement
of its own and locks nothing; TypeORM's `save` reads the row again and decides
between INSERT and UPDATE; a cascade meets an insertion that refers to the row;
Redis and Stripe are told before the commit, which may fail; Stripe's events come
late, twice and in any order; answers reach the browser in any order, or not at
all; what a page knows was true when its request was answered; a handler that waits
for a second connection holds its first.

What makes each part correct, in short: a revoked or removed user gets no further
(Sessions); a role changes only by someone who may change it *now*, and an
organization keeps an owner (Roles); an invite makes one account and nothing
survives the organization (Invites, Organizations); who has paid has the plan and
who has the plan has paid (Subscriptions); roles in a warehouse belong to members
of its organization and only administrators promote (Warehouses); nothing outlives
its warehouse, a deletion reported has happened and a table shows what was last
written (Inventory); every request gets its connections (Requests); a refused call is
answered or fails, honest tabs keep their session and who has logged out stays out
(API client); the polling ends, and what is shown of a plan is about whoever is
signed in (Subscription state); a page acts on the warehouse it names, decides by the
role of whoever is signed in and lists what the server has (Pages).

## Modules

Every module has one action per awaited call or SQL statement. A *request* is a
member of a set of handlers that may be in flight; its program counter is `pc`
(`job[h].step` in Subscription) and what it carries between statements is `req`
(`job`). `Rollback`, `Abandon` and `Fail` stand for an exception, a crash of the
process or a lost connection at any point. Row locks are variables; a statement
that must wait for one is not enabled. Names are those of the source where TLA+
allows it.

| Module | Models | Proofs |
|---|---|---|
| `Session` | refresh tokens, rotation with its 30 seconds of grace, reuse detection, revocation through Redis with its fallback, login, logout, the transaction that removes a user; time in seconds | `SessionAndPoolProofs` |
| `Membership` | `user_org_role`: role changes, removals, leaving, policies, `assertNotLastOwner` | `MembershipProofs` |
| `Subscription` | the two columns of the organization, checkout sessions, the subscriptions and events of Stripe, confirmation, webhook, rename, deletion | `SubscriptionProofs` |
| `Registration` | invites, accounts, memberships and the deletion of the organization | `RegistrationProofs` |
| `Warehouse` | `user_warehouse_role` with its policies beside a changing organization | `WarehouseProofs` |
| `Inventory` | the items of a warehouse, and the tables that browsers show of them | `InventoryProofs` |
| `ConnectionPool` | the connections to Postgres that guards, transactions and calls of `GuardDBService` take | `SessionAndPoolProofs` |
| `TokenLife` | the abstract specification of a refresh token; `Session` implements it | in `SessionAndPoolProofs` |
| `Client` | one browser: tabs, cookies, renewals, repeated calls, login and logout | `BrowserProofs` |
| `Checkout` | what a tab shows of the subscription: the effect with its polling, the pages around a checkout | `BrowserProofs` |
| `OrganizationPage` | the members, invites, settings and billing pages, and `orgRole` | `OrganizationPageProofs` |
| `WarehousePage` | the page of the active warehouse, `localStorage`, and the warehouse the access cookie names | `BrowserProofs` |
| `Browser` | `Client`, `Checkout` and `WarehousePage` side by side | `BrowserProofs` |
| `OrganizationRoles` | the roles and who may manage whom (`ORG_INVITATION_PERMISSIONS`), for `Membership` and `OrganizationPage` | |

`MC<Module>` adds the symmetry sets TLC uses; the `.cfg` files give the constants
their values. `MCAnswers`, `MCBrowser` and `MCOrganization` check several parts next
to each other: the parts share no state, a variable `part` chooses one of them in the
initial state, and the variables of the others keep their initial values. Nothing is
said there about parts together; it only saves runs.

How the modules meet. `Warehouse` repeats in one step what `Membership` and
`Registration` do in several. `Client` has each handler of `Session` as one step;
its server only ever issues, renews and ends tokens as `TokenLife` allows, and
`Session` is shown to do no more. `Checkout` stands above `Subscription`,
`OrganizationPage` above `Membership` and `Registration`, `WarehousePage` above
`Warehouse`, `Inventory` contains both its sides.

### Session

`rows` is `refresh_tokens` with a history field `parent`; `revokedAt` is the Redis
entry, of which `Revocation` shows what `GET` answers after its expiry; `access` is
every access token signed, because a JWT stays valid wherever it is. `Rotate` and
`DetectReuse` are the two outcomes of `rotate_refresh_token`; `RevokeRowsBegin` and
`RevokeRowsEnd` are the snapshot and the effect of one DELETE, between which other
transactions commit; `getUserSession` and `Mint` are the two awaits between which
a removal may commit. `RemovalDelete`, `RemovalRevoke` and `RemovalCommit` follow
`OrganizationController.removeUser`: the deletion, the write to Redis while the
transaction is open, and the commit. A removed user is never added again, since
accounts are deleted. `cut` is a history variable, the time of the last revocation
Redis acknowledged.

### Membership

`Find`, `Membership`, `Count`, `Save`, `UpdateRow`/`DeleteRow` and `Commit` are the
statements of `UserOrganizationRoleService` and of `UsersService.deleteUser`;
`UpdatePolicy` is the row-level security policy with `can_manage_org_role`.
`req[r].orgRole` is the role the guard found; `actorNow` is the role the policy saw
when the UPDATE began.

### Subscription

`pending` and `delivered` are sets of events: an event may be handled again at any
time, also after it was acknowledged, which covers reordering and duplication.
`setAck` is an activation by the webhook, which acknowledges when it is through;
`set` one on behalf of a customer who has come back. Statuses other than active and
ended are folded into these two: the code treats `trialing` as active and ignores
the rest.

### Registration

An invite is named by the token it was first sent with, so that resending changes
its `token` and not its identity. `consume_invite` locks the invite (`FOR UPDATE`);
`KeyShare` is the lock that a foreign key takes on the organization. The last write
of a transaction is merged with its commit, which no other transaction can tell
apart because the locks are held until then.

### Warehouse

`can_manage_warehouse_role`, `Permits`, `Visible` and `is_warehouse_org_member` are
the policies; `Insert`/`InsertRow` and `Update`/`UpdateRow` separate the snapshot a
statement takes from its write, which may wait for a lock in between. What
Membership and Registration model in detail (`SetOrgRole`, `RemoveMember`,
`AcceptInvite`, `DeleteOrganization`) is here one step each, guarded by the locks
they wait for.

### Inventory

An item is its identifier. `Reload` decides, as `save` does, between an INSERT, an
UPDATE and nothing, because the item has been deleted, differs or is the same;
`Insert` takes the lock of the foreign key (`Holds`), `Delete` counts the rows it
removed (`Affected`). A table (`Inventory.tsx`) is a record of what its controls ask
for, the loads in flight, the rows it shows and whether an error message was shown;
`told` remembers the last commit it was told of. `Reloading` is the effect with its
cleanup, which aborts the load before. `NotTold` also stands for an answer that is
lost.

### ConnectionPool

`busy` is who holds a connection and what for; `queue` is the queue of `pg`, first
come, first served. A request takes a connection for each query of its guards and
gives it back, takes one for its transaction and keeps it (`RlsInterceptor`), and
takes one more for each call of `GuardDBService` that does not pass the manager of
the transaction. How many of each is chosen when it arrives, up to `MaxGuards` and
`MaxCalls`.

### TokenLife and Client

`TokenLife` says of a token: drawn once, live until renewed, renewable for a grace
period, then good for nothing; gone at any time, and for ever. `Session` defines
`Stage` and `Parent` over its own variables (a token is old when its grace period has
run out and gone when its row is) and instantiates `TokenLife` with them.

`jar` is the refresh cookie. `refreshing[t]` is the promise of `refreshSession` in a
tab, with the token it was sent with and what has been answered; `call[t][c]` says
whether a refused call waits for it or has been repeated. `Refreshed` and `LoggedOut`
are the server's handlers, `RefreshArrives` and `LogoutArrives` the browser storing
the cookies of the answer, `RefreshLost` and `LogoutLost` the loss of a request or an
answer. A token that nothing holds any more is forgotten and its name used again,
which keeps the model finite without a bound on renewals. `ended` and `raced` are
history variables: the sessions a tab was told it has logged out of, and those of
which a renewal was under way at that moment.

### Checkout

`loads` holds the request or the timer of the current effect of
`SubscriptionProvider` and the requests of effects that were cleaned up, which cannot
be taken back and whose answers are ignored. `poll` counts attempts, of which a
pending session allows `PollAttempts` and an error `ErrorAttempts`. `view` is the state of
the context with whom it is about, `pending` is `sessionStorage`, `last` the ref that
keeps the session after the polling has given up, `url` the address of the success
page.

### OrganizationPage

The page open, what it lists and the requests under way; `stored` is `localStorage`,
with `orgRole` and whose it is. An action opens a page, is an answer to a read, sends
a write that the page offers under the role it remembers, is what the server makes of
it under the role of that moment, or is the handling of its answer. Others change
roles, remove members and change invites at the same time. `missed` is a history
variable: what may have changed since the tab last heard of it.

### WarehousePage

`cookie` is the active warehouse in the access token, `heading` the one the page
names, `stored` the three entries of `localStorage`. They meet only in the answers to
a switch, a creation and a renewal: `RenewalAnswered` brings back the warehouse of
the cookie that the renewal was sent with. `astray` is a history variable: the last
switch was answered in a way that left the cookie on another warehouse.

## Runs

| Run | Module | Shows |
|---|---|---|
| `session` | MCSession | revocation holds as long as there are tokens it covers; a committed removal leaves no token to rotate and no refresh that could start; every successor is drawn within the grace period; sessions implement `TokenLife` |
| `session_in_flight` | MCSession | *violation*: a refresh in flight signs a token newer than the revocation |
| `membership` | MCOrganization | every role change is allowed by the roles of the moment (part "requests"); the pages decide by the role of whoever is signed in and list what the server has, apart from what others have changed since (parts "pages" and "alone") |
| `membership_owners` | MCMembership | *violation*: two owners who go at once leave none |
| `subscription` | MCSubscription | every plan was paid for; only a subscription that has ended loses it |
| `subscription_live` | MCSubscription | who has paid gets the plan; a committed deletion has cancelled |
| `subscription_ended` | MCSubscription | *violation*: a subscription that ends during its activation leaves its plan behind |
| `registration` | MCRegistration | an invite makes one account; nothing of the organization outlives it |
| `registration_orphans` | MCRegistration | *violation*: an invite accepted during the deletion leaves an account behind |
| `warehouse` | MCWarehouse | roles only for members; only administrators promote or demote administrators and managers |
| `answers` | MCAnswers | whoever asks is answered: requests get their connections, unless as many handlers as the pool is large wait for a second one; refreshes end although removals hold rows and Redis may never come back; refused calls are answered or fail; the polling of the subscription ends |
| `browser` | MCBrowser | tables catch up, nothing outlives its warehouse, of two deletions one fails; honest tabs keep their session and who has logged out stays out; a plan of somebody else disappears and the success page asks with its session; the server acts on the warehouse of the heading, the rows are its members, and a role is remembered only where it was given |

Deadlock is not checked: a system in which every request has been answered and no
new one begins has stopped legitimately, and the bounds below stop it too.

### Bounds

* Two requests in flight on the server. Each hazard listed is a race of two
  requests, or of a request with an action of the environment that is not counted
  (a removal, a webhook, the deletion of an organization, Stripe). The theorems
  cover more.
* Session: one user (tokens of different users never meet), three tokens, so
  that a successor has a successor; lifetimes of 2 and 3 seconds, a grace of 2 and a
  clock that ends at 4, so that entries in Redis, access tokens, refresh tokens and
  grace periods all run out within a behaviour. In `answers` two tokens and a clock
  that ends at 2.
* Membership: three users, so that there can be two owners and one who is not, or
  one who administers both others.
* Subscription: two checkout sessions and two plans, with plan switches, without
  renames and deletions; `subscription_live` has one session with renames and
  deletions. Events are sets, so their number needs no bound of its own.
* Registration: one address, two user names, two accounts and four tokens, so that
  an invite can be resent while another one to the same address is accepted.
* Warehouse: one warehouse (policies never look at a second), three accounts.
* Inventory: one table, two queries, two items (`MaxItems`), and no write begins
  after three commits (`MaxCommits`). One table is enough to meet every order of
  its own loads with the writes of others, which are requests whose answer it is
  not told in time.
* ConnectionPool: two connections and three requests, so that all connections can
  wait for another one while somebody queues behind them; one query of the guards
  and one call (`MaxGuards`, `MaxCalls`), since a second one finds the same pool.
* Client: two tabs and four names of tokens for one login (`MaxLogins`), so that both
  tabs renew the same token, and one presents a token whose successor the other has
  received; the number of renewals has no bound. In `answers` one tab with three calls
  (two of a page and `/auth/status`), because tabs do not wait for each other.
* Checkout: two users, so that one signs in after the other; one session; 3 and 2
  attempts in place of 15 and 3; one cancelled request under way (`MaxLate`), and none
  in `answers`, where cancelled requests play no part.
* OrganizationPage: two members and one invite; one write of the tab with one change
  by others, or two writes and nobody else (`MaxWrites`, `MaxChanges`). The
  combination of two writes and one change, 2.5 million states, has been checked
  once and is not part of the runs.
* WarehousePage: two warehouses, two roles, one call beside the load (`MaxCalls`) and
  one change by others (`MaxChanges`).

The pages are checked for a user who waits for an answer before the next write or
switch (`Patient`). For one who does not the properties fail; see *Observed*.

Symmetry is used for sets of model values that the modules treat alike, and never
in a run with a liveness property.

### Fairness

Liveness is checked under these assumptions, part by part.

* `ConnectionPool`: the pool hands out a free connection (`WF` of `Grant`) and a
  request that holds one goes on (`WF` of its work): queries end, and `pg` looks at
  its queue whenever a connection is given back.
* `Session`: the awaited calls of a refresh return (`SF` of its steps) and a
  removal, once begun, commits or rolls back (`WF`). Strong fairness is needed for
  the one step that waits for a row lock, which other transactions may take again and
  again; the lock queue of Postgres serves it in turn. `commandTimeout` of the Redis
  client is what makes the step that writes the revocation return while Redis is
  away; the mutant without it violates the property.
* `Client`: a request to renew ends, with an answer or an error (`WF` of
  `RefreshEnds`), and so does a repeated call (`WF` of `RepeatAnswered`). Browsers
  end every request. Nothing is assumed of users, of other calls, or of the outcome.
* `Checkout`: requests end and timers fire (`WF` of `Going`).
* `Subscription!FairSpec`: handlers end, successfully or not; the deletion proceeds
  when it holds its lock; and Stripe delivers an unacknowledged event again until a
  delivery succeeds, which its retries promise (`SF` of the arrival of a pending
  `completed` event and of its final write). No fairness is assumed of customers,
  administrators, portal or renames: nobody has to return from checkout.

## Findings

Each is a run in which TLC finds a behaviour of the code that contradicts a
statement in the repository.

1. `session_in_flight`. `README.md:37` says that the access tokens of a removed
   member "stop working immediately". `refresh` reads the session and signs in two
   steps, and the removal writes to Redis before it commits, so a refresh between
   the two holds a token newer than the revocation, valid until it expires.
   `NoSessionAfterRemoval` is what does hold: only a refresh already past its
   read can do this. There is one more way, and by `RemovedUsersAreOut` no third: when
   Redis is away as the revocation is written, the failure is only logged ("not
   fatal", `revocation.service.ts:43`), the removal commits, and the tokens are good
   again once Redis is back.
2. `membership_owners`. "An organization must have at least one owner"
   (`userOrganizationRole.service.ts:68`). The count locks nothing; two owners who
   demote each other, or leave, both count two. There is one more way, and by
   `OwnersRemain` no third, which locking the count would not close:
   `assertNotLastOwner` looks for the membership under the policies of the moment, and an actor who was demoted
   to member after `findMembership` no longer sees it, so that the check returns
   early; the DELETE that follows is under no policy. This takes an owner who is
   demoted to administrator, with a request of the time before, and then to member.
3. `subscription_ended`. "The subscription may have ended since"
   (`subscription.service.ts:85`) is checked one call before the write; if it ends
   between the two and the event of its end is handled first, the plan stays.
   Without renames there is no other way (`EndedPlansAreLost`).
4. `registration_orphans`. The accounts of the members "are deleted too"
   (`organization.service.ts:79`), except that of one who joined after the members
   were read; there is no other way (`DeletionLeavesNoAccounts`).

Observed while modelling, with no statement in the repository to hold against
them and no run:

* `PATCH /organizations` while a subscription is being activated: the rename has
  read the row without a plan, the activation commits, `save` loads the row again,
  finds that the plan differs and writes the old value back. With `Renames = TRUE`,
  `OnlyEndedLoseAccess` fails after eight steps and `PlanWasPaid` after twelve. `PaidIsActivated`,
  which is run with renames, says that the plan is reached, not that it stays.
* Two invites to one address sent at the same time both survive, and accepted at
  the same time give the address two accounts; user names are not unique either.
* An invite revoked while it is being resent is inserted again; an item deleted
  while it is being updated is inserted again.
* Reuse detection deletes the rows its statement saw; a rotation that commits
  meanwhile leaves a session alive.
* Two administrators who start a checkout at once may pay for two subscriptions.
* A password change (`users.service.ts:76`) saves the account it has read; an account
  removed meanwhile is inserted again, without a role. Nobody can sign in with it, and
  its address and user name stay taken.
* Pool: refresh, logout, `GET /organizations/subscription`, the creation of a checkout
  session and the webhook ask `GuardDBService` for a second connection while they hold
  their transaction's; login and registration pass the manager on. As many of the
  former at once as the pool has connections (10 by default) wait for each other, and
  with them every later request. `StarvedOnlyByNesting` and `RequestsEnd` say that
  this is the only way to starve.
* Client: a logout during a renewal leaves the browser signed in, because the answer to
  the renewal sets the cookies again; this is what `raced` stands for. A renewal that
  fails does not sign the user interface out. The entry of `/auth/refresh` in
  `NO_REFRESH_PATHS` changes nothing.
* Logout leaves `orgId` and `orgRole` in `localStorage`, and registering signs in and
  stores nothing: the new owner works under no role, or under that of whoever was
  signed in before, until the next login.
* Checkout: a plan of the former user is shown after a login until the first answer;
  the pending and the last session survive a logout; a session marked while a load
  without one is in flight is cleared when that load ends.
* Warehouse page: a switch answered 201 with an error body makes the heading name a
  warehouse the cookie does not. A renewal that crosses a switch puts the cookie back,
  and a switch in another tab is not noticed; the page then shows one warehouse and
  writes to another. With `Patient = FALSE` the same happens without any of these.
* Organization pages, with `Patient = FALSE`: a list read before a role change arrives
  after it and stays; leaving the invites page during a write leaves an old list; two
  changes of one's own role answered out of order leave the wrong `orgRole`.
* Organization pages, always: a list of invites that fails to load is shown as "no
  pending invites"; the menu is not drawn again after one's own demotion, so a demoted
  member can open the settings and is offered a rename that the server refuses; the
  answer to one's own removal logs out whoever is signed in by then.
* The invites page of a warehouse offers what the role in the warehouse permits, while
  the backend also asks for an owner or administrator of the organization
  (`warehouse.controller.ts:137-145`); the inventory page lets only administrators
  edit, while the backend also lets managers.

## Proofs

Each module of proofs begins with type correctness and has one lemma per action or
group of actions. Components whose definitions share no names are proved in one
module: Session and ConnectionPool in `SessionAndPoolProofs`, the client, the checkout
and the page of the warehouse in `BrowserProofs`.

All theorems hold for every value of the constants under the named assumptions of the
modules, which only say that numbers are natural, that a set of users is finite where
it is counted, and that `None` is not a value it stands beside. What some theorems
need beyond that is a hypothesis of the theorem:

* `Apart`: nobody is called `Null` (Checkout, OrganizationPage) or `New`;
* `OneIsAdmin`, `MaxChanges \in Nat`: among the roles of a warehouse is the one its
  creator gets, and changes by others are counted;
* `Patient`: the user waits for an answer before the next write or switch. Without it
  the properties fail, see *Observed*;
* `~Renames`: the organization is not renamed. Otherwise the properties fail, see
  *Observed*.

| Module | Theorem | Inductive invariant |
|---|---|---|
| SessionAndPoolProofs | `TypeCorrect` | `Typed`: a request at work knows its user |
| | `RevocationEnforced` | `Recorded`: `cut = revokedAt`; the rest is arithmetic, since an entry lives exactly as long as a token |
| | `RemovalEndsRefreshing` | `RemovalInv`: an open removal has found every row of its user, because its locks keep all other writers out |
| | `RotationBounded` | `RotationInv`: hashes are issued once, and each row is born within the grace period of its parent |
| | `RemovalStopsSessions` | action property, from `Typed` |
| | `RemovedUsersAreOut`, if no removal meets an outage and no refresh signs a token after the revocation | `SignedBefore` (no token is from the future), `Covered` (from the revocation on it covers every token of its user) |
| | `SessionsKeepTokenLife` | refinement: initial states and every step of `Session` map to one of `TokenLife` or a stutter, from `Typed` and `RotationInv` |
| MembershipProofs | `TypeCorrect` | `Typed` |
| | `RoleChangesSafe`, and `OwnersSafe` (only owners make owners), which it implies | `AllAuthorized`: a request about to commit holds the row, so what the policy saw is still there |
| | `OwnersRemain`, if no owner goes, and no actor loses sight of the target, while a request decides; `SerialOwner` follows | `SafeInv`: before its first look a request sees its target; past the count there is another owner |
| SubscriptionProofs | `TypeCorrect`, `DeletionCancelled` | `Inv`: events and jobs speak of sessions as Stripe knows them; who is about to commit a deletion has cancelled |
| | `PlansArePaid`, `AccessIsKept` | `NoStale`, for an organization that is not renamed: no handler holds old columns |
| | `EndedPlansAreLost`, if the end of a subscription is not handled during its activation | `ActivatedForetold`: a subscription being activated has not ended, or the news is still to come |
| RegistrationProofs | `TypeCorrect` | `Typed` |
| | `InvitesAreSpentOnce` | `Held` (who accepts holds the invite), `Fresh` (past the check of the address no account has come of it) |
| | `DeletionIsComplete` | `OrgExcluded` (a deletion and a new reference exclude each other), `Swept` (before its commit a deletion holds every invite) |
| | `DeletionLeavesNoAccounts`, if no account is committed between the read of the members and the deletion | `Belonging` (every account of the organization has a role in it), `Found` (a deletion has found every one of them) |
| WarehouseProofs | `TypeCorrect` | `Typed` |
| | `RolesStayWithin`, `PromotionsAreByAdmins` | `Inv`: for every request `Sound`, what the policy permitted, the lock it holds, and that its target is still a member |
| InventoryProofs | `TypeCorrect` | `Typed` |
| | `TablesCatchUp` | `Fresh`: every load asks for what the controls say and is no older than the last write the table was told of, which has committed |
| | `NothingIsOrphaned`, `DeletionsDelete` | `Held`: an inserted item holds its warehouse; a deleted one is locked, and there, until the commit |
| SessionAndPoolProofs, the pool | `PoolTypeCorrect` | `PoolInv`: a request holds the connection of its present use, or that of its transaction while it asks `GuardDBService` (`Held`); who queues waits, and is in the queue once |
| | `OnlyNestingStarves` | `PoolInv`: a connection whose holder waits is that of a transaction, one for each holder, so that starving takes as many nesting handlers as connections |
| BrowserProofs, the client | `ClientTypeCorrect` | the types, and that a call waits only for a request that is under way |
| | `HonestTabs` | `HonestInv`: a token that an answer brings is new (`NewOnes`), and the token in the cookies is spent only while its successor is on its way or after that was lost (`JarSafe`) |
| | `LogoutIsKept` | `StayInv`: whatever the cookies and the requests to renew hold belongs to no session that was ended unraced, and sessions are numbered as they begin |
| BrowserProofs, the checkout | `CheckoutTypeCorrect` | `COTyped`: the types, one request or timer belongs to whoever is signed in, and a timer does not outlive its effect |
| | `ViewIsOfUser` | `Asking`: the provider has something to say about whoever is signed in, or its request or timer is there |
| | `PurchaseIsConfirmed` | `Remembered`: on the success page the ref holds the session of the address, and nothing else could be asked for |
| BrowserProofs, the warehouse page | `PageTypeCorrect` | `PageTyped`: the types, and one load at most |
| | `ServerFollowsHeading`, `RowsFollowHeading`, `RolesAreRemembered` | `Headed`: heading and `localStorage` agree, one call of the user is under way at most, and the cookie follows them once that call has ended, unless it went astray (`Followed`) |
| | `BrowserTypesCorrect` | from the three theorems on types |
| OrganizationPageProofs | `PagesTypeCorrect` | `Typed`: the types, and one read at most |
| | `OwnRoleStaysCurrent`, `PagesStayCurrent` | `Quiet` (one change of roles at a time, and no list read beside it), `Known`: what the tab knows, or is about to be told, is what the server has, unless it is in `missed` (`OwnRoleKnown`, `MembersRead`, `RowsKnown`, `InvitesKnown`) |

The strengthenings are needed because the properties speak of one moment and the
code decides at another: between the two only a lock, or the fact that the statement
looks again, connects what was checked to what is written, and the invariant says
which of them does.

Four theorems are about the promises that fail. Each says that the promise holds
unless one named step falls between two others; the step is a hypothesis
`[][...]_vars` of the theorem, and where it has two parts TLC refutes the promise
under either of them alone. So they do not say that the code is right, but how far it
is from it: whoever repairs it has to exclude these steps and no others.

Only model-checked: the liveness properties (`RequestsEnd`, `RefreshAnswered`,
`CallsAnswered`, `LoadingEnds`, `PaidIsActivated`) and, with them, everything about
ENABLED, which the provers do not reach.

## Not modelled

* Hashing, mail templates, the contact form, the health check, configuration and
  deployment: no state that steps could interleave on. A failing mail is one
  more reason for a `Rollback`.
* The rate limiter: its counters are a library's.
* What a query selects, its order and its pages: the inventory, the lists of users and
  warehouses. `generatePagination` only formats links.
* The change of a password, which rewrites one row; what it does to a removed account
  is described under *Observed*.
* The account settings, the invites page of a warehouse, and the forms that follow a
  link (accepting an invite, registering): one request each, and nothing they keep.
* Pages opened by typing their address, which no role guards in the browser; the
  server decides about what they send, as `OrganizationPage` has it.
* Several tabs with different pages: `Client` has the tabs, the pages are modelled in
  one tab each.

## Plan

What is left, in the order of what it would add:

1. An abstract specification of role changes (a role changes only by someone who may
   change it at that moment) that `Membership` and `Warehouse` both implement, as
   `Session` implements `TokenLife`.
2. Renames and password changes beside removals in `Registration`: both save a row
   they have read, and may insert it again.
3. `TokenLife` as the server of `Client` by a refinement of its own, for which the
   names that `Client` uses again have to be told apart.
4. The order and the pages of `getInventory` (sorting by amount has no unique last
   key) as pure operators, checked against a reference definition.
