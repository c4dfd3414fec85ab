# A TLA+ model of selfu

selfu is a self-hosted platform in Go: an HTTP API over PostgreSQL, a worker,
and a sidecar (`chasquid-agent`) beside the mail server, with authentik as the
identity provider and DNS as the proof of domain ownership. Almost every
handler is a *sequence* of single SQL statements and remote calls, without a
transaction around them. What is hard about the code is therefore what happens
between two of those steps: other requests, the worker and the poller, failing
remote calls, a process that dies. That is what these modules model: a request
is a process, `pc[r]` names the statement or call it makes next, and every
action is one statement or call with its guard, its effect and its error paths.

## The system's parts

| Part | State it keeps | Operations | Interacts with |
|---|---|---|---|
| Accounts, organizations, roles, groups (`httpapi/identity_handlers.go`, `onboard_handlers.go`, `handlers.go`, `store/users*.go`, `org.go`, `group.go`) | users, their status, identity and admin flag; organizations; memberships; group members; links to authentik | create/delete organization, add member, add group member, create user, onboard, disable, enable, set admin, OIDC login | authentik (accounts, active flag), invitations, mail |
| Invitations (`invite_handlers.go`, `store/invites.go`) | pending, consumed, superseded links with a deadline | createInvite, acceptInvite | accounts, authentik passwords |
| Mail domains, mailboxes, aliases (`mail_handlers.go`, `provision/mail.go`, `store/mail.go`) | mail domain and its DKIM flag, identities, credentials, policies, aliases | enable, disable, create identity, rotate credential, create alias | chasquid through the agent |
| chasquid-agent (`cmd/chasquid-agent`) | chasquid's domains, user database, policy files, alias file | ensure domain, restart, DKIM, add user, change password, policy, set alias | called by API and worker, without a lock |
| Mail reconciler, worker (`recon/mail.go`, `cmd/worker`) | the list of the running pass | ReconcileDomain per tick, or on request | mail, agent |
| Domains and hostnames (`domain_handlers.go`, `store/domains.go`) | domain rows with status and token, hostnames | create, verify, add hostname, delete | DNS, setup |
| Setup wizard and poller (`setup_handlers.go`, `verify_poll.go`, `store/setup.go`) | the installation row: provider, primary domain, onboarded | setup, verify, poll | domains, organizations, DNS provider |
| Bootstrap login limiter (`setup_handlers.go`) | failures and window per client | look at the installation, allow, recordFail, reset | setupLogin |
| Applications (`apps_handlers.go`, `authentik/client.go`, `store/apps.go`) | instances, their hostnames, links to providers and applications | createApplication, EnsureAppOIDC, EnsureForwardAuth | authentik, domains, mail |
| External resource sync (`recon/external.go`, `cmd/worker`) | the list of the running pass | SyncExternal per tick | links, authentik |
| Sessions and OIDC client (`auth/session.go`, `auth/oidc.go`, `handlers.go`, `authn.go`) | none on the server: a signed session cookie and a state cookie in each browser | oidcLogin, oidcCallback, logout, requireAuth/authn, bootstrap login | authentik (sign-in, codes), limiter, accounts |
| DNS and access providers (`dns/dns.go`, `access/*.go`, `cmd/api`) | the provider the process loaded at startup, records in its zone | SetTXT, loadAccessProvider | setup, domains |
| Catalog and compose rendering, console, audit, bootstrap commands | - | - | not modelled, see the end |

The behaviours that are hard, and the properties that make each part correct:

- **Accounts**: the role that authorizes a grant, the user and the organization
  are read before other requests change them. No interleaving may grant
  ownership without being entitled to, leave a membership of a deleted
  organization, link a user to an account that is not there, or take a login for
  the bootstrap login.
- **Invitations**: several links, redemptions and re-invitations overlap around
  a conditional UPDATE. A link is settled once, a superseded one never works,
  every membership goes back to somebody entitled to grant it.
- **Mail**: database and chasquid are changed in turns, through an agent whose
  answers get lost; chasquid has no password change, and the alias file is
  rewritten whole. Deleting the domain or its organization deletes the rows, not
  what chasquid has, and the name may be registered again while requests that read
  the old rows are still at work. A shown secret works, the lifecycle only moves
  forward, mail stays inside its organization, and the worker repairs what was lost.
- **Domains and setup**: the wizard, its button, the poller and the ordinary
  routes verify and complete concurrently, from rows they read before. A domain
  is verified by its own token only, and onboarding is final and proved.
- **Limiter**: check and count are two critical sections, and the installation,
  looked up once before the body is read, may be onboarded before the session is
  issued. Failures and late bootstrap sessions stay bounded.
- **Sessions**: the tabs of a browser share two cookies, callbacks can be reloaded
  or opened elsewhere, and answers arrive in any order. A browser gets the session of
  whoever signed in for a login it started, and of nobody else.
- **Applications**: providers and applications in authentik are looked up and
  created in separate calls, by names that are not unique. What is recorded
  belongs together, and the sync condemns nothing that is there.

## Modules

| Module | Models | Extends |
|---|---|---|
| `Accounts` | accounts, organizations, roles and groups | |
| `InviteLinks` | what a link promises, without requests, clock and tables | |
| `Invites` | invitations composed with all of `Accounts`; implements `InviteLinks` | `Accounts` |
| `Mailboxes` | mail domain, identities, credentials, policies | |
| `Aliases` | aliases and the alias file | `Mailboxes` |
| `Mail` | reconciler and worker composed with both | `Aliases` |
| `Domains` | domains, verification, hostnames | |
| `Setup` | wizard, poller, installation and restarts of the API composed with `Domains` | `Domains` |
| `LoginLimiter` | the limiter | |
| `Logins` | cookies, OIDC round trip and bootstrap login composed with the limiter | `LoginLimiter` |
| `Apps` | installs, their authentik clients, the external sync | |
| `InvitesProofs`, `LinksProofs` | theorems about invitations and the refinement | `Invites` |
| `AccountsProofs` | theorems about accounts, alone and with invitations beside them | `InvitesProofs` |
| `MailProofs` | theorems about mail domain, mailboxes and aliases | `Mail` |
| `LimiterProofs`, `LoginsProofs` | theorems about throttle and sessions | `LoginLimiter`, `Logins` |
| `SetupProofs`, `AppsProofs` | theorems | `Setup`, `Apps` |
| `MC*` | instances for TLC | the module they are named after |

How to read them against the code:

- **Processes.** `Reqs`, `Procs`, `Installs` are requests (and the worker or the
  poller); the constant `Op` says which handler each one runs. Actor, organization,
  user, role, address, domain, manifest are chosen freely when a request is
  admitted (`Start...`), where the handler's checks are the guard. A request that
  is refused before its first effect is simply not admitted.
- **Names.** A row that a request inserts is named after the request: an invite,
  a domains row with its token, a secret, an authentik provider. Random ids,
  tokens and secrets are never equal by chance.
- **Statements.** An action named after a store method (`ConsumeInvite`,
  `SetMembership`, `SetDomainStatus`) is its SQL, with the UNIQUE, CHECK, foreign
  key and ON DELETE rules of the migrations as guards or cascades. A statement
  whose error the code ignores has a second outcome when `Faults` has `"store"`
  (`"db"` in `Apps`).
- **Registrations.** `mail_domains`, `mail_identities`, `mail_aliases` and what hangs
  on them go with their domain or organization (`00004_mail.sql:8,23-25,55-56`).
  `DeleteMailRows` and `DeleteDomain` of `Mailboxes` and `Aliases` are that cascade;
  chasquid's users, directory and alias lines stay. `reg` counts the registrations of
  the name, `regOf[p]` is the one whose ids process `p` has read: once they differ
  (`~Current(p)`), its UPDATEs and lists find no row and its INSERTs fail on the foreign
  key, although the address may be a mailbox again. A name registered anew has no
  mail row yet, which tells it from a name nobody has in nothing, so the registration
  itself is no step here; `Domains` has it. In `Domains` and `Setup` rows are named
  after the request that inserted them, which does the same.
- **Addresses.** `Addrs` are those of the domain, `Sisters` of other domains of
  which the model says nothing (mailboxes of the organization, or nobody's any more),
  `Foreign` mailboxes of organizations that never have the domain.
- **Remote calls.** authentik, the agent and DNS fail when `Faults` says so; an
  agent call that failed may have arrived, only its answer being lost.
  `"abort"` ends a request after any of its steps (a failing statement, a
  cancelled context or a dead process). `"lost"` removes a chasquid user or an
  authentik provider behind the platform's back.
- **READ COMMITTED.** `grantAdminIfNone` is one statement, but its `NOT EXISTS`
  reads a snapshot that lacks a concurrent write, so it is two actions
  (`BootstrapCheck`, `GrantAdmin`).
- **os.WriteFile** in the agent is a truncation and a write, which other writers
  get between; a shorter write leaves the tail of a longer content.
- **Browsers.** The platform keeps nothing of a login: `session[b]` and `state[b]` are
  the two cookies of browser `b`, and a handler is one step that reads the cookies
  its request carries and puts an answer on its way (`Send`). Answers are delivered in
  any order. A flow stands for the state, the nonce and the code of one OIDC login.
- **Providers.** `loaded` is the access provider the running API process was started
  with: the Cloudflare zone of the environment, or what the wizard had stored. It is
  read again at a `Restart`, not when the wizard stores another. Cloudflare
  credentials are good for one zone, so only the record of that domain is published.
- **Histories.** `won`, `burnt`, `older` in `Invites` and `why` in `Accounts`
  are ghosts that properties speak of; nothing reads them.
- **External parts**, modelled from how the code uses them: authentik's outage
  (`IdpToggle`), a lost chasquid user (`UserLost`), a record published by hand
  (`PublishTXT`), a deleted provider (`ProviderLost`), the browser (`Deliver`,
  `StateCookieExpires`), authentik's sign-in page (`SignIn`), the clock (`Tick`).

Definitions whose comment starts with "Mutant" are deliberately wrong versions
of the definition after them. Nothing uses them; they document which slip in the
code each property would catch.

## Runs

`tlc -config <run>.cfg <module>`; all runs check for deadlock.

| Run | Checks | Shows |
|---|---|---|
| `AccountsLifecycle` | `AccountsTypeOK`, `LinkedAccountsExist` | createUser, disable, enable, createOrganization and addGroupMember in any interleaving, with authentik and the store failing |
| `AccountsAdmins` | `LoginsFindAnAdmin`, `MembersOfLiveOrgs` | promotion, one demotion, a first login, a direct grant, an onboarding and the deletion of the organization, any of which dies half way: an admin remains, no login is taken for the bootstrap login, the deleted organization keeps no member |
| `InvitesRedeem` | `InvitesTypeOK`, `SettledOnce`, `ReinviteSupersedes`, `LinksImplemented` | two links, two redemptions, expiry, deletion of the organization; the abstract links of `InviteLinks` are implemented |
| `InvitesGrants` | `MembershipBacked`, `NoEscalation` | invite, redemption, onboarding and direct grant by an organization admin and by whoever got in, with crashes and authentik outages |
| `MailMailboxes` | `TypeOK`, `SecretShownWorks`, `ActiveDomainInstalled`, `LifecycleForward` | enable, disable, two creations, a rotation, a reconciliation and the deletion of the domain, with store and agent failures |
| `MailAliases` | `RoutesStayInside`, `AliasesHeal`, `MissingIsFlagged` | a plain and a group alias, a change of the group, the deletion of the domain and the worker, with aborted requests and lost users: no row or line leads to an outsider's mailbox, rows lead to mailboxes that exist |
| `SetupDomains` | `TypeOK`, `VerifiedByOwnToken`, `HostnamesVerified`, `OnboardedByProof` | createDomain, verifyDomain, addHostname, deleteDomain, a wizard and its verify button, with a zone for one of two domains, DNS failures, aborted requests and a restart |
| `SetupWizard` | `OnboardedIsFinal`, `OnboardingCompletes` | two wizards with the manual or the Cloudflare provider, deletion of an organization, the poller and a restart |
| `LimiterBound` | `LoginTypeOK`, `FailsBounded`, `SessionVouched`, `LateBootstrapsBounded` | two browsers behind one address, two OIDC logins of two users in any tab, two overlapping bootstrap attempts with a limit of one, answers in any order, logout, expiry, onboarding that overtakes attempts |
| `AppsClients` | `TypeOK`, `LinksMatch`, `ClientsHoldTheirHostname`, `FailedOnlyIfGone` | two installs of one name, each OIDC or forward-auth, the sync, deletions, authentik failures, lookups that miss what lies beyond their page, ignored store errors, lost providers, crashes |
| `AccountsLastAdmin` | `LastAdminRemains` | **violated**: two admins demote each other and none is left |
| `SetupPrimary` | `OnboardedPrimaryVerified` | **violated**: the installation is onboarded with a primary domain nobody verified |

### Bounds

Each request runs once, so the number of requests bounds a run; loops (worker,
poller, sync) are not bounded. Named bounds: `MaxNow` and `TTL` (invitations,
one deadline is reached), `MaxNow`, `Window`, `SessionTTL` and `LoginMaxFails`
(logins: a limit of one failure, a window that ends and starts again, a session that
expires), `MaxAnswers` (two answers under way can overtake each other; one more
would only be delivered later), `MaxRestarts` (one restart between any two steps).

- The races in this code are between two requests over one row, with a third
  actor (deletion, worker, poller) in between. Every run has two requests that
  meet on one row and one or more third parties; four to seven requests in all.
- One address is where creations, rotation, pass and deletion meet; before and after
  the deletion it is two mailboxes. `Sisters` is empty in the runs, only the
  theorems speak of other domains. Two domains and
  two wizards to replace a primary domain, two alias names to lose a line while
  writing another, one organization because no statement relates two (another
  organization's mailbox is `Foreign`), two hostnames so that both installs
  succeed or collide.
- Failures are on where the properties hold under them. `AliasesHeal` and
  `OnboardingCompletes` say nothing under a store or DNS that fails for ever, so
  their runs have aborted requests, but no failing calls of worker and poller.
- `AccountsLifecycle` and `AccountsAdmins` identify states that differ in dead
  locals only (`VIEW LiveState`: those of an ended request, the actor after
  admission, the role after the membership is written). No action and none of
  the properties of these runs reads them, so nothing reachable is lost.
- In `SetupDomains` the environment names the zone of one domain (`EnvZone`): its
  record is written by the platform, the other one by the operator or never, which
  is where `OnboardedByProof` is at stake. The poller is in `SetupWizard` instead, where
  no provider is in the environment: after a restart the stored one is loaded.
- The largest runs: `AppsClients` (3.0 million states), `LimiterBound` (2.2), `MailMailboxes`
  (0.9); each ends within two and a half minutes with two workers. Manifests of
  mode native and none create no client and are not in the catalog of the run; the
  theorems are about every catalog.
- `MailMailboxes`, `InvitesRedeem`, `AppsClients` and `LimiterBound` use symmetry: of
  the two creations, of the two links and the two redemptions, of installs and
  hostnames, of browsers, attempts, users and flows. Each permuted set is given the
  same role (all its members run the same handler), and specification and
  properties only compare its members. These runs check no liveness; the action
  properties and the refinement among them are safety properties.

### Fairness

`FairSpec` of `Mail` is weak fairness of the worker alone: a request may stop between
any two steps. `FairSpec` of `Setup` is weak fairness of each process once it has
been admitted, and always of the poller. An admitted request is a
goroutine of Go's HTTP server, which runs; the worker loops on a ticker and logs
the error of a cycle without leaving the loop (`cmd/worker/main.go:87`); the poller
is a ticker that ends only when the installation is onboarded
(`verify_poll.go:116`). Whether a request is ever made, a record published or a
fault happens is left to the environment: nothing is assumed fair about it. A
restart takes the poller with it and starts it again (`cmd/api/main.go:130`), and
`MaxRestarts` is finite: a process that is killed for ever before its first tick
promises nothing.

## Theorems

Checked by TLAPS, for all sets of users, organizations, requests, browsers, domains
and installs, any assignment of handlers to requests, any faults, restarts and clock
bounds, from the named assumptions of the modules (constants have their types, `None`
is none of them, the attempts handled at a time are finitely many). TLC evaluates
the assumptions in the runs.

- `InvitesProofs!TypeCorrect`: `Spec => []InvitesTypeOK`. Types alone are not
  inductive: a statement uses the organization, user or invite its request
  picked up earlier. `InvitesInv` adds `LocOK`: at every label a request holds
  the values its next statements need, and labels belong to their handlers. One
  lemma per action, and `Moved(r)`: a step of `r` changes `pc` and `loc` of `r`
  alone, and never of a request that has ended.
- `InvitesProofs!InvitesSettleOnce`: `Spec => []SettledOnce`. The property is not
  inductive either: a new row could take the name of a settled one. `SettledInv` adds
  that invites that are issued, burnt or redeemed belong to requests that are
  done, and that whoever won holds the invite it won. `ConsumeInvite` is the
  conditional UPDATE: it wins only a pending invite, and none becomes pending again.
- `LinksProofs!LinksAreImplemented`: `Spec => LinksImplemented`, a refinement. A row is
  *live* while `ConsumeInvite` could still succeed for it (pending and not expired),
  *taken* when a request won it, *dead* when its createInvite has answered and
  neither holds. `LinksInv` adds to `SettledInv` that rows are named after createInvite
  requests and that those are answered by `CreateInvite` alone; then `CreateInvite`
  maps to `Issue`, `ConsumeInvite` to `Take`,
  the expiry of older links, the clock and the deletion of an organization to `Die`,
  everything else to a stutter.
- `AccountsProofs`, about `AccountsSpec` (accounts alone) or `Spec` (with invitations).
  Every proof needs to know from where a request can get to a label: `Flow` and
  `InviteFlow` say it of one step, `Lanes` is the invariant they give (which handler
  is at which label). `Writers` and `MemberWrites` name the actions that write a
  table, so each proof looks at those few only.
  - `AccountsTyped`; `MembersLive` and `InvitedMembersLive` (`MembersOfLiveOrgs`, which
    is inductive once the types are known: an insert needs both rows, users are never
    deleted, and an organization takes its memberships with it).
  - `LinkedExist`, `InvitedLinkedExist` (`LinkedAccountsExist`). The mapping is written two
    calls after the account was made; `LinkedInv` adds that a request with a pk in hand
    names an account that exists, and that its user's row is there when it records it.
  - `LoginsFindAdmin` (`LoginsFindAnAdmin`). What `AdminCount` counted may be stale when the
    flag is cleared; `AdminInv` says that a second admin is still there then, because only
    demotions take the flag and there is one. The count of active admins gives that
    second admin by `CountedTwo`; `SeedInv` keeps seeded users out of the bootstrap path.
  - `NobodyEscalates` (`NoEscalation`). `EscalationInv` says that the role of owner is
    nowhere: in no membership, in no pending invite, in no request's hands, so
    that `MayOffer` and `MayAdd` never let it through.
  - `ReinvitesSupersede` (`ReinviteSupersedes`). `SupersedeInv` says that the invites a request
    found belong to requests that are done, so no later row takes their name; with
    `SettledInv` none of them becomes pending again.
  - `MembershipsBacked` (`MembershipBacked`). `BackedInv` ties the chain together: a row says
    what its createInvite named, an acceptInvite carries what its row says
    (`Presents`), and it is past `ConsumeInvite` only if it won.
- `MailProofs`, about the composition of mailboxes, aliases and the worker:
  - `MailTyped`. `TypeInv` adds `Control`: which handler is at which label, and that a
    handler has its address or alias when a call needs it.
  - `ActiveDomainsInstalled` (`ActiveDomainInstalled`). `DomainInv` adds that an enableMail
    past `EnsureDomain` has found the directory; a deletion leaves the directory.
  - `LifecyclesForward` (`LifecycleForward`), an action property. `IdentInv` says that, of
    the current registration, a creation past its INSERT owns its address alone and
    the address stays requested until it ends, and that what a pass is about to
    suspend has been active; hence a pass started before a creation cannot overtake
    it. Whoever is not current writes nothing, and nobody becomes current again,
    since `reg` only grows.
  - `SecretsShownWork` (`SecretShownWorks`), assuming `"lost" \notin Faults`: no secret works
    once chasquid has lost the user. `SecretInv` says that creation's row is active and its
    secret in chasquid from the calls that put them there on, while nobody rotates the
    mailbox; it needs the single owner of `IdentInv`. Requests of an earlier registration
    still call chasquid: `user-add` refuses the address, because it is taken.
  - `RoutesInside` (`RoutesStayInside`). `RouteInv` says the same of everything read or
    computed on the way to rows and file: destinations of requests, the buffer of
    a rewrite, the rows a pass has listed. Of mailboxes that exist it speaks for
    processes whose registration is current only; that suffices, because nobody else
    writes a row, and the file is covered until the first deletion.
- `LimiterProofs!FailuresBounded`: `Spec => []FailsBounded`: a client's count
  stays below the limit plus the attempts in flight. The inductive invariant says
  that, for a window still open, the count plus the admitted attempts that have
  yet to record stays within `LoginMaxFails - 1 + |Procs|`; it needs the
  finiteness of the set of processes and cardinality facts of the library.
- `LoginsProofs!LoginsBounded`: the same for `LoginSpec`, because every step of the
  composition is a step of the throttle or leaves it alone (`LoginStepLimits`).
- `LoginsProofs!LoginsImplementLimiter`: that argument as a refinement, `LoginSpec => Spec`
  of `LoginLimiter`: the throttle keeps its promises behind the cookies and OIDC flows.
- `LoginsProofs!LoginsTyped`: `LoginSpec => []LoginTypeOK`.
- `LoginsProofs!LateBootstraps`: `LoginSpec => []LateBootstrapsBounded`. A session may be
  issued late by every attempt that looked the installation up in time, and by each
  only once: `LateInv` says that after onboarding the late sessions and the attempts
  still in hand are together at most `|Procs|`, and that none was late before.
- `LoginsProofs!SessionsAreVouched`: `LoginSpec => []SessionVouched`. The property is
  about cookies, which answers write; `VouchInv` says the same of every answer on
  its way, and that every state cookie, held or on its way, names a flow its own
  browser started. Flows never change their browser, and a spent one never changes.
- `SetupProofs`: `SetupTypeCorrect`, `DomainsAreProved`, `HostnamesAreVerified`,
  `OnboardingIsProved`, `OnboardingIsFinal`, all from `Inv`. Statements act on a row read
  earlier, so `At(p, l, x)` carries the reading forward: whoever is about to set
  a status or to onboard has a row whose token is published, whoever binds a
  hostname has a domain that is verified if it is still there. `RowsInserted` is
  needed for the latter: a request inserts once, so a deleted row never comes back
  as a pending one. A restart only moves processes to labels that rely on nothing.
- `AppsProofs`: `AppsTyped`, `LinksAlwaysMatch`, `ClientsAlwaysHold`, `SyncIsTruthful`. `Step` follows the
  authentik ids an install found or created from call to call (`Kin`, `Front`), `Linked`
  says that recorded rows hold those ids, `Holds` that whoever may create a client
  has its hostname, `Current` that every row on the sync's list is still recorded and is
  asked for through the provider recorded now, and that an answer "not there", once
  given, stays true until the UPDATE.

Every invariant and every safety action property of the passing runs is stated by one of
these theorems. Only model-checked: liveness (`AliasesHeal`, `MissingIsFlagged`,
`OnboardingCompletes`), which is outside what the prover handles.

## Disagreements with what the repository says

Two are shown by runs and recorded as findings (`LastAdminRemains`,
`OnboardedPrimaryVerified`). The others below were met while translating; each
can be followed through the actions named. They are what the code permits, and no
property of this project says otherwise.

| Where | What the code does | What is said |
|---|---|---|
| `store/users.go:36` (`BootstrapCheck`) | the first login of a new user fails when an admin exists: the conditional UPDATE returns no row to scan | "Returns the stored user, whether the row was newly created, and whether the user was granted admin" (`users.go:12`) |
| `store/users.go:82` | two first logins both see no admin and both become one | "the first user while no admin exists becomes an admin" (`users.go:14`) |
| `onboard_handlers.go:129` (`CreateUser`) | a second user created while authentik is down collides with the empty identity of the first | "external identity provisioning must not abort onboarding" (`onboard_handlers.go:122`) |
| `identity_handlers.go:353` | an onboarding under way inserts a membership of a user just disabled | "Remove organization memberships" (`spec.md:2121`) |
| `invite_handlers.go` (`ConsumeInvite`, `SetMembership`) | the token is consumed before the membership insert, whose failure burns it | "so a failed attempt never burns the token" (`invite_handlers.go:174`) |
| `invite_handlers.go:118` (`ExpirePendingInvites`, `CreateInvite`) | two re-invitations that both expire before either inserts leave two pending links | "expires the older pending invite" (`README.md:106`) |
| `invite_handlers.go:215` (`SetUserPassword`) | a redemption that loses the race has set the password before | "The invite token is single-use" (`README.md:105`) |
| `invite_handlers.go:260` | re-inviting an existing user never calls authentik, a missing link stays missing | "ask an admin to re-invite later" (`invite_handlers.go:208`) |
| `provision/mail.go:95` (`ChangePasswordRemove` to `CreateMailCredential`) | two rotations overlap: chasquid has one secret, the active credential fingerprints the other | "revoke the old credential, record the new fingerprint" (`mail.go:88`) |
| `recon/mail.go:94` (`UserExists`) | a check between remove and add of a rotation suspends a live mailbox for good | "missing identities are suspended" (`mail_handlers.go:148`) |
| `provision/mail.go:73` (`EnsureSenderPolicy`) | a policy that failed to install is never installed later | "even if the policy file install lags a tick" (`mail.go:74`) |
| `provision/mail.go:70` (`AddUser`) | a failed creation leaves its credential active | "automatically provision/revoke mail credentials" (`spec.md:931`) |
| `chasquid-agent/main.go:376` (`SetAliasRead`) | two writers of the alias file lose a line, until the next pass | "preserving all other lines" (`main.go:374`) |
| `chasquid-agent/main.go:394` (`SetAliasTruncate`) | the agent dies after truncating the file | "Never leave chasquid in a partially written configuration state" (`spec.md:2490`) |
| `mail_handlers.go:376` (`CreateMailAlias`) | a refused second request has replaced the route of the first, until the next pass | "alias already exists" (`mail_handlers.go:391`) |
| `mail_handlers.go:63` (`SetMailDomainStatus`) | enableMail ends by setting the domain active over a disableMail finished meanwhile | - |
| `store/domains.go:118` (`Aliases!DeleteDomain`) | deleting a domain leaves its users, directory and alias lines at chasquid: mail still goes where the lines say, and creating a mailbox for an address that had one fails for good | "automatically provision/revoke mail credentials" (`spec.md:931`) |
| `00004_mail.sql:55` (`Aliases!DeleteDomain`) | an alias that routes to another domain of the organization keeps the route when that domain is deleted, and when another organization registers it | "Prevent: cross-organization mail routing" (`spec.md:1032`) |
| `store/mail.go:124` (`ValidateAliasDestinations`) | identities of any status are accepted | "every destination must be an active mail identity" (`mail.go:125`) |
| `mail_handlers.go:49` (`StartEnable`) | once enabling failed, every later attempt answers 409 | - |
| `store/domains.go:110` (`CountHostnames`, `DeleteDomain`) | a hostname bound between count and delete goes with the domain | "unless it still has hostnames" (`domains.go:109`) |
| `setup_handlers.go:351` (`SetInstallationProvider`) | route53 is accepted, organization and domain are created, then the CHECK of the table refuses it, and retries answer 409 | "`route53` - automatic via AWS Route 53 credentials" (`README.md:67`) |
| `setup_handlers.go:336` (`SetTXT`) | the record is written with the provider loaded at startup, not with the one just given | "auto-provisions the verification TXT record" (`setup_handlers.go:214`) |
| `setup_handlers.go:277` (`StartSetup`, `SetTXT`) | a Cloudflare zone that is named need only be reachable; records of a domain in another zone are posted into it and answer no lookup | "validates and stores the access provider" (`setup_handlers.go:213`) |
| `setup_handlers.go:106` (`GetInstallation`, `Reset`) | attempts that looked the installation up before it was onboarded still get a bootstrap session | "Valid only until the installation is onboarded; afterwards OIDC is the only login path" (`setup_handlers.go:98`) |
| `auth/session.go:100` (`NoSession`) | `ClearCookie` passes -1 nanosecond, which `Cookie` rounds to a Max-Age of 0, that is none: the browser keeps an empty cookie, which `decode` refuses | "expires the session cookie" (`session.go:98`) |
| `authn.go:48` (`Unauthorized`, `Deliver`) | a late 401 of one tab, or a store error, clears the session another tab has just been given | "missing or invalid session" (`authn.go:49`) |
| `authentik/client.go:336` (`FindProvider`) | an install that finds a provider shows a secret the provider does not have | "Returns freshly generated client credentials" (`client.go:320`) |
| `authentik/client.go:363` (`FindApp`) | an application beyond the first page of 200 is not found, its slug is refused, and the install goes on without recording it | - |
| `authentik/client.go:323` | installs whose names give one slug share a client, across organizations too | "unique client creds" (`GOALS.md:190`) |
| `apps_handlers.go:134` (`IdpError`) | an install without its client becomes active | "an authentik OIDC provider is provisioned for oidc apps" (`apps_handlers.go:70`) |
| `store/domains.go:112` (`Apps!DeleteDomain`) | a domain with active application hostnames is deleted | "A domain cannot be deleted while it has active: application hostnames" (`spec.md:1673`) |

## Not modelled

- Sealing of provider credentials (AES-GCM, an inverse pair) and OIDC discovery at
  startup; signatures and random tokens are ideal in `Logins`.
- Route 53: `SetInstallationProvider` is refused by the table's CHECK, and the environment
  knows Cloudflare only, so no process ever loads it. RemoveTXT, SetAddr and
  RemoveAddr have no caller. The wire formats of DNS and access clients.
- Catalog parsing, compose and Traefik rendering (text), the admin console (reads
  only), the audit log (nothing reads it back), configuration, bootstrap, seed,
  migration and doctor commands (run before or beside the platform).
- Name and address helpers (NormalizeDomain, HostnameWithinDomain,
  ValidateLocalPart, Slugify): pure functions on strings, whose results are inputs here
  (`Within`, `Slug`).
- Of mail: several domains at a time, with the status of mailboxes in the others
  (`Sisters` may be or not be mailboxes whenever they are looked up).
- Of modelled parts: createGroup and its mirror in authentik, user and group rows in
  the external sync, registerCatalog, access groups of applications, agent handlers
  without a caller.

## Plan

Built so far, in this order: accounts and invitations, mail, domains and setup,
limiter, applications and sync; the refinement of invitations, sessions and OIDC
logins, restarts and provider loading, page limits; the proofs of all safety properties.

1. An abstract mailbox lifecycle, with `Mail` shown to implement it; the proof can
   start from `IdentInv` and `LifecyclesForward`.
2. createGroup with its authentik group; user and group rows in the sync.
3. The pure helpers as functions on short sequences against reference definitions.
