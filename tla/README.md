# Verification of smart-router-dashboard

TLA+ specifications of the parts of this repository where the order of things
matters, checked with TLC on small instances and proved with TLAPS for every
value of the constants. The code is the reference: the modules are written from
`apps/`, `packages/` and the tests, and PROJECT.json maps every definition to
the lines it stands for.

## The system

A dashboard for a smart-router deployment, in one TypeScript repository.

- `apps/api` is a Fastify server. With accounts on it keeps its state in
  PostgreSQL; without, it only reads a Prometheus store, a Loki store and a
  configuration file. Several requests, and several replicas, work on the same
  database at READ COMMITTED; each handler is a chain of statements with other
  handlers' statements in between.
- `packages/db` holds the schema, the audit writer and the audit reader.
- `packages/shared` holds query builders, constants and small pure functions.
- `apps/web` is a Next.js application: pages that poll the api, the audit
  viewer, the sign-in forms, and the Auth.js callbacks that mint tokens.
- `apps/api/src/recover.ts` is a command an operator runs on the host, against
  the same database.

### Components

| Component | State | Operations | What is hard |
|---|---|---|---|
| Team membership (`members.ts`, `setup.ts`) | `users` rows | first-run setup, role change, removal | two admins acting on each other; two set-ups; row locks |
| Invitations (`invitations.ts`) | `invitations` rows | create, resend, revoke, redeem, expire | a link redeemed while it is revoked, resent, or swept by a removal |
| Host recovery (`recover.ts`) | the same rows | promote, reset 2FA, reset link | runs beside the dashboard, reads before its transaction |
| Audit log (`audit.ts`, `audit-read.ts`, `routes/audit.ts`) | `audit_events` | write, page, pull, export | rows are numbered before they commit; clients resume for ever |
| Sign-in (`routes/auth.ts`, `two-factor.ts`) | challenges, the used-code counter | password, code, OAuth | values read before a slow hash or a second screen, used after |
| Sessions and gate (`sessions.ts`, `plugins/auth.ts`) | `sessions`, the sign-out cutoff | open, check, revoke, sign out everywhere | a session being opened while all are being closed |
| Password (`password-reset.ts`) | the hash, reset links | issue, reset, change | two links, a reset against a sign-in under way, lock order |
| Lockout (`lockout.ts`) | `login_attempts` | spend, refund, clear, prune | a burst of attempts; a lock written after the count |
| Audit tokens (`audit-tokens.ts`) | `audit_tokens` | mint, revoke, check | little: single statements |
| Provider identities (`users.ts`, `oauth.ts`) | the provider columns of `users` | match, link, redeem | an account found by its address is removed before it is linked |
| Metrics snapshots (`snapshot.ts`, `read-health.ts`) | an in-memory map | get, run, evict | callers sharing a run that fails, is refused or is evicted |
| Store client (`prometheus-client.ts`) | reads in flight, kept answers | read, share, keep | a stale answer stands in for a refused refresh |
| Recorded reads (`plugins/prometheus.ts`) | a process-wide flag | arm, probe | the first request arms it |
| Log lists (`log-list.ts`, `read-range.ts`) | the last read of a live list | poll, page back | lines become readable late; three kinds of limit |
| Chart of transactions (`transactions-over-time.ts`) | none | one chart from two stores | the seam between recorded and logged counts |
| Incident reports (`ReportIncident.tsx`, `incidents.ts`) | the form's draft, the budget of alerts | send, retry, close | a report lands though its sender is told it failed |
| Upstream health (`upstream-health.ts`) | none | merge samples | order of samples, several routers |
| Metrics queries, upstream relay, configuration | none of their own | queries | parsing and arithmetic |
| Audit viewer (`useAuditFeed.ts`, `AuditView.tsx`) | rows, cursor, generation | load, more, refresh | late answers to old filters |
| Polling and idle gate (`idle-store.ts`, `poll.ts`, `use-api.ts`) | phase, timer, watchers | activity, tick, mount | the clock and the announced phase part |
| Try-me drawer (`try-me/drawer.tsx`) | the controls, the result, the sends on their way | select, switch, send, compare | the controls are turned while a send is on its way; sends overlap |

They interact through the database (membership, invitations, sign-in, password,
recovery and the audit log share `users`), through the audit writer (every
change writes a row in its own transaction), and through HTTP (the web mints a
token for the session the api opened, and polls).

What makes each correct, in one line each: there is always an active admin and
one set-up; a dead invitation stays dead; recovery brings nobody back; a feed
has no gap and no duplicate; a code and a challenge open one session; what was
signed out stays out; a reset link works once; an address gets its budget of
attempts and no more; an identity opens accounts whose address it proved; one
run per snapshot key and no bad answer over a good one; a poll of a list shows
what a whole read would, its pages skip nothing, and a chart counts every line
once; the viewer shows the rows of the filters it shows; a page that comes back
from idle is read again; a report is alerted for once however often it is sent;
an upstream is as healthy as the worst that is known of it; a spinner has
something to wait for, and what is sent can land.

## Modules

| Module | Models |
|---|---|
| `Members` | setup, membership, invitations, promote-admin |
| `MCMembers` | `Members` for TLC with symmetry, and the safety of `Snapshots` |
| `MembersProofs` | theorems about `Members` |
| `ResumableFeed` | what the audit API promises a client, abstractly |
| `AuditFeed` | audit writers, pullers and exports, statement by statement; implements `ResumableFeed` |
| `AuditProofs` | theorems about `AuditFeed`, the refinement among them |
| `MCLive` | the liveness of `Members`, of `AuditFeed` and of `Snapshots`, each under its own fairness |
| `SignIn` | one account: sign-in, second factor, reset, password, sessions |
| `MCSignIn` | `SignIn` for TLC |
| `SignInProofs`, `SignInSafety` | theorems about `SignIn` |
| `Lockout` | the budget of attempts of one address |
| `ProviderLinks` | provider identities matched and linked to accounts |
| `StoreReads` | the Prometheus client: shared and kept reads |
| `Snapshots` | the snapshot store over `StoreReads` (it EXTENDS it) |
| `LogList` | a live log list, its polls, and the paging on from it |
| `TxChart` | the chart of transactions out of two stores |
| `AuditViewer` | the web's audit page |
| `IdleGate` | the web's idle gate |
| `IncidentReports` | the report form, the handler and the on-call system |
| `UpstreamHealth` | the health of one upstream from samples |
| `TryMe` | the web's try-me drawer |
| `MCPaging` | `AuditFeed` and `LogList`, one at a time, for TLC |
| `MCServices` | eight more parts that share nothing, one at a time, for TLC |
| `SnapshotSafety` | theorems about `Snapshots` and `StoreReads` |
| `BudgetSafety` | theorems about `Lockout` and `IncidentReports` |
| `ViewSafety` | theorems about `UpstreamHealth`, `AuditViewer`, `TxChart` and `LogList` |
| `ServiceSafety` | theorems about `IdleGate`, `ProviderLinks` and `TryMe`, and about the parts of `MCServices` together |

The order they were written in is by what a mistake would cost: who manages the
deployment first, then the record of who did what, then who can get in, then
what a busy dashboard shows.

### Members

One row per account and invitation, one process per request. A request's `pc`
stops wherever another request's statement can come between; what a transaction
writes becomes visible in its commit action, and which rows it has locked
follows from its `pc` (`RowsHeld`, `InvitesHeld`, `IndexHeld`).

- `completeSetup`: `SetupBegin` (the check outside the transaction), `SetupLock`
  (the advisory lock), `SetupRefuse`, `SetupInsert`, `SetupCommit`.
- `changeMemberRole`, `removeMember`: `MutateBegin` (the role check on arrival),
  `LockFirst` and `LockSecond` (FOR UPDATE in id order), `MutateRefuse`,
  `MutateDecide`, then `RoleCommit`, or `SweepRead`, `SweepTake` and
  `RemoveCommit`: the UPDATE of invitations finds its rows in one snapshot and
  locks them one by one, and skips those that died while it waited.
- Invitations: `InviteBegin`, the two checks, `InviteInsert`; `Resend`, `Revoke`
  and `Expire`; `RedeemBegin`, `Claim`, `RedeemInsert`, `RedeemCommit` and the
  two refusals. The unique index on the address of active accounts is
  `AddressTaken` (what is committed) and `AddressFree` (what an insert waits
  for).
- `recover.ts promote-admin`: `PromoteBegin` reads the account, `PromoteCommit`
  updates it by id.
- `Fail` is anything that rolls a transaction back; `DeadlockVictim` is the
  database breaking a circle of two.

Left out: the roles between admin and member (one value stands for all that
cannot manage), the `suspended` status (no code sets it), OAuth redemption (same
function, other credential), the expired-link audit note. Of foreign keys only
`invitations.createdBy` has its wait here: the insert of an invitation takes a
share lock on the inviter's row and waits behind a mutation that holds it FOR
UPDATE (`InviteInsert`). It holds nothing anybody waits for, so it closes no
circle.

An invitation's token is not modelled. The claim goes by the invitation's id, so
a request that has looked the old link up before a resend replaced its token
still redeems it; the model has that interleaving (`Resend` leaves requests under
way alone), and no property speaks against it.

### ResumableFeed and AuditFeed

`ResumableFeed` is the promise of `docs/AUDIT.md`: a growing set of events, and
pullers each of which is given events it does not have, and forgets everything
when it restarts.

`AuditFeed` is the code. A transaction gets its id at its first write
(`BeginXact`), rows get a sequence number at the insert (`InsertRow`) and become
visible when it commits (`EndXact`), in any order. `listAuditEvents` is two
statements: `ReadHorizon` (the xmin of a snapshot, for asc) and `ReadRows` (the
settled rows ahead of the cursor, in order, at most a page). `Pull`, `Reply`,
`PullRefused` and `Lose` are a client of `/api/audit/events`; `ExportBegin`,
`ExportMore`, `ExportEnd` and `ExportFail` are the page loop of the CSV export.
A kind stands for all a filter looks at; a query is a set of kinds and a
direction, which is what the fingerprint in a cursor binds it to.

A page without rows carries no cursor. `KeepsCursor` says what a client does
with that: keep the position it has, or store the empty one, as the script in
`docs/AUDIT.md` does. With the first, nothing is served twice (checked and
proved); with the second, everything is, each time the client has caught up (a
finding).

### SignIn

One account, and everything that decides who is in: `account` is its row
(password, pending or enrolled secret, last used step, sign-out cutoff),
`sessions`, `challenges` and `links` are the rows of those tables, `attempts` is
whether `login_attempts` has a row for the address. Passwords, secrets and
codes' steps are numbers in the order they come; a code is a secret and a step.
`job` keeps what a request has read, however stale it gets: that, and the
statement it stops at, is where the hazards are.

- Password sign-in: `SignInBegin`, `Attempt`, `ReadAccount`, then `Issue` (a
  challenge, if enrolled) or `ClearFailures`, `TouchUser`, `Open`, which are
  `completeSignIn`'s transaction, and `MintToken`, the web's token. A provider's
  sign-in is `OAuthBegin`, `OAuthOpen`, `OAuthTouch`: three statements and no
  transaction.
- The code: `VerifyBegin` reads challenge and account in one statement,
  `ClaimChallenge`, `VerifyCode`, `SpendCode`, and then `completeSignIn`.
- Enrolment: `Offer`, `ConfirmBegin`, `ConfirmEnrolment`.
- Ending sessions: a reset (`ResetBegin`, `ClaimLink`), one's own change of
  password (`ChangeBegin`, `CurrentAttempt`, `ClearCurrent`) and an admin's or
  the host's reset of the second factor (`TwoFactorBegin`) go on as one
  transaction each: `WriteAccount`, `EndSessions`, `Commit`, a reset with
  `ClearAfterReset` between. `SignOutAll` and `StampCutoff` are the two
  statements of sign-out everywhere, `SignOut` ends one session.
- Links: `RetireLinks` and `InsertLink`.

`EndSessions` is one step and one snapshot. A reset of the second factor retires
challenges and revokes sessions in two statements, and stamps the cutoff from
the clock after both; the model's cutoff is the time of the snapshot, the
earliest it can be, and an earlier cutoff lets more tokens through.

Not here: the age limit of a session (it ends one more way), the budget of
attempts (`Lockout`; here any attempt may be refused), the grace period of the
first account, and the cooldown of self-serve links (an admin's links have none).

### Lockout

One address. `Attempt`s run through `spend` (an upsert that counts, or starts
over), the pruning of old rows, the mark of the lock, and then a credential that
is wrong, or right and given back (`refund`) or cleared. The mark is a statement
of its own and may come late, onto a row that has started over since. Windows
are numbered, which the code does not do, so that the property can speak of one.
`checkLock` is used by tests alone and is not here.

### ProviderLinks

`SignInWith` is a verified token; `ByProvider`, `ByAddress` and `Link` are the
three statements of `upsertOAuthUser`, and `Open` the session. `Redeem` and
`RemoveUser` are one step each: their insides are `Members`. A session stands
for the challenge an enrolled account gets first, and one provider for both.
`vouched` is history: which addresses an identity has proved.

### StoreReads and Snapshots

`StoreReads` is the client: identical reads in flight share one request, an
answer is kept while it is young, and when a refresh is refused an older one
stands in. What an answer holds is left out, when it was read is not. Whoever
joins a read that is refused gets the blank itself, not the older answer that
the one who issued it gets, and its run counts no refusal: so its run takes the
blank for good and keeps it. That is what the code does
(`prometheus-client.ts:248`), and `KeptIsSound` speaks of what a run has been
told.

`Snapshots` is `get` over it: `GetKept`, `GetShared` and the other ways a call is
answered, a run that ends well, degraded, or by throwing (once it has read
everything, or before, while it waits for no read), the hold-off, and the
eviction that passes over keys with a run in flight. The map of entries is a
sequence in its order, and what is dropped from it, or from the kept reads, is
what `Only` leaves out. Runs have no names: a new one is any work that is free,
so the set `Work` bounds how many there are at once.

### LogList and TxChart

A poll reads on from `Late` before the last one's end, joins what it finds with
what that one had seen, follows up the requests it found, and keeps a row only
if nothing newer has come for it. `ListAsWhole` compares each poll with a read
of the whole window at the same moment, which is not what the code runs but what
it is there to save. The comparison holds for lines readable within `Late` and
for requests whose lines are within the reach of the follow-up (`FollowBefore`,
`FollowAfter`; `Belongs`): a longer one is cut by both. The end of a follow-up is
not in it, so a line exactly `FollowAfter` behind the request's newest found one
would be missed, and `Belongs` leaves it out. Lines are at even times, seams at
odd ones. `NoneToCome` is when a row is kept for good. Every line has its
request: a line that the parser drops counts against its finder's limit in the
code (`log-list.ts:96`) and has no counterpart here, and neither has the branch
for a read that finds lines and no request (`log-list.ts:216`).

Someone pages back while no list polls. `Uncrowded` is what `PagesSkipNothing`
asks of the log: no moment holds more requests, or more lines of one finder,
than a read keeps. At such a moment the code steps on to the next older one, as
paging would stand still otherwise (`readOnFrom`), and the rest is left out.

`TxChart` is one chart, counted one line at a time: the ruler's minute and its
second, its delay (below the lag), the instant the recorded counts end, and the
ranges the log is asked for after it, left-open as in LogQL. Every reading time
of a whole step is an initial state.

### AuditViewer and IdleGate

`AuditViewer` has a request for each load with the generation and filters it was
started under; answers are served and delivered in any order, fail, or say that
the feed is off. Rows become readable in the order of their numbers; stragglers
are `AuditFeed`.

`IdleGate` has the clock the polls read and the phase a timer announces, which
may be late by any amount; the throttle of activity is below a tick and is left
out. `polls` counts the panels per key.

### IncidentReports and UpstreamHealth

A form keeps the key of its draft until it is closed; a send may fail before or
after the alert has landed, and be repeated, by then with another severity.
Severities other than critical are one. A report sent again past the turn of an
hour is a second alert, which the code documents. The budget slides with the
clock.

`UpstreamHealth` takes samples of several routers and interfaces one by one, in
any order, and merges them; `expected` is what the configuration declares.

### TryMe

One drawer, opened on one row. `controls` is what the reader has selected
(command, transport, and whether to go through the router or straight to the
upstream), `shown` the result, `sends` the requests on their way, each with the
command and transport it was started with, as the closure of `send` has them.

- Controls: `Select` (`handleSelect`), `SwitchTransport` (with the effects of the
  render after it: a command the transport does not offer snaps to one it does,
  a target it cannot dial to the router), `SetTarget`.
- Sends: `Send` and `Compare` (`compareBoth`, the router's leg first), `SocketOpens`
  and `SocketShut` for the browser's own socket, `RouterAnswers`, `RouterHalf`
  (the comparison goes on to the upstream), `UpstreamAnswers`, `PairAnswers`,
  `Fails`.

Turning a control clears the result and leaves the send. So an older answer may
arrive over a newer choice (`ResultBelongs`, a finding), and two sends may be
under way; what holds through all of that is `DrawerHolds`. A socket that is
closed cleanly before its first message clears the timer and resolves nothing
(`SocketShut`): that send is never answered, so no property says that every send
is. The snippets, the probe of the socket, the pinning directive and the
telemetry are left out; a method that rides on a socket only and one of another
internal path are the two sets `Subscription` and `Foreign`.

## Runs

| Run | Instance | Shows |
|---|---|---|
| `members` | 3 accounts, 2 addresses, 2 invitations, 2 requests, symmetry; and `Snapshots`: 2 keys that read one query, a cap of 1, 2 runs, 4 ticks | manager kept, one set-up, dead invitations, removal, lock order, actors; one run a key, sound and good answers, the cap |
| `members_recovery` | 1 invitation, from the empty database | finding: promote-admin undoes a removal |
| `paging` | `AuditFeed` with 2 transactions, 3 rows, 2 kinds, pages of 1, a puller and an export; `LogList`, below | no duplicate, no gap, complete exports, refinement; a live list as a whole read, pages that skip nothing |
| `audit_doc_puller` | 3 transactions, the documented client | finding: rows served again after catching up |
| `live` | `Members` with 1 invitation, from the empty database and from two admins; `AuditFeed` with 3 transactions, 3 rows, pages of 1 and 2, a puller; `Snapshots` with 2 keys, 2 runs, one tick | every request is answered; every committed row arrives; every caller of the metrics is answered |
| `sign_in` | 2 requests (symmetry), 2 sessions, 2 challenges, 2 secrets, 2 ticks, no resets | codes and challenges single-use, enrolment proved and kept; a code held against a destroyed secret refused, unless the account has enrolled anew at the step that was read |
| `sign_in_reset` | 2 requests, 2 sessions, a link, up to 3 changes of password, no second factor, fair | resets against sign-ins: ended sessions stay ended, links single-use, every request answered |
| `reset_cuts_off` | a session, a challenge, a link, a secret | finding: the old password still opens a session after a reset |
| `reset_links` | 2 links | finding: two links live |
| `services` | eight parts, below | charts, lockout, viewer, idle gate, reports, health, links, drawer |
| `link_kept` | `ProviderLinks` as in `services` | finding: a removed account is left with an identity |
| `try_me` | 2 commands, 2 sends | finding: an answer is shown under another command |

Several questions share a run where their parts share no state: `MCServices`,
`MCPaging`, `MCMembers` and `MCLive` hold the variables of all of them and a
`focus` that picks, in the initial state, the one whose steps the behaviour takes. What is explored is the
union of the parts' own state spaces, not their product, and each property is
about its part; apart from that a shared run says what single runs would (`PartsBehave` says so of `MCServices`).

Bounds. Two requests are enough for every hazard listed against `Members`: each
is a conflict of two transactions (the third party, the recovery command, runs
as one of the two, and `Resend`, `Revoke` and `Expire` need no request). Three
accounts give an actor, a target and a newcomer. A straggler needs two
transactions, one that takes its id first and commits last; the third
transaction and page of two in `live` separate "behind the page" from
"behind the horizon". The theorems carry the safety properties to all sizes.

Bounds of the other parts. `LogList`: three lines of two requests,
finders cut at two lines and a read at one request, so that all three limits are
met, over a window of three line times. `TxChart`: every second of a step of
sixteen, two ranges. `Lockout`: three attempts over three windows with a budget
of one: one attempt spends it, one exceeds it, one is late. `AuditViewer`: four
rows, pages of one, three feeds begun, so that an answer can be two lists late.
`IdleGate`: three panels on two keys, nine ticks with boundaries at two and four.
`IncidentReports`: two forms, three posts, a budget of two in a window of two
ticks. `UpstreamHealth`: two routers, two interfaces, three samples.
`ProviderLinks`: two of everything, the smallest in which a request finds an
account that another has. `Snapshots`: a cap of one for two keys makes eviction
meet a run in flight at once; in `live`, where safety is not the question, one
tick is enough for a kept answer to age out, a hold-off to end and a request to
be aborted, which is all that a caller can be waiting behind. `TryMe`: three
commands (one for any transport, one for a socket only, one of another path)
and two sends, so that each has another that overtakes it.

Deadlock checking is on for `paging` (where someone who pages back may stop,
which is a step of its own) and `try_me`; it is off in the runs of the parts in
`services` and of `Snapshots`, whose clocks and other bounds run out, and off for
`Members`, whose ids run out: when every account and invitation has been used and
everybody has been removed there is nothing left to do in the model, while the
code has fresh identifiers for ever.

Fairness. `Members`: a request that is again and again able to run its next
statement runs it (strong, because PostgreSQL queues lock waiters in order, so
nobody is overtaken for ever), and a deadlock is broken (weak, the database's
detector). Nothing makes a request arrive or fail. `AuditFeed`: transactions end
and a puller keeps pulling (weak: the documented client is a scheduled one); a
call may fail at any statement, but not every time for ever (strong, on the
statements and the reply). `Snapshots`: a run's code goes on, and the client's
abort timer ends every request it is in (weak): nothing else ends a request to a
store that hangs. In `live` a behaviour runs one part, under that part's
fairness. The parts in `services` have safety properties alone.

`SignIn` as `Members`: strong for a request's next statement, weak for the
deadlock detector. Its deadlock checking is off because its ids, passwords and
secrets run out. The account's behaviour is split over two instances because
enrolment and passwords meet only in the transactions that end sessions, and in
the finding, whose instance has both. `sign_in` starts either from the fresh account or from
one that has enrolled with the first code of its first secret (`EitherSpec`, a
state the fresh account reaches, with both sessions still to open): a session is
needed to enrol, and two more to open with one code or one challenge. Two
secrets let a pending one be replaced and a reset account be enrolled again; two challenges let one code come twice;
two ticks put a token before, at and after a cutoff, and a code in the step
before, at and after the present.

## Proofs

- `MembersProofs` proves typing together with what each request knows at each
  statement (`JobShape`, `RowShape`). It also proves `AlwaysManaged`,
  `SetUpOnce`, `OnlyAdminsAct` and `MutationsQueue`. `AlwaysManaged` is not
  inductive: what carries it is that the locked rows are exclusive
  (`RowsExclusive`), so what `MutateDecide` found still holds at the commit
  (`DecisionHolds`): the actor is another account than the target and is an
  active admin, so it is the admin that is left. For `SetUpOnce` it is that
  set-up is exclusive (`SetupExclusive`) and that nothing else can make an
  account before it (`NothingBeforeSetup`). And it proves
  `DeadInvitationsStayDead` and `RemovalEndsInvitations`: a live invitation has
  at most one holder (`InvitesExclusive`), an insert under way has an address
  nobody else can have (`AddressesFresh`), so what a removal waits for either
  rolls back or was cancelled, and cannot be redeemed (`SweepHolds`).
- `AuditProofs` proves `NothingBehind`, `ExportComplete`, and, from
  `KeepsCursor`, `ServedOnce` and the refinement `FeedPromise`. The heart is
  `HorizonFinal` and `CursorFinal`: below a horizon that has been read, and up
  to the position of a resumable pull, every transaction has ended, and new
  ones take higher ids, so no row can appear there. `DueAhead` says of an
  export that what it owes is in the file or ahead of its position.
- `SignInProofs` proves typing together with what each request knows at each
  statement (`Fits`) and that the bound on passwords leaves one to every
  request under way to set one (`RoomLeft`). `Stepping` and `Comes`, at the
  head of `SignInSafety`, say for each statement which step brings a request to
  it, so that an invariant about requests at a statement is shown where they
  arrive.
- `SignInSafety` proves every safety property of the `SignIn` runs.
  `SignedOutStaysOut` rests on `NoneEscapes`: a session that a transaction
  ending them all has not found, and will not end, has no token yet, and cannot
  get one while the transaction holds the account's row (`UserExclusive`),
  which is what the touch of the account in both sign-ins is for.
  `ChallengesOpenOne` rests on who carries a challenge from its claim to the
  session (`CarriedByOne`, `CarriedSpent`, `OpenedSpent`). `CodesSpentOnce`,
  `EnrolmentProved`, `EnrolmentSticks` and `OldSecretRefused` rest on the
  counter: it is at or past every accepted code of the account's secret
  (`CounterAhead`), has moved exactly if the account is enrolled
  (`CounterTells`), and had when a second step read it (`ReadEnrolled`).
  `LinksSetOne` rests on a link having one redeemer, for whom it stays
  claimable until the commit (`RedeemedByOne`, `RedeemingClaimable`).

- `BudgetSafety` proves, of `Lockout`, typing and `BudgetHolds`: in a window no
  more wrong credentials are checked than the budget, and one more for each
  attempt of an older window that is given back to it; and no lock outlasts its
  row's window. The first rests on what a window has spent, wrong answers and
  attempts still to be answered together, being within the row's count
  (`CountCovers`) as long as the row is there, and within the budget ever after
  (`WindowsWithin`). The second rests on attempts never having begun after the
  row they may mark (`StartsInOrder`), so that a late mark ends with its own
  window or before. Of `IncidentReports` it proves `ReportsHold` by
  `ReportInv`. A form awaits a post of its own draft, and has drafted one
  report more than it has been told of until it is told of that too
  (`FormFits`), so a post's draft and incident number each other (`PostFits`)
  and two alerts of one incident share a key. The budget keeps every alert of
  the window that ends now (`Budgeted`); only the stretch that ends now can
  gain one, and it does when the budget has room, so the bound holds of every
  stretch there has been.
- `SnapshotSafety` proves `RunOwnsItsEntry`, `KeptIsSound`, `GoodBeforeBad`,
  `CapHolds` and typing, of `Snapshots` over `StoreReads`. The invariant
  (`EntriesInv`) says that a run in flight and its entry name each other
  (`Running`, `Owned`), that what a run has read is as fresh as a read may be
  unless it has been told of a refusal (`RunSound`), and so what it leaves in
  its entry is (`EntrySound`), and that a caller only waits while there is
  nothing to serve (`Awaits`), which time does not undo. What is kept and what
  is evicted are subsequences, so the lemmas about `Only` come first: it is the
  sequence's elements of a set, in their order (`OnlyPlaces`). They are
  inductions along the sequence, put as facts about the least element of a set
  of naturals (`Least`, from the library's `WFMin`).
- `ViewSafety` proves what pages are shown. `HealthIsWorst` of
  `UpstreamHealth`: a signal says what the samples added to it say, whatever
  their order (`SignalTells`), and the row is the worst of the signals merged
  so far (`RowTells`). `ViewerTrue` of `AuditViewer`: an answer on its way is
  the top of what its own filters let through (`PageFits`), the list is that of
  the current ones (`ListFits`), and only one load is still waited for, which
  asked for what the list ends with (`AwaitedFits`); so joining its page to the
  list leaves no gap (`JoinTop`). `CountedOnce` of `TxChart`: bars, whole and
  running, tile the chart's range (`BarsAre`, by lemmas about multiples), the
  lines up to the instant where recorded counts end are exactly those whose
  sample was due by the time the store is read at (`CoveredIs`), and each side
  of it counts a line of its own once and none of the other's (`RecordedOnce`,
  `TailOnce`). `ListAsWhole` of `LogList`: a read that a later poll builds on
  has, of everything before its last `Late`, all, or all that is newer than
  something it has (`SeenFits`), so the join of it with a fresh read is the
  whole read (`MergedIsWhole`); and a row kept as done has every line its
  request will ever have (`HeldFits`, from `Together`, that a request's lines
  keep together). `PagesSkipNothing`: what is due and not yet listed lies below
  the next page's end (`PagesFit`), for a line above every bound of a page is
  on it (`AboveBounds`), and where a page can only step down by one moment,
  that moment was read in full (`LastMoment`). Typing of `LogList` rests on the
  same invariant.
- `ServiceSafety` proves `PillCatchesUp` and `ReturnRereads` of `IdleGate`,
  `OnlyOwnersGetIn` of `ProviderLinks` and `DrawerHolds` of `TryMe`. For the
  first, `Announced`: the timer is never later than the boundary that the clock
  itself will cross, though activity moves the boundary and not the timer. For
  the second, `PollsCounted`: the count of a key is the number of panels that
  watch it, by the library's facts on cardinality. For the third, `CallFine`:
  what a request has read of an account stays true while it is at the next
  statement, since an account never loses its address and a removed one never
  comes back (`Onward`). For the fourth, `DrawerInv`: what is selected is
  always on offer, through every switch and snap, and only a request over a
  socket has one (`SocketsFit`), so that whatever ends a send also ends what
  spins for it. Last, `PartsBehave`: what a behaviour of `MCServices` does to
  one part is what that part's specification allows, so its theorems hold
  there, `TypesOK` (the types of the parts together) among them.

Assumptions: the constants are as declared (bounds are naturals, sets of ids
finite, `None`, `NoOne` and `Absent` are no id, an idle boundary is before a
pause), the chart's steps fit together (`ChartAssumption`), and a heavy list is
never cut down to less than its next poll reads again (`SpanAssumption`, true
of `MIN_READ_SPAN_MS` and `LATE_MS`). Each inductive invariant was an invariant
of a TLC run before it was proved.

Every safety and action property of a passing run is proved. Only model-checked
are the liveness properties `RequestsEnd`, `EveryRowArrives`,
`EveryRequestEnds` and `CallersAnswered`, as they need fairness, which this
prover does not reason about; and the findings, which are counterexamples. The
theorems about `SnapshotTypeOK` and `LogTypeOK` state types that no run lists:
`CapHolds`, `KeptIsSound` and `ListAsWhole` would fail there first.

## Findings

1. `recover.ts` reads the account, then opens a transaction and updates it by id,
   status included. A removal that commits in between is undone, though the
   command itself says recovery cannot bring an account back.
2. The scheduled puller of `docs/AUDIT.md` writes the cursor of every page to its
   file, and the page that tells it that it has caught up has none; its next
   pull starts from the beginning.
3. A password reset ends every session and stamps the cutoff, but a sign-in that
   has already compared the old password, or a challenge that was issued for it
   and lives for minutes, opens a session afterwards. The second-factor reset
   retires challenges; the password reset does not.
4. `createPasswordReset` invalidates the open links and inserts the new one in
   two statements with nothing around them. Two calls at once leave two links.
5. `upsertOAuthUser` finds an active account by its address and links the
   identity to its row, by id alone, in another statement. A removal in between
   has cleared the column, and the link fills it again on the removed row, for
   good: that identity is refused from then on, and collides when its person
   takes a new invitation with it. The comment on removal says why the column is
   cleared.
6. The try-me drawer clears its result when another command or transport is
   selected, because a result belongs to the one that produced it, as its comment
   says; a request still on its way is not cleared, and its answer is shown under
   the new selection.

## Not modelled

Most of the repository's lines are none that a state machine is about: pages and
charts, the text of queries, constants, types, generated catalogues and styles.
The modules cover the parts that keep state or that meet others between two
statements. Left out, and why:

- Metrics queries (`metrics.ts`, `metrics-detail.ts`, the PromQL builders):
  arithmetic on one answer of the store, and strings. No state, no order.
- Upstream relay, configuration parsing, the upstream routes: one outbound call
  per request, one file read.
- Recorded reads (`plugins/prometheus.ts`): a flag that says which of two
  queries, with the same result, is sent. Wrong for a minute, it costs time and
  no property can tell.
- The Loki client, single calls with a timeout each, and `ReadMemo`, which keeps
  the lists' whole answers for seconds: the sharing is that of `StoreReads`.
- Parsing of log lines and what a row says of a request.
- Email, its text and its one outbound call per message.
- Audit tokens: single statements on one row.
- Content of audit rows; a standalone audit write that swallows its failure
  loses its row by design.
- A session's age limit, its heartbeat, the roles a route asks for, rate limits
  per address of origin, token cryptography, which passwords are acceptable.
- Display names, avatars, read-only listings.
- A lookup of an expired invitation stamps an audit note on it; the note is
  never read.
- The drawer's snippets, socket probe and telemetry.
- SWR's own timers and cache in the web, the table of poll intervals, the
  export's download, the sheet of one audit row.
