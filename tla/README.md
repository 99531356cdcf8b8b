# std-nfc in TLA+

std-nfc keeps the membership cards of a theatre union: cards with a public page that an
NFC tag or a QR code opens, an admin panel, bulk import from Excel and statistics of the
page views. This directory holds TLA+ models of its backend and of its admin panel, the TLC
runs that check them and the TLAPS proofs about them. The code is under
`src/backend/src/std_cards/` (written here without that prefix) and `src/frontend/src/`.

Run `tlc -config <Run>.cfg <MC module>.tla` for a run and `tlapm <Module>Proofs.tla` for
proofs; `PROJECT.json` maps every definition to the lines it models, lists the runs with
their properties, the slips ("mutants") that break each property, and the hazards.

## 1. The system

Processes: several replicas of the API (FastAPI, one event loop each), one worker
(`worker_main.py`) with two pull consumers and an hourly maintenance task, PostgreSQL,
NATS JetStream, MinIO, and the admin panel, a React application in browsers. The server's
processes share only the database, the object store and the streams. In almost all of the
code every repository call opens a transaction of its own
(`infrastructure/repositories/base.py`, `ctx_wrap` without a connection), so that a handler is
a row of transactions between which others run. That, at-least-once delivery, and state in
the memory of one process are what is hard in the backend. In the panel it is answers: every
page has requests under way while its user goes on typing, closes a dialog and opens it for
another row, and the cached answers of other pages decide what it shows.

### Backend

| Component | State | Operations | Hard behaviour | Correct when | Status |
|---|---|---|---|---|---|
| Import pipeline (`services/import_service.py`, `import_job_repo.py`, `workers/import_consumer.py`) | job row with status and counters; file; cards | upload, publish, cancel, process batch by batch | redelivery, crash, timeout, lost answers, cancel at any point | rows tried once; counters true; a cancel outside of two gaps stops within a batch; ends | modelled, proved |
| Consumer loop (`core/nats/consumer.py`) | messages, deliveries, batch in hand | fetch, handle, ack, nak, stop | ack_wait, max_deliver, max_ack_pending, closed connection | the queue drains | partly: as the two workers use it |
| Scan pipeline (`api/v1/public.py`, `services/scan_service.py`, `workers/scan_consumer.py`) | `scan_events` | publication, INSERT, ack | nothing identifies a scan, batches slower than ack_wait | settled implies recorded; every row too many or too few has its faults | modelled but for the queries; proved |
| Rate limiter, 404 lockout (`core/ratelimit.py`, `api/v1/public.py`) | times and blocks of each key, in memory | check, eviction; is_blocked, record_404, reset | two clock readings, look-up awaited in between, boundaries | no window over the limit; bursts blocked; no refusal without cause | modelled, proved |
| Admin accounts (`services/admin_service.py`, `user_repo.py`, `audit_repo.py`) | role, activity, grants, audit log | PATCH, DELETE; create, resets | check and write in different transactions | a super admin remains; deletions traced; grants are one list | PATCH and DELETE; proved |
| Sessions (`services/auth_service.py`, `refresh_token_repo.py`, `api/deps.py`) | refresh tokens, token_version | issue, rotate, log out, cut, clean up | rotation without compare-and-set, bulk UPDATE against INSERT | ended sessions stay ended; one token for a client | modelled but for reset tokens; proved |
| Second login step (`auth_service.py`, `login_challenge_repo.py`, `core/totp.py`) | challenges, last step, recovery codes, failures and lock | both steps, enrol, verify, disable, admin's reset | one code or challenge twice at a time, attempts in flight at the lock | one session each; guesses bounded; shown codes work | modelled with the set-up page; proved |
| Cards, templates, categories, export (`card_service.py`, `template_service.py`, `card_repo.py`) | cards, templates, grants | create, PATCH, apply template, delete, both cascades, keyset export | read, check and UPDATE by id; cascade in two transactions; a transaction for each page | changes within somebody's rights; no orphaned card; export faithful | modelled but for looks and slugs; proved |
| Messages on cards (`api/v1/card_messages.py`) | messages, validity of the card | publish, edit, delete | handlers of several transactions, requests of other admins between them | validity follows the messages, but where requests failed half-way or crossed | modelled, proved |
| Region contacts (`region_contacts_repo.py`) | one row for each region | list, upsert, delete | none on the server | see the page | in the page's module |
| Label presets, media keys, in-memory cache, analytics cache, partitions | small | | boundaries | | not modelled (see 6, 7) |
| Feedback, audit queries, statistics, rendering of public pages and og images, mail, metrics, configuration, migrations, seeds, deployment | | | I/O and layout | | not modelled |

### Panel

| Component | State | Hard behaviour | Correct when | Status |
|---|---|---|---|---|
| Session client (`lib/api/client.ts`, `stores/authStore.ts`, `AdminGuard.tsx`) | tokens in memory and in two storages | requests that expire together, tabs with one storage, answers after a logout | one refresh at a time; tokens stay with their user unless a refresh outlived a login; requests end | modelled, proved |
| Login and second-factor pages | step, one flag | requests that outlive their step or the page | only the submitted form signs in | modelled, proved |
| Card editor, slug dialog | form, dirtiness, cached card, checks under way | refetches and late answers overwrite the form | the form shows what is stored; flagged edits are asked about | partly; proved |
| Cards list, templates list, template editor and menu | cached queries, debounced search, dialogs | stale lists, answers that close another dialog | lists true, what is done was confirmed | partly; proved |
| Contact rows and label sheet | ids beside rows | names saved for a row that has moved | names reach their row | partly; proved |
| Messages dialog, import wizard, region page, admins page | dialog state, polls, copies | answers that outlive the dialog | as the run `panel_pages` says | modelled or partly; proved |
| Analytics pages, categories section, recovery and account pages, previews | | single requests, rendering | | not modelled |

### How they interact

The API publishes to JetStream, the worker consumes and writes to the database; both are in
ImportJobs and ScanPipeline, because ack_wait and redelivery only make sense with the handler
between. Limiter and lockout meet in the public page (`EnterLimited`: the lockout admits and
the limiter refuses). Admin accounts act on sessions (`AdminBumps` and `AdminRevokes` are the
part of `reset_password`, `reset_2fa` and `force_logout` that concerns tokens) and on the rights
that CardRegistry's filter reads (`Regrants`). The set-up page of the second factor and the
dialog of messages are modelled together with their server handlers, in one module, since
their hazards need both. The other pages meet the server as transactions behind their
requests.

## 2. Modules

Each component has a module with its state and actions; its properties stand at its end, or,
for the two pipelines, in a module `*Properties`; proofs are in `*Proofs`, instances in `MC*`.
Operators described as "a slip" are plausible bugs, defined next to the operator they would
replace.

**ImportJobs** (ImportProperties, ImportProofs). `status`, `progress`, `rows`, `cards` are the
job's row, its file and its cards; `api` is the request that uploads, `msg` and `deliveries`
the message in JetStream, `pc` and the locals the one worker. Every repository call of
`process_job` is an action. The constant `Faults` selects what may fail: a call without
effect, a call that commits and raises, the handler's timeout, a crash, the publication.
What the cells of a row mean is abstracted to the row's outcome: a card, a card with an
error, or an error. `asked` remembers where a cancel met the job: PENDING, RUNNING, or `unseen`,
between one of the worker's looks at the status and the UPDATE by id that follows (`Blind`).

**CardRegistry** (CardProofs). Cards, templates with their categories, the admins' grants. A
request in `ask` goes through its handler one repository call at a time: the rights it was built
with (`AclBuilt`), the card as it was read (`CardRead`), then the UPDATE by id (`CardPatched`,
`TemplateApplied`), the creation, the deletion under the same filter (`CardDeleted`), or the
deletion of a template: its cards first (`TemplateCardsGo`, both modes), then itself
(`TemplateGoes`, which leaves by ON DELETE SET NULL those who took it in between). A creation
names a category, a template or neither, and `CategoryResolved` finds what is missing. `sheet` is
an export, a page for each transaction. `been`, `stayed` and `gapTaken` are histories: what was
within the rights at some moment of a request, which cards were in the export's scope all the
time, which took a template in the gap.

**RateLimiter** (PublicProofs). `accepted[k]` is the history of the times at which a key
was let through, and the deque of the code is its suffix from `head[k]`: a popleft moves the
head. Check reads the clock twice, as `check` does; CleanupExpired is the hourly task.

**BurstLockout** (PublicProofs). The same for `_hits`, with `_blocked_until`; a request is in
flight between `is_blocked` and its outcome, when it misses (Miss, MissBlocked), shows a card
(Show) or neither (Answer).

**ScanLedger, ScanPipeline, ScanProperties** (PublicProofs). ScanLedger is the abstract promise:
accepted scans are recorded at least once and then settled, or abandoned, and nothing is
recorded afterwards. ScanPipeline is the code: spawned publication, fetch of batches, handler
with its outcomes under `wait_for` and `ctx_wrap`'s second try, ack, nak, expiry of ack_wait,
crash, restart, a connection given up for good. ScanProperties maps the one to the other
(`Fate`) and states ImplementsLedger.

**AdminGuard** (AdminProofs). Each request of `update_admin` or `delete_admin` goes through its
repository calls one at a time; Abort ends it after any of them. `seen` remembers the super
admins as of the check, `mixed` the accounts for which two replacements of grants overlapped.

**RefreshTokens** (SessionProofs). One account's rows of `refresh_tokens` in the order of
insertion, with family, revocation and the version in the access token issued with each. An
UPDATE of many rows is two steps, because under READ COMMITTED it sees the rows of its snapshot
only and takes effect at its commit; rows inserted in between are missed. A lost answer is a
client that never presents the token.

**SecondFactor** (FactorProofs). One account: password, authenticator and recovery codes,
challenges, the failure counter with its lock, enrolment, activation, disabling, the admin's
reset, each repository call a step, with the set-up page that enrols and verifies. A secret is
the number of its enrolment, a code the pair of a secret and a step of thirty seconds. `rewound`
is a history: the secrets of which a code was accepted before a request that had not seen it
wrote `last_totp_step` anew.

**PanelSession** (PanelProofs). The axios client, the store and the guard in the tabs of one
browser; an access token is named by the refresh token that came with it, the server is reduced
to families of rotated tokens of which the last is live. `late` is a history: the refreshes under
way since before their tab last logged out or in; `raced` the families of those whose answer was
then stored.

**The pages** (PageProofs; AdminsPanel: AdminProofs). CardEditor (form, cached card, dirtiness
flag that is deaf after each load, blocker, creation with its files, dialogs); SlugDialog
(debounced check, superseded answers); CardsList, TemplatesPanel (search, pages, cached lists)
and AdminsPanel, whose answers close whichever dialog of their kind is open; TemplateEditor (the
form filled from a query kept for a minute, a save that walks to the list); TemplateMenu (a
rename that changes three queries, one of them through a second transaction of the server);
BlockRows (ids beside rows, matched by position, and the sheet that names them); RegionPage (one
list, a copy that an effect takes anew); CardMessages (the dialog, its two handlers on the server
transaction by transaction, and `OtherSends`, the same requests from other pages and admins);
ImportWizard (reducer, interval, polls that outlive it, jobs whose end the server overwrites);
LoginForm (two steps, one flag). What is typed, uploaded or chosen is a small set of values; 0 is
a blank. A request is a record in the set of those under way, answered in any order or with a
failure. Its answer runs the whole handler: cache, form, dialog, toast.

### Compositions

MCCards, MCPublicPages, MCAdmins, MCSessions and MCPanelPages put components side by side
that share no variable: in a behaviour one of them steps while the others rest in
their initial state. This loses nothing for properties of one component: its actions
neither read nor write the others' state, and each component's reachable states appear in the
product. The cases where components do interact are in one module, as listed above.

## 3. Runs

| Run | Instance | Shows | Distinct states |
|---|---|---|---|
| import_faults | 1 job, up to 5 rows in batches of 2, 3 deliveries, every fault | rows tried once; counters true; a cancel outside of the gaps stops within a batch; what was shown stays; the message leaves the queue | 160,904 |
| cards_and_imports | 2 jobs, no fault in the worker; 2 requests about 3 cards, an export by pages of one | published imports end, RUNNING is in the worker's hands; export faithful; rights honoured; no card orphaned | 911,577 |
| import_cancel_race | 1 job, no fault | **violated**: see findings | |
| public_pages | 2 scopes, clock to 8; 2 addresses, 2 requests, threshold 2; 3 scans, every fault | window bound, justified refusals; bursts blocked, blocks fair; scan counts explained; refinement of ScanLedger | 1,078,543 |
| scan_queue | 2 scans, every fault | the queue drains; every stored scan is recorded unless each delivery failed | 15,732 |
| admin_safety | 3 requests of 2 super admins on 3 accounts; the page with 2 accounts, 3 saves | deletions traced; grants of one request; last super admin lost only to a race; role, and categories of a group, as reported | 3,632,497 |
| admin_last_super | 2 requests of 2 super admins | **violated**: see findings | |
| session_safety | 2 requests, 3 tokens, 1 cut; 2 logins, 2 challenges, locks that end, 2 enrolments | ended stays ended, cuts end access, one token for a client; one session for each code, guesses bounded, shown codes work | 5,845,409 |
| session_tabs | 2 tabs, 3 tokens; 3 requests and reloads, or logins of 2 accounts | no self-inflicted reuse; tokens stay with their user and storage unless a late refresh was stored; requests end | 314,454 |
| message_toast | 2 cards, 2 messages | **violated**: see findings | |
| panel_pages | each of the eleven pages, the dialog of messages alone and beside another admin | forms and lists true, ids and names at home, dialogs for themselves, validity after messages, edits gone by known ways, done as confirmed | 3,563,105 |
| renamed_names | 2 names, 2 renames | **violated**: see findings | |

Several properties are conjunctions of named parts, each with a comment of its own in its
module: CountersAreTrue (SucceededIsComplete, ProgressLagsOneBatch), CancelHonoured,
ShownStays, CountsExplained, BlocksAreFair, TokensStayHome and those of MCPanelPages.

**What the properties except.** Where the code does go wrong in a way that nothing in the
repository denies, the property names the case and holds outside of it:

* CancelHonoured: a cancel in one of the two gaps of `process_job` (see findings).
* TokensStayHome: a refresh under way when its tab logged out or in, whose answer was stored
  after that (`lib/api/client.ts:49` looks at neither).
* RightsAsReported: the categories under scopes other than "group". They are not sent, and the
  server leaves the list alone: an administrator saved as "card" keeps those given before.
* FormsShowStored: lost answers and overlapping changes of the logo (`uncertain`), changes by
  others (`foreign`), templates renamed without their query being told (`passed`).
* ListsAreTrue: a query that a deletion overtook; a page left empty by a search or a deletion.
* RowsStayHome: a name picked for a row that was moved or replaced before it was saved.
* ValidityFollowsMessages: a card with a request that failed half-way (`cut`), or on which a
  publication and a removal overlapped (`crossed`). The dialog may also offer to delete a message
  that is no longer the latest, after an answer was lost; no property is about that.
* ImportIsWatched: after a failed poll, also a late one of an earlier job, nobody watches
  "processing" (`deaf`); a late answer about a job still running can put that job under the end of
  another (`mixed`). An end that is shown may be out of date, and after a reset be that of an
  earlier job.
* EditsGoByKnownWays: the form of a card does not ask about contact and service blocks, an
  existing card's logo, what was typed in the deaf moment after a load or save or while a save was
  under way, or anything once the page has created its card; a load replaces what was typed; the
  template's editor never asks.
* LoginIsItsOwn: a page that was left while its request was under way (`orphaned`).
* DoneAsConfirmed: saving what the page had been shown undoes another admin's change.

**Why the bounds suffice.**
import_faults: five rows in batches of two give a first, a middle and a last, short batch,
three deliveries a redelivery after a redelivery. cards_and_imports: the two jobs compete for
the one message in flight; two requests are a check and what makes it stale; one change of
grants or of a template's category is one; the third card may share `created_at` with another,
and pages of one make every border a page border; an export meets two other requests at most.
public_pages: eight ticks are more than two windows and two evictions apart; one key has the
window 3 = max_age, where eviction and window could disagree; threshold 2 with three misses
lets a burst follow a burst and a block (2) ends within the five ticks; two deliveries exhaust
a message, three scans overfill a batch and the pending limit of two. admin_safety: three
requests are what it takes for one to change what a second has checked while a third acts on
the result. session_safety: three rows are a token, its successor and a second successor or
another family; a second enrolment or activation happens where nobody logs in, a second
challenge where no attempt fails (`SettingUp`, `NoneFails`), which keeps the product finite and
every pair of racing steps; `LockSteps = Life = 0` lets a lock or a challenge end with the present
thirty seconds. panel_pages: two rows, pages of one, two requests of each kind and two values
for each input are enough for an answer to meet another row, page or form than it left; the
dialog of messages either goes from card to card by itself (`Alone`) or stays with one card that
another admin works on too, until requests have crossed there (`OnOneCard`). session_tabs: its two
scenes are three requests with reloads of one account (`OneUser`), and logins of two with one
request in flight (`TwoUsers`); three tokens are a login, its refresh and a login after it.
admin_safety: three saves are one, another that overtakes it and one that relies on the result.
What goes beyond is left to the proofs, which have no bounds.

Symmetry is used for scans, addresses, requests and slots, never in a run with liveness.
`CHECK_DEADLOCK FALSE` stands where the environment may stop: nobody need open a card, and
bounded clocks and tables run out.

**Fairness.** Only what keeps running of itself is fair. In the backend: the consumer's loop
fetches and handles (`while` loop, handler under `wait_for`), acks and naks return, JetStream's
ack_wait timer fires, the container restarts (`restart: unless-stopped`), a spawned publication
runs. In the panel: for each request of a tab, that the server or the network answers and that
the client goes on to its refresh and its retry. Users, admins and the API's requests are never
fair. WF suffices, since each of these steps, once possible, stays possible until it is
taken or something else moves the message on. After the connection is closed for good
(`ConnectionCloses`) the process survives and handles nothing: scan_queue's properties say that
the queue drains unless that happens and nobody restarts the worker.

## 4. Findings

* **A cancelled import can read SUCCEEDED** (`services/import_service.py:359`). The re-read of
  the status and `mark_finished` are two transactions; a cancel between them is accepted with 204
  and overwritten, though the log of the check says that such a job is not marked as succeeded.
  The start has the same gap (282-285): a cancel of a PENDING job between the check and
  `mark_started` is overwritten by RUNNING, and the whole file is imported. What does hold is
  proved: a cancel that meets the job elsewhere stops it, before the first row or within a batch.
* **Two super admins can leave the panel without any** (`services/admin_service.py:101`): each
  demotes, deactivates or deletes the other at the same time, and both counts still see two.
  The two 409 answers say that this is refused. What does hold is proved: no request does it
  without such a race.
* **"Card restored" is said of cards that are not**
  (`components/cards/PublishMessageModal.tsx:101`): "edit" publishes a second message and leaves
  the first, and the server restores a card only when no message remains
  (`api/v1/card_messages.py:83`).
* **A rename on the templates page leaves old names** (`pages/admin/TemplatesPage.tsx:104`): it
  fetches only the templates again, while the menu of a tile, for the reason its comment
  gives (`TemplateActionMenu.tsx:63`), fetches categories and cards as well.

## 5. Proofs

Every invariant and every action property of the passing runs is a theorem, with the exceptions
of section 3 and for every value of
the constants under the named assumptions of the modules. What these ask for, the settings and
the types of the code satisfy: a window not longer than what eviction keeps, at least two
failures before a lock (`MaxFails`; the code says 5), finite sets of accounts, logins, cards
and templates, no template on a row that no card has used. The argument is an inductive
invariant for each component, shown to hold initially and to be kept by every action (a lemma
for each), and a consequence of it for each property. A composition of `MC*` needs no
proof of its own, since its parts share no variable; for the pages it is done (`PagesInvariance`).

* **ImportProofs.** Type correctness, RowsTriedOnce, CountersAreTrue, CancelHonoured,
  ShownStays; RunningIsHeld where nothing fails. The properties are not inductive: that a
  redelivery does not import a row again needs that a job nobody has worked on is still
  PENDING or has just been claimed, and untouched (StartInv), that the one message in flight is
  the worker's (HoldInv), and how the worker's locals relate to the row at each call (LoopInv).
* **PublicProofs, the limiter.** WindowBound and RefusalJustified. What has been popped lies
  before every window still to come, since the clock only moves on, whether check or eviction
  popped it; this needs Window ≤ MaxAge, and the assumption says so.
* **PublicProofs, the lockout.** BurstsAnswered and BlocksAreFair. A deque never holds Threshold
  times; what left it is out of the window or spent; while a block runs, everybody in flight came
  before it (`BurstInv`).
* **PublicProofs, the scans.** SettledIsRecorded, CountsExplained, and that ScanPipeline
  implements ScanLedger: each step maps to a step of the ledger or a stutter. The invariant
  (`ScanInv`) counts: deliveries of an unrecorded scan are failures plus the one in hand; rows are
  mishaps plus at most one.
* **AdminProofs.** DeletionTraced, GroupsOfOneRequest, SuperLostOnlyByRace. The invariant says
  what was checked by the time of each write, that a trace precedes its deletion, and that the
  grants are empty between the two statements of `set_groups` where no other request is between
  its own. On the page, RightsAsReported (`AdminsInv`): a form that was reported as saved, and the
  form of the request that ran last on an account, whether it has been answered or not, are what
  the account's entry grants; a request that runs outdates the reports before it.
* **SessionProofs.** EndedStaysEnded, CutEndsAccess, SingleHolder, from `TokensInv`: a bulk
  UPDATE knows every row of its snapshot (SnapshotsComplete) and the rows it misses were put in by
  requests that are on record as having overlapped it (InsertersNoted); while a token is being
  rotated the client holds no other live one of its family, unless two rotations of the family
  overlapped (RotatedAlone).
* **FactorProofs.** GuessesBounded: while the account is locked, failures counted and requests
  past `is_locked` together do not grow (`LockHolds`), by counting the finite set of guessers.
  OneSessionEach (`OnceInv`): a used code is out of the row or behind `last_totp_step`, a used
  challenge is marked, and a request that has read less loses the conditional UPDATE. The
  exception in the property names the secrets whose steps an unconditional write forgot
  (`rewound`); without it the property is false, since enrolment, activation and removal write
  `last_totp_step` without looking. ShownCodesWork (`PageInv`): what the page awaits or shows agrees
  with the row until someone else moves the factor.
* **CardProofs.** NoCardOrphaned (`GapInv`: once a deletion has dealt with its cards, those that
  have the template took it since), RightsHonoured (`RightsInv`: what each request has checked by
  the time of its next call was true at a moment the history holds), ExportFaithful (`SheetInv`:
  keys that are out are not past the last key, cards in scope all the time are out or past it;
  each page is sorted and cut where the next one begins), and the
  references between rows (RegistryTypes).
* **PanelProofs.** NoSelfInflictedReuse and TokensStayHome, from `PanelInv`: the live token of a
  family is its last; one refresh runs in a tab, for the token the tab has unless its user has
  logged out or in since (`late`), and its result is newer than all that arrived; localStorage
  holds the newest of its family. The second property also needs who each token belongs to and
  which may not be kept (IdentityInv, RememberInv).
* **PageProofs.** The nine properties of `panel_pages`. Each page has an invariant of its own:
  the editor's says what an answer on its way brings, which inputs may differ from what was
  loaded without the flag being up, and that an optimistic logo knows what to go back to
  (`EditorInv`); the lists' that a list neither stale nor being fetched counts what there is,
  with the arithmetic of the last page (`ListInv`, `LayoutsInv`); the rows' that ids, blocks and
  positions agree through insertions, removals and moves of a sequence (`ListsInv`, `NamesInv`);
  the dialogs' which answers belong to which opening (`SlugInv`, `MessagesInv`, `WizardInv`,
  `RegionInv`, `LoginInv`, `TemplateInv`, `MenuInv`). MessagesInv says what each step of a
  handler has done to its card, so that once none is half-way only failures and crossings can
  have parted messages and validity. Their conjunction `PagesInv` is kept by the composition.

Some models were wrong or too loose for a proof and are changed: `stayed` of an export follows
the filter of its query, category and all; `rewound` takes the place of an exception of
OneSessionEach that missed codes in the hands of requests under way; `MaxFails` of one, where the
first failure after a lock has ended is counted without locking
(`infrastructure/repositories/user_repo.py:117`), is excluded; and NoSelfInflictedReuse is stated
without the exception it had, which it does not need.

Only model-checked: liveness (QueueDrains, PublishedImportEnds, StoredIsRecorded, RequestsEnd),
which rests on fairness and ENABLED and is beyond the prover, and the four runs that expect a
violation. No definition is recursive; where a page counts, the finite sets and the sequences of
the library's theorems carry the argument.

## 6. What is abstracted, and bounds of the models

* A call of a repository is one atomic step, or no effect, or an effect whose answer is lost.
  PostgreSQL runs at READ COMMITTED; row locks appear where they order two transactions
  (`UserLocked`). In CardRegistry an UPDATE of many rows is one step: a card that its
  snapshot misses is one that took the template afterwards.
* The names that begin with `Max`, but for `MaxDeliver`, `MaxAckPending`, `MaxAge` and
  `MaxFails`, are bounds of the models, not of the code, and so is `Moments`; `BatchSize`,
  `FetchSize`, `Limit`, `Window`, `Threshold`, `Block`, `LockSteps`, `Life`, `CodeCount` and the
  page sizes are settings of the code, made small, as are those four.
* Hashes, signatures and random tokens never collide. An access token's own expiry is left
  out of RefreshTokens: CutEndsAccess is about the version check of `get_current_user`.
* Maintenance of partitions is the fault "io" of the scan INSERT. Messages of an unknown shape
  (`term`) are never published by this code.
* A crash of the API between two repository calls is the Abort of AdminGuard and
  RefreshTokens, `GivenUp` of SecondFactor, `CardAborts` and the fault "publish".
* CardRegistry: a slug or number that is taken ends the request (`CardAborts`), at the look-up
  or at the unique index; the removal of an admin (owner SET NULL) is left out. A PATCH may set
  `assigned_admin_id` to null, which the code does not refuse and RightsHonoured allows;
  `apply_template` moves a card to the template's category whatever the grants are, so the
  property asks only that the card was within the rights.
* SecondFactor leaves out inactive users, the limiter's own counting (RateLimiter) and
  ctx_wrap's second try, which may count a failure twice. A lost answer to an activation leaves
  the factor on and the codes unseen; ShownCodesWork is about the page that shows "done".
* Panel: layout, wording, previews and values are left out; search, pages, blocking and resets
  on the admins page, the photo of an existing card (`CardEditPage.tsx:949-961`: stored and shown
  at once, it raises no flag and invalidates nothing), refetches on reconnection, counters of an
  import in the dialog, the deletion of saved names, a save on the region page before its list
  has loaded, leaving the page during the creation of a card, and the sheet that a late answer
  closes though it was opened again for another row, are not modelled.

Not modelled at all: password reset tokens (the same conditional UPDATE as a challenge, and a
cut that RefreshTokens has); `compute_template_overrides` and a card's new slug, which are
functions of one request; media and images; feedback, whose messages stay in the work-queue
stream that no consumer reads them from (`api/v1/public.py:344`); the order of label presets
(`label_preset_repo.py:37`); the two caches and the statistics; the month arithmetic of the
partitions (`db/partitions.py:36`); rendering, mail, metrics, configuration, migrations,
seeds and deployment scripts.

## 7. Plan

Written so far, in this order: ImportJobs, RateLimiter, ScanLedger and ScanPipeline,
BurstLockout, AdminGuard, RefreshTokens, PanelSession, the pages, SecondFactor, CardRegistry,
the compositions, and proofs of all their safety properties. Next:

1. **Refinements.** ImportContract, the abstract promise of an import (accepted, running, ended
   once), implemented by ImportJobs as ScanLedger is by ScanPipeline, with the step-by-step proof;
   a family of tokens, as PanelSession assumes it of the server, implemented by RefreshTokens.
2. **Algorithms** against reference definitions over bounded inputs:
   `compute_template_overrides`, the months of the partitions, the order of label presets, the
   caches.
3. **Left-out operations** of components marked "partly": the creation of admins and their
   resets, password reset tokens, the export and the assignment of templates in the cards list.
