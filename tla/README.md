# Formal models of convtrack

TLA+ specifications of the parts of convtrack whose correctness depends on the
order in which goroutines, requests, server processes and SQL statements happen
to run, with the TLC configurations that check small instances of them and the
TLAPS proofs that hold for every instance.  `PROJECT.json` maps each definition
to the lines it translates.

    tlc -workers 2 -config VideoJobsSafety.cfg MCVideoJobs.tla
    tlapm VideoJobsProofs.tla

## 1. The system and its parts

convtrack is one Go program (`cmd/server`) in front of Postgres, Redis and an S3
store.  A browser tracker posts visits; shops post purchase webhooks; the program
attributes a purchase to a session and reports it to advertising platforms.
Beside that it serves dashboards, clones pages, filters visits and re-encodes
videos.

| Component | State | Operations | What is hard | What makes it correct |
|---|---|---|---|---|
| Video job queue (`videojobs/queue.go`, `handlers/videocamo_jobs.go`) | a map and an order list under one mutex, a buffered channel of ids, a directory per job | Enqueue with eviction, Delete, ResultPath, List, the worker goroutines | files are touched outside the lock; deletion and eviction race with workers; a full channel blocks uploads; the process keeps nothing over a restart but the files | map and list agree; a job is processed once; no job is stranded; a job shown as done has its result; a removal clears the disk unless a worker overtakes it |
| Integration retry queue (`queue/`, worker started by `cmd/server`) | Redis list `queue:pending`, sorted set `queue:delayed`; tables `failed_jobs`, `integration_logs` | Enqueue, Dequeue, Schedule, ReapDelayed, the worker loop, shutdown | a job in a worker's hands is in no store; several processes reap; retries against delivered calls; signals in the middle of a job | one copy of a job; none forgotten; the attempt counter is true; no try after a delivery; every job ends |
| Visits, sessions, attribution (`collect.go`, `session/`, `attribution/`) | tables `visitors`, `sessions`, `attributions`, `visitor_identifiers` | GetOrCreateVisitor, UpsertSession, UpsertAttribution, Heartbeat, RecordIdentifier, ResolveForConversion | statements of concurrent requests interleave; late and repeated requests; dropped errors; clients without ids | nothing known of a session is erased; no conversion goes to the session of another visitor's tracker |
| Conversions and webhooks (`conversion/`, `webhook.go`) | table `conversions` | Create, MarkAttributed, EnqueueIntegrations | three writes without a transaction, with a queue consumer that may be faster | jobs are pushed after the row is settled |
| Trigger rules (`rules/`, the rules engine of `public/tracker.js`) | table `trigger_rules`; a cached list in the browser's storage, one applied list per tab | Create, Update, ToggleEnabled, Delete, the public list, FireConversionFromRule | read-then-write edits; tabs that share a cache they refresh behind the page; a goroutine enqueues | what was asked of a rule stands unless a late update undoes it; deleted rules stay deleted; applied rules are recent |
| Retention (`retention/`) | the tables above | runOnce on a ticker | one DELETE over rows other handlers are about to refer to | old sessions go, converted ones stay |
| Session replay (`replay/`, the recorder of `public/tracker.js`) | events waiting in the page, a Redis list with a TTL, an S3 object and a row of `replays` per session | batches, AppendEvents, FlushToS3 | the page does not wait for its requests; a pipeline that is cut; buffer expiry and overlapping flushes overwrite the object | flushes take nothing from the list; no event twice; a listed recording exists; a stored recording is never shortened |
| Billing and affiliates (`billing/`, `affiliates.go`) | `accounts` plan columns, `affiliates`, `affiliate_referrals` | payment events, credit, payout | repeated events; payout in three statements | see section 8: no referral can be made as the program stands |
| Accounts (`auth/service.go`, `auth/recovery.go`, `handlers/admin.go`, `billing/pixup.go`) | tables `accounts`, `auth_tokens`, `password_reset_tokens`; access tokens in browsers, with the role they claim | Register, Login, Refresh, Logout, ResetPassword, impersonation, status, role, deletion, payments and refunds | every call is several statements without a transaction; errors of SELECT, COUNT and DELETE are dropped; the role is read from a token that cannot be recalled | cutting an account off ends its sessions; a lost right expires; somebody administers; managers leave administrators alone (they need not, section 7) |
| Projects (`auth/service.go`, `projects.go`) | table `projects` | edits, rotation of keys, deletion | see the next row | a project has one row and one key |
| API key cache, middleware (`middleware/`, `cache/`) | Redis keys with TTLs | resolveProject, DomainCheck, limiter | edits leave the cache alone; a fill in flight stores what an edit has replaced | an edit is seen after the TTL at the latest |
| Shield campaigns (`shield/campaign.go`, `handlers/shield_campaigns.go`) | tables `shield_campaigns`, `shield_domains`; Redis entries by slug and by domain | create, update, delete of campaigns and domains, lookups of visits | edits forget some entries, before or after their statement, while visits fill them; the quota is counted before the INSERT | an edit reaches visitors; the quota is nearly kept |
| Shield visits (`shield/service.go`, `fingerprint.go`, `webhook.go`, `proxy.go`) | tables `shield_configs`, `shield_logs`, `shield_visits`, `shield_fingerprints`, `shield_webhooks`; a live feed | Check, LogFiltered, ProcessFingerprint, hooks, clearing of logs | goroutines outlive the request, one per table; a smart redirect and a page with the tracker pass two deciders | one decision, one story, in every place that tells it |
| Site cloner (`clone/`, `handlers/clone.go`) | the pages, assets and budget of one clone, in memory; a map a browser's tab fills | Clone, cloneRendered, loadPage, fetchAsset, fetchNestedCSS, buildZip | a pool of goroutines with budgets and a shared list; redirects; a map shared after a timeout | budgets kept; the crawl covers the site; no asset is missing |
| Migrator (`migrator/`) | `schema_migrations` | apply, record | crash between apply and record | not modelled, see section 8 |
| Verdicts of the shield, image and video processing, integration clients, analytics, dashboards, crypto, mail, storage, router | see section 8 | | | |

How they interact: the collect handlers and the webhook handler write the same
tables, statement by statement; the webhook handler and the rule service push to
the retry queue, whose worker (in the same or another process) reads the
conversion back; retention deletes sessions the handlers may be using, and the
recordings listed for them.  Every request of a tracker begins with the lookup of
its key; every request of the dashboard with an access token whose status is looked
up in `accounts`.  Payment webhooks change accounts beside the panel.  The video
queue and the cloner share nothing with the rest.

## 2. The modules

### VideoJobs (with JobLifecycle, MCVideoJobs, VideoJobsProofs)

One action per critical section of `q.mu` and per file or channel operation
outside it.

| TLA+ | Code |
|---|---|
| `status`, `owner`, `order` | `q.jobs`, `projectID`, `q.order` |
| `ch` | `q.ch` |
| `dir`, `input`, `output` | the job's directory, its input file and `output.mp4` |
| `cpc`, `cjob` / `wpc`, `wjob` | where a request goroutine / a worker is and the id it holds |
| `victim` | the id whose directory a request is removing |
| `Enqueue(c)`: `Upload`, `Register`, `Send` | the handler's calls of `Enqueue`: files before the lock, the critical section with `evictOldLocked`, `q.ch <- id` |
| `Delete`, `RemoveFiles`, `RemoveDir` | `Delete`: critical section, and `os.RemoveAll` after the unlock in its two halves, the unlinking of what it finds and the rmdir, which fails when something has come in between; an eviction does the same under the lock |
| `AskResult`, `Serve` | `ResultPath`/`ResultPathAny`, then `c.SendFile` |
| `Receive`, `Lookup`, `ReadInput`, `Camouflage`, `CreateOutput`, `FlushOutput`, `Finish`, `Cleanup`, `Fail` | the loop of `worker` and `process`/`fail`; `WriteFile` is two steps (create, write and close) because the directory can be removed in between |
| `Restart` | the process ends and `New` runs again |

`overtaken` is history: the ids whose `output.mp4` was created between the two
halves of their removal.

`JobLifecycle` is what a user of the queue is promised: a job is submitted once,
begun once, ends once, and does not return after removal.  `ImplementsLifecycle`
is the refinement, under the mapping `LifeOf`.

### IntegrationQueue (with JobDelivery, IntegrationQueueProofs)

Several server processes, each with a worker loop and a reaper, on one Redis.
Every Redis or SQL command is a step; the Lua script of `ReapDelayed` is one step.

| TLA+ | Code |
|---|---|
| `pending`, `delayed` | `queue:pending`, `queue:delayed`; `left` is the time to the score |
| `failed`, `rows` | `failed_jobs`, `integration_logs` |
| `proc` | running, told to stop (context cancelled), down |
| `Poll`, `DequeueTimesOut`, `Dequeue` | the loop's check of the context, BRPOP with its two-second timeout |
| `LoadContext`, `FireSucceeds`, `FireFails`, `LogSuccess` | `processFireIntegration`, `writeLog` |
| `GiveUp`, `Retry` | the two branches of `handleFailure` |
| `Reap`, `Tick` | `ReapDelayed`; the clock the scores are compared with |
| `Cancel`, `Exit`, `Crash`, `Boot` | the signal handler and return of `main`, a crash, the next start |

`enqueued`, `tries`, `delivered` and `lost` are history variables: no guard reads
them but `Enqueue` (each job is enqueued once).  `lost` records a job at the very
step that leaves it nowhere, for the two ways to lose one that the code has (a
process that ends with a job in hand, a store that fails); `NothingForgotten` says
that there is no other way.  A command that Redis has executed and whose reply is
lost is not repeated in the model, while a client library may send it again.

`JobDelivery` is what a client of the queue is promised: an accepted job waits and
is tried by turns, one try at a time and `MaxAttempts` at most, until a try
succeeds, the last one has failed, or a stop or a failing store loses it, and what
has ended stays ended.  `ImplementsDelivery` is the refinement, under `StateOf`: a
job is tried from the call of the platform until its outcome is written, and waits
wherever else it is (list, sorted set, a worker that still loads its context).
The reaper, the logs and the processes are stutters.

### Tracking (with MCTracking, TrackingProofs)

One project, one statement per step, over the tables of visits and conversions.
`visit` and `request` hold where each handler is and the locals it carries
between statements.

| TLA+ | Code |
|---|---|
| `GetOrCreateVisitor`, `UpsertSession`, `UpsertAttribution` | the handler of `/v1/collect/session` and `session/service.go` |
| `Identify`, `Heartbeat` | `RecordIdentifier`, the heartbeat's `GREATEST` update |
| `WebhookStart`, `ResolveDirect`, `ResolveTouch`, `ResolveEmail`, `ResolvePhone` | `webhook.go` Handle and `ResolveForConversion`; `ResolveTouch` is its call of `UpsertSession` whose error is dropped |
| `CreateConversion`, `MarkAttributed`, `EnqueueIntegrations` | the writes of the webhook handler in their order |
| `RuleFires` | `FireConversionFromRule` |
| `Age`, `Retention` | time passing, `runOnce` with the foreign keys of `migrations/001_init.sql` |

`Owner` gives the visitor whose tracker made a session id: the tracker keeps both
ids in the same browser, and session ids are random UUIDs.  A client may send both
ids, one of them or none (`ClientIds`); `parseOrNewUUID` reads an absent one as the
zero UUID, `Nil`, whose rows are shared by all who do so.  The two metrics of a
heartbeat are set to the greater of old and new, and are one number; the exit page
is set to the last one that is not empty, so that a late heartbeat may bring back an
older page.  Attributions keep the values of two fields, one that makes the handler
write and one that does not; a later value replaces an earlier one, an empty one
does not.  A zero-effect refusal (a rejected body, a missing row) is no step.  `PayloadOf` says what session a
platform's payload may name (the generic one alone names any), and `Collect`
gathers the small collect endpoints.

### Replay (with ReplayProofs)

One session, from the page that records it to the dashboard that lists it.  A
Redis command, an upload and an SQL statement are one step each; requests of the
page arrive in any order, late, in part, or not at all.

| TLA+ | Code |
|---|---|
| `recorded`, `pushed`, `closed` | the events rrweb emitted, those that left `replayBatch`, the page is gone |
| `posts`, `flush` | requests to `/v1/replay/events` (with what is left of their pipeline) and `/v1/replay/flush` |
| `buffer`, `ttl` | the Redis list and its time to live; `Forever` for a list that has had no EXPIRE |
| `object`, `session`, `record` | the S3 object, the rows of `sessions` and `replays` |
| `Emit`, `BatchTimer`, `SendFlush` | `emit`, `scheduleBatch`, `flushToS3` with its timer and `beforeunload` |
| `RPush`, `ExpireAndEnd` | `AppendEvents`; the pipeline may be cut (`LosePost`) |
| `LRange`, `Renew`, `Upload`, `UpsertReplayRecord` | `FlushToS3` |
| `Tick`, `CreateSession`, `RetentionDeletes` | time, the collect handler, the retention job |

Events are numbers, so that a copy of the list can be compared with the list.
`epoch` and `torn` are history: how many lists have expired, and whether the
present one lacks the EXPIRE of its pipeline.

### Projects (with AuthProofs)

The rows of `projects`, the dashboard's edits of them, and the middleware that
resolves a key through Redis before every request of a tracker.

| TLA+ | Code |
|---|---|
| `projects`, `used` | the rows; ids and keys ever given out (they are random and not given twice) |
| `cache` | `project:<key>` in Redis with the ticks it has left |
| `lookup` | per connection: where its request is in `resolveProject` and `DomainCheck`, and the row it holds |
| `CreateProject`, `UpdateProject`, `SetCloneProtection`, `RotateAPIKey`, `DeleteProject` | the methods of `auth/service.go` of these names |
| `GetCached`, `Select`, `SetCached`, `Handle` | `Cache.GetProject`, the query, `Cache.SetProject`, the handler behind the middleware |

A copy carries, as history, how long ago it left Postgres.  Ticks are long: a
request does not see two of them between its query and its SET.

### TriggerRules (with TriggerRulesProofs)

One project's rules, the connections that edit them, and the tabs of one browser.

| TLA+ | Code |
|---|---|
| `rules`, `ruleIds` | the rows of `trigger_rules`, ids ever given out |
| `editor` | a PUT between its read and its write, with its body, the row it has read, and the columns others have changed since (`late`, history) |
| `given`, `undone` | history: what was last asked of each column, and the columns a late update has put back |
| `saved`, `page`, `fetch` | `localStorage`, the list a tab has applied, its GET `/v1/rules` |
| `Create`, `UpdateRead`/`UpdateWrite`, `ToggleEnabled`, `Delete`, `List` | `rules/service.go` |
| `LoadRules`, `FetchEnds`, `ClosePage` | `loadRules`, `fetchRules` with `saveCache`, leaving the page |

The columns `enabled` and `event` stand for all that Update writes.  The engine
keeps `_listenersAdded` by rule id and adds the listeners of clicks, scrolls and
submits once per page, so that a page that stays open goes on with the rule as it was
first applied; the model ends at the list a page applies.

### Projects, TriggerRules and Accounts together (MCDashboard)

The three share no variable; `MCDashboard` explores them in one run, each in
behaviours of its own (`part` says which one moves).  Of the rules there are two
parts: in one updates interleave with the other edits and no page is open, in the
other tabs load rules that are created, switched and deleted.

### Accounts (with AuthProofs)

Accounts, their sessions and the panel.  A handler is a request that runs
statement by statement; what it has read it keeps in `request`.

| TLA+ | Code |
|---|---|
| `accounts`, `tokens`, `links` | the rows of `accounts`, `auth_tokens`, `password_reset_tokens` |
| `access` | the last access token that claims a right for an account, with the ticks it has left |
| `Register`, `InsertAccount`, `Login`, `Issue` | `Register` up to its COUNT, its INSERT, `Login`, `issueTokens` |
| `SelectToken`, `Rotate`, `LoadAccount`, `Issue`, `Logout` | the statements of `Refresh`, `Logout` |
| `RequestPasswordReset`, `SelectLink`, `ResetPassword`, `PurgeLink` | `recovery.go`: the SELECT before the hash and the transaction after it; the retention job |
| `Authorize` | `JWTAuth` and `AdminOrManager`: the status is looked up, the right is read from the token |
| `Impersonate`, `CheckTarget`, `CheckFails`, `UpdateStatus`, `Revoke`, `UpdateRole`, `UpdateDone`, `DeleteAccount` | the handlers of `admin.go`, one action per statement; `CheckFails` is the SELECT of the target's role whose error is dropped |
| `PaymentApproved`, `PaymentRefunded` | `HandleWebhook` of `pixup.go` |

A session carries, as history, whether its account was cut off since the session
was granted (`old`), and whether the removal of the sessions has missed it
(`spared`: it was inserted after the removal by a request that had read its token
before, or the DELETE failed).  The first is set where an account is blocked or
gets a new password, the second only by the statement that removes the sessions, so
that a handler that leaves that statement out has old sessions which are not spared.
A property that said "no old session" would be false; with `spared` it says exactly
which ones may stay.  `since` counts the ticks since a claimed right was
last held.

### Campaigns and Visits (with MCShield, ShieldProofs)

Two modules of the shield that share no variable: the first is how a visit finds
its campaign, the second what becomes of it.  `MCShield` explores both in one run,
each from its own initial states (`part` says which one moves).

| TLA+ (Campaigns) | Code |
|---|---|
| `campaigns`, `domains` | `shield_campaigns`, `shield_domains` |
| `cache` | `shield_slug:<slug>` and `shield_domain:<host>` in Redis |
| `Miss`, `SelectCampaign`, `StoreCopy`, `Expire` | `ResolveCampaignBySlug`, `ResolveCampaignByDomain` |
| `CountCampaigns`, `InsertCampaign` | the handler's COUNT for the quota, `CreateCampaign` |
| `UpdateCampaign`, `ListCampaigns`, `DeleteCampaign`, `Forget` | the handlers of these names with `InvalidateSlugCache` after the one and before the other |
| `CreateDomain`, `DeleteDomain` | the upsert and the DELETE, with their DEL |

A copy carries, as history, whether it is still what the tables hold under its
key (`current`), and whether nothing the code does could have removed it
(`excused`).

| TLA+ (Visits) | Code |
|---|---|
| `pc` | how far a visit's request is, with the configuration it has read |
| `tasks` | the goroutines that outlive it |
| `print` | how far the fingerprint of its page is |
| `SlugCloak`, `DomainProxyMiddleware`, `LoadPage` and `CheckOfTracker`, `SmartRedirectAdvanced` | the four entry points |
| `Check`, `CheckDecides`, `SlugFiltered`, `Fingerprint`, `ProcessFingerprint` | `Check` before and after it has the configuration, `LogFiltered`, a page that sends its fingerprint and the endpoint that judges it |
| `InsertLog`, `Publish`, `InsertVisit`, `StoreFingerprint`, `FireWebhooks`, `Dispatch` | the goroutines, one step per statement or call |
| `Exit` | the process ends, with the goroutines |
| `UpsertConfig`, `CreateWebhook`, `DeleteWebhook`, `ClearLogs`, `StreamLogs` | the dashboard |

How a visit is judged is open: any verdict the configuration allows.

A page with the tracker posts to `/v1/shield/check` and to
`/v1/shield/fingerprint` beside one another (`tracker.js:1786-1931`, `1934-2000`),
and each of the two is a decision that is recorded; the verdicts may differ.  Any
page but that of a smart redirect still in `Check` may send a fingerprint
(`HasPage`), for the endpoint asks nothing of it but the project's key.  The script
that the proxied pages and the iframe mode carry (`proxy.go:217-246`,
`shield_campaigns.go:171-178`) sends the id of the project where the key is
expected, and `APIKey` looks the key up by `api_key = $1` (`middleware/auth.go:61`)
and answers 401: by itself it leaves no record.  The page it is put into may still
carry the tracker or `shield-fp.js` with the real key, which is why these visits may
send a fingerprint in the model.

### Cloner (with MCCloner, ClonerProofs)

One clone, in either mode, over a site that is a constant record: the links of a
page in the HTML the server sends, those its scripts have made when it is rendered,
the file the rendering crawl keeps it in (pages may share one), the references of
pages and those of stylesheets.

| TLA+ | Code |
|---|---|
| `pages`, `visited`, `frontier`, `batch`, `results` | the locals of `Clone` and `cloneRendered` |
| `FirstPage`, `NextLevel`, `Load`, `TakeResults` | the crawl: a level at a time, its pages loaded concurrently, redirects taken by their final URL |
| `NextPage`, `BodyArrives`, `BodyKept`, `CapturePage`, `LateBody`, `PackRendered` | the rendering crawl: the map of responses, `waitWG` with its timeout, a response that comes too late |
| `served`, `LinksIn`, `Followed`, `New` | the first page's links come from what the crawl keeps of it, which is the server's HTML if its body came in time; later links from the rendered page, whatever is kept; a page whose file is taken is not kept, and its links are followed all the same |
| `worker` | the goroutines of the pool: `fetch`, `collect`, `nested` |
| `StartAsset`, `AssetArrives`, `AssetFails`, `KeepAsset` | `fetchAsset` before and after the request |
| `CollectNested`, `StartNested`, `NestedArrives`, `NestedFails` | `fetchNestedCSS`, with `extraLocal` read and written under separate locks |
| `Pack`, `Packed` | `wg.Wait`, `buildZip`, which keeps the first file of a name |

## 3. Runs

| Run | Instance | Shows |
|---|---|---|
| `videojobs_safety` | 3 uuids, 2 projects, 2 requests, 2 workers, channel of 1, cap 1, 1 restart (262 000 states) | the safety invariants with every race between upload, eviction, deletion, download and two workers |
| `videojobs_life` | 3 uuids, 1 project, 2 requests, 1 worker, channel of 1, cap 2 (137 000 states) | every job ends, a removal clears the disk for good unless it was overtaken, refinement of JobLifecycle |
| `videojobs_removal` (violation) | 2 uuids, 1 project, 2 requests, 1 worker, channel of 1, cap 1 | a worker that creates the result in the middle of the removal leaves it there for ever |
| `redis` | `queue`: 2 jobs, 2 processes, 3 attempts, delays 1 and 2, failing stores, one stop; `buffer`: 2 events, batches of 2, 2 flush connections, a TTL of 2 ticks (227 000 states) | no double, no silently forgotten job, true counters, refinement of JobDelivery, every job ends; copies of the list are its beginnings, no event twice, a listed recording exists, an abandoned list expires |
| `tracking` | 2 visitors, one of which has a session id, the zero ids, 1 visit connection, 1 request, 1 contact, 2 session inserts, failing statements (662 000 states) | attribution, order of writes, nothing erased, retention |
| `replay_whole` (violation) | as `buffer` | a flush that read less uploads last |
| `dashboard` | `accounts`: 2 accounts, 2 requests, 1 refresh token, 1 reset link, 5 calls, an access token of 1 tick; `projects`: 1 project, 2 keys, 1 domain, 2 requests, a TTL of 2 ticks; `edits` and `pages`: 1 rule, 2 event names, 2 editors, 2 tabs, a cache of 1 tick (1 337 000 states) | sessions end, lost rights expire, somebody administers; what requests use is as recent as the cache promises; what was asked of a rule stands, applied rules are recent, deleted rules stay deleted |
| `rules_patch` (violation) | 1 rule, 2 event names, 2 editors | an update puts back what another one changed |
| `managers` (violation) | as `accounts` | a manager changes an administrator when the check fails or comes too early |
| `shield` | 2 campaigns, 2 slugs, 1 domain, 2 projects, 2 requests, a quota of 1, 4 calls of the dashboard; 1 visit, 1 hook (462 000 states) | edits reach visitors, the quota is nearly kept; one story per decision, decisions are recorded |
| `cloner` | 4 pages, 4 assets (2 stylesheets), 4 sites, 2 workers, 2 responses, limits of 3 pages, 5 assets and 5 bytes, bodies up to 2 (94 000 states) | budgets, coverage of the crawl in both modes, no asset missing, every clone ends |
| `cloner_styles` (violation) | the same | a stylesheet is packed as it was, not as it was rewritten |

Why the bounds are enough for the questions asked.

* VideoJobs.  A channel of one and a cap of one or two make "full" and "at the
  cap" the common case (256 and 50 in the code).  A third uuid is what an
  eviction needs beside the evicted and a waiting job; two workers and two
  requests are what every pairwise race needs.  A third party to a race only
  repeats a step another one already took, and the proofs cover every number.
* IntegrationQueue.  `MaxAttempts` 3 gives a first, a middle and a last attempt;
  two delays, of different length, let two jobs be due together or apart (`redis`,
  part `queue`).  Two
  jobs are needed for order and doubling, two processes for concurrent reapers.
  One stop at any step covers every point a process may end at; what a later stop
  would do starts from a state of the same kind.  `Enqueue` is one step per job.
* Tracking.  Mixing up sessions needs two visitors, of which one has a session id;
  the other, and the first as well, may leave out the session id, the visitor id or
  both.  A visit connection serves visits again and again, so that repeated visits
  are covered by one; two inserts let a deleted session come back.  The behaviours
  have two parts (`MCTracking`): in `rows` heartbeats come and rules make the
  conversions, in `conversions` visitors identify and webhooks arrive.  No other
  statement reads a column a heartbeat writes or the value of an attribution, and
  only webhooks read identifiers, so that the parts miss nothing but products of
  unrelated steps.
* Replay (`redis`, part `buffer`).  Two events are what order, loss and doubling can tell apart, and give
  a batch that fills, a batch the timer sends and one a flush sends.  Two
  connections are what one flush needs to overtake another.  With a TTL of two,
  a list may be renewed before it expires and expire between two steps of a
  flush.
* Projects.  One project with two keys has a rotation, and a deletion of either
  kind of key; two requests race a hit, a miss and a fill for one key.  Two ticks
  tell an entry that was just stored from one about to expire.  The second
  origin, no domain of the project, is the foreign one.
* TriggerRules.  Rules are edited independently, so one shows every race of two
  updates of it, or of an update with a toggle or a deletion.  Two tabs race on the
  shared cache.  The edits and the pages are explored apart: a page writes nothing
  that an edit reads, and the age of a list does not depend on what its rules say.
* Accounts.  A race needs two requests, an administrator and the account it acts
  on.  Five calls are a registration, a promotion or login, a cut-off, and two
  more that race with it.  One row of `auth_tokens` at a time is enough: rows do
  not depend on one another, a rotation frees the row before it fills it, and a
  session outlives its row in the hands of a request.  Accounts and requests are
  interchangeable, and the one action property of `dashboard` is about rules, which
  hold neither.
* Campaigns.  Two campaigns can exchange a slug and share a domain; two projects
  are what the refusal of another project's campaign or domain needs.  Four
  calls build a state (two campaigns, or a campaign and its domain) and edit it
  twice while a visit fills the cache.  Symmetry is over the constants of
  Campaigns, which no state of Visits contains.  Visits of different visitors
  share nothing but the tables and the settings, and the proof of `OneStory` is
  for any number of them.
* Cloner.  The star makes one level larger than the limit of pages, the chain has
  one link per level and a way back, the application has no link until its scripts
  have run and two pages in one file, and the last site has stylesheets that import
  each other and share an image.  Two workers race on that image.  Both
  limits of the downloader can be reached, with requests that fail in any
  combination.

`CHECK_DEADLOCK FALSE` stands where the instance runs out of work: all uuids are
used and all jobs done (VideoJobs), the request is answered and the clock has
reached its bound (Tracking), the page is closed and its list gone
(`replay_whole`), or the clone has ended (Cloner).  In `redis` the loops of the
queue never stop, and a page that is gone may stay so (`MCRedis`).  In `dashboard`
a key can always be asked for, a rule edited, and time passes, and in the shield
the dashboard can always edit its settings.

## 4. Fairness

* VideoJobs.  Weak fairness of each worker and of the steps a request has begun
  (`Progress`): goroutines that can run do.  Nothing obliges a client to send a
  request.  It includes that `CamouflageVideo`, a run of ffmpeg, ends.
* IntegrationQueue (part `queue`; `MCRedis` states the fairness of each part for
  the behaviours of that part).  Weak fairness of each worker loop and of each reaper's
  5-second ticker, of time, and of `Exit` and `Boot`: a process told to stop ends
  within five seconds, and the compose files restart it.  Crashes and signals are
  not forced.  Stores may fail for ever and each job still ends, since a failing
  attempt counts (or loses the job, which `lost` admits).
* Tracking.  Weak fairness of `Retention` alone: the ticker runs with the process.
* Replay (part `buffer`).  Weak fairness of time and of the steps of requests the server has: a
  pipeline goes on or is cut, a flush goes on or fails.  The page need not do
  anything.
* Visits.  Weak fairness of each visit's goroutines: the scheduler runs them and
  their calls have timeouts.  The process may exit at any step.
* Cloner.  Weak fairness of the clone as a whole: its goroutines run without any
  outside help, and Clone's deadline ends every request.
* Projects, TriggerRules, Accounts and Campaigns state no liveness: a page may
  keep what it applied, and nobody has to ask or to edit.

## 5. Properties worth knowing

`OneTicket`: the right to process a job passes from the request through the
channel to one worker and is never doubled, even though deletion and eviction
leave ids in the channel and in workers' hands.  `DoneHasResult`,
`RemovalsClear` and `RemovedJobFreesDisk` speak of a worker that is writing into a
directory that is being removed: a result that comes before the unlinking is
unlinked, one that comes after the rmdir finds no directory, and only one that comes
in between stays, with its directory (`overtaken`).  `RemovedWithItsFiles` leaves
that exception out and is violated (section 7).  `AttemptsTellTries` ties the counter inside a serialised job to
what really happened to it.  `QueuedRowIsFinal` says that a worker of another
process may load the conversion as soon as it sees the job.
`AttributionTruthful` says that the session on a conversion is the one its
webhook named or one made by the tracker of the visitor who identified with its
contact, with any deletion, late visit or failed statement between the reads, and
whatever ids the clients leave out.  The zero ids are the price: the zero session
takes conversions whose named session has gone, and a contact of the zero visitor
takes any session that was sent without a visitor id, but neither ever takes a
conversion to the session of a visitor who is known by another id.
`NothingErased` is as much as late and repeated requests keep: the owner, the start
and the metrics, and that a value is replaced but never emptied.  `RecordingKept` is
why flushing again and again is harmless to the list: whatever a flush holds, in
memory or in S3, is a beginning of the list it came from.  `NoEventTwice` relates
what waits in the page, what is on the way and what is in Redis.
`ResolvedRowRecent` bounds the age of a row by the time its entry has left, so
that a fill in flight during an edit costs one tick and no more; a hit that
renewed its entry would break it.  `AppliedRulesRecent` is the same question for
two tabs that refresh one cache behind the page in any order.
`AskedForStands` follows every column of a rule: what was last asked of it stands,
unless an update that had read the rule before wrote its older value back; a chain
of updates must not spread such a value to other columns.  `UpdateIsPatch` is the
promise without the exception, and is violated (section 7).

`OldSessionsEnd` says exactly which sessions survive a suspension, a refund or a
new password: those of a request that had read its token before the removal and
inserts after it, those a failed DELETE left, and, until the DELETE runs, all.  `LostRightExpires` is about the role inside a token that nobody can recall;
it holds because every rotation reads the role again, so that the longest a lost
right lasts is one token, issued by a request that had read the role before.
`SomeoneAdministers` holds although the COUNT of Register and its INSERT are two
statements: two first accounts may both become administrators, never none.
`ManagersSpareAdmins` is what the comment of `UpdateAccount` says, and is violated
(section 7).

`EditReachesVisitors` lists every way in which a visit may be answered from a row
that is no longer so, and the list is long (section 7: a rename, a deletion before
its DELETE, entries by domain, fills under way); whatever is not on it is forgotten
by its edit.
`QuotaNearlyKept` is the bound the quota has: it may be exceeded by the
other connections that had counted before the INSERT, no more.  `OneStory` relates
five places that different goroutines of one decision write, some of them lost, and
says that a visit of the smart redirect is decided about once although it passes
two deciders, which a page with the tracker is not.
`BudgetKept` gives the number of bytes that workers may take beyond the
limit they check before they ask.  `CrawlCovers` relates the pages to the
site however redirects, failures and the order of a level fall, where the crawl
looks: a page that only a script of the first page links to is not covered when the
server's HTML of that page is kept, and of pages that share a file one is kept.  `AssetsKept`
says that a worker may rely on another one to bring in what both need, although
the two look and register under separate locks.

## 6. Proofs

`VideoJobsProofs` proves, for any finite or infinite sets of jobs, projects,
requests and workers, any channel capacity and any cap, the invariants of
`videojobs_safety` and the refinement of JobLifecycle.  Assumption:
`QueueAssumption`.  None of the invariants is inductive alone.  `DoneHasResult`
needs to know that a worker at `finish` has written a listed job's file, which
needs that nobody removes the files of a listed job, which needs that a request
about to remove files removes those of an id already taken out of the map
(`Custody`, `FilesFollowJobs`); `NoStrandedJob` needs `OneTicket`, or the worker
that drops one ticket could drop the only other one.  `IInv` is their
conjunction.  `PerProjectCap` has an inductive step of its own over cardinalities
(`CapCorrect`), where eviction of one entry is enough because the cap held
before.  `LifecycleCorrect` maps every step to a step of `LNext` or to a stutter.
`RemovalCorrect` proves `RemovalsClear`, the safety half of
`RemovedJobFreesDisk`, by `Clearing`: between the halves of a removal there is no
input, and a result only if the job is overtaken.

`TrackingProofs` proves, from `TrackingAssumption`, `TypeOK` (which contains the
foreign keys), `QueuedRowIsFinal` and `NothingErased` for every instance, by
`IInv`: the handlers' locals have their types, and the place of a handler says
whether its conversion exists and whether its jobs were pushed
(`RowFollowsHandler`).  `AttributionCorrect` needs two more invariants, and no
assumption about what ids clients send: every session row, and every visit on its
way to one, belongs to the session's `Owner` or to the zero visitor (`OwnersKept`),
and the session a handler has found stays one it may use even if the row was
deleted, and inserted again, before it is marked (`FoundIsNamed`).

`IntegrationQueueProofs` proves, from `RetryAssumption`, every safety property of
the queue in `redis`, and `LogConsistent`, for any jobs, processes, attempts,
delays and stops, with and without faults.  `FailedMeansExhausted` and
`NoTryAfterDelivery` (no platform is called again for a job it has taken) are not
inductive alone: both rest on `DeliveredAtRest` (a delivered job is at most in the
hands of the worker that delivered it, and only until its row is written), and that
on `OneCopy`.  `LogConsistent` needs
`RowsTrue`: a row tells of an attempt that was made, and the attempt a worker is
at has none yet.  `NowhereBefore` says that a fresh ticket is the first of its
job.  The reaper pushes the due jobs in an order, which is a bijection because the
sorted set is finite (`DelayedFinite`, `OrderFacts`).  `DeliveryCorrect` is the
refinement of JobDelivery, a lemma per action.  It needs, beside `IInv`, that a
lost job is nowhere (`LostGone`); `InHands` then gives the state of the job a worker
holds, and `OneCopy` that no other place speaks of it.  That each step moves one
job, or none, is what makes it a step of JobDelivery.

`ReplayProofs` proves, from `ReplayAssumption`, the safety properties of the buffer
in `redis` for any number of events, batch size, connections and TTL.  `NoEventTwice` needs
that the range a request still has to push lies within what left the page
(`PostsOK`); `RecordingKept` needs that a copy of an earlier epoch is never
taken for one of the present list (`CopiesOK`).  `ListedReplayExists` needs that a
flush about to write its row has uploaded (`UploadedFirst`).
`LoneFlushLosesNothing` says how far the promise of `FlushToS3` holds, which
`replay_whole` refutes in general: with a single flush connection, an upload made
of the same list as the last one takes no event back.  Its invariant `FlushAhead`,
that a flush carries at least what is stored of its list, is what a second
connection breaks.

`AuthProofs` proves `OldSessionsEnd`, `LostRightExpires` and `SomeoneAdministers`
from `AccountsAssumption`,
for any accounts, requests, sessions, links, number of calls and life of an access
token.  That assumption says, beside the ranges of the numbers, that `None` is
neither an id nor a row.  The invariant, `AccountsInv`, adds five parts to the types
and the properties.  `CallOK` is what a call under way carries although others may
have changed its rows since it read them: only a call that will insert a session
carries an old one; a claim it is about to put into a token was held when it was
read, so that at most one tick has passed since (`late`); and as long as no account
was ever inserted, whoever is about to insert one counted none and makes it an
administrator.  `OldCallsEnd` says of the sessions in calls what `OldSessionsEnd`
says of the rows, for a call may insert one at any time; a removal has to reach
both (`RemovalEnds`, `SurvivorsSame`).  `HeldNow` says
that no time has passed for a right that is held, and `ClaimsRecent` that the ticks
since a right was held and the ticks its token has left are together one more than
the life of a token at most, which is what makes `LostRightExpires` inductive.
`Recorded`, that every account was once inserted, gives `SomeoneAdministers` its
first step.  A step of one request leaves what the calls of the others carry valid
(`CallLasts`, `CallsLast`); each statement has a lemma about the request that moves.

The same module proves `ResolvedRowRecent` from `ProjectsAssumption`.  It is
inductive with `FreshUntilTick`: a request that has seen no tick since its query
holds a row of age zero.

`TriggerRulesProofs` proves `AppliedRulesRecent`, `DeletedStaysDeleted` and
`AskedForStands` from `TriggerRulesAssumption`.  The first needs `SavedFresh`: a
saved list left Postgres at most a tick before it was saved, whichever tab saved
it.  The last needs `RowsAsked`: the row an update has read holds what was asked for
in every column but those it is late for, so that only these can be undone when it
is written back (`WriteRow`).

`ShieldProofs` proves, from `CampaignsAssumption` and `VisitsAssumption`, the three
safety properties of `shield` for any campaigns, slugs, domains, projects,
connections, quota, visits and hooks.  `EditReachesVisitors` is an invariant of
entries (`EntryOK`) that needs the same of the copies visits are about to store
(`CopiesOK`), for what a visit stores becomes an entry.  `QuotaNearlyKept` counts
the rows of a project together with the INSERTs under way: a COUNT that finds room
leaves that sum below the bound, and an INSERT moves one from the second part to
the first.  `OneStory` needs that what is heard anywhere, or still in the hands of a
goroutine, was decided (`HeardDecided`), that each decider decides at most once
about a visit (`DecidedOnce`), and where a decision leaves the request and the
fingerprint it is about (`PlacesOK`, `UnsentOK`): a visitor whom `Check` sent away
has no page to send a fingerprint from, and one who got the page was not recorded.

`ClonerProofs` proves, from `ClonerAssumption`, the three safety properties of
`cloner` for any site, limits and number of workers.  `BudgetKept` needs
`Bounded`: the bytes so far and one body for each worker that waits for an answer
stay below the bound; a worker begins only while there is room.  `CrawlCovers`
needs `CrawlOK`: what is visited is in the clone, in hand, being loaded or missed,
and the links of the pages whose links the crawl has seen, kept or not (`Seen`), are
visited or in the frontier unless a level was cut; that more pages and more missed
ones never take a page out of the clone is `CloneGrows`.
`AssetsKept` needs `PackOK`: where each asset of `extra` is (in a file, failed, or
in a worker's hands: `BroughtIn`), that rewritten stylesheets have had all their
references seen to (`StylesFollowed`), what each worker still owes (`SlotsOK`), and
that nobody is at work when the files are packed (`Finished`).  That a name with a
file has a first one is carried along as `NamesKept`, since induction over the list
is not available to the prover.  `StylesHoldWithoutImports` names the cause of what
`cloner_styles` shows: on a site where no stylesheet imports one that a page uses,
`StylesRewritten` holds, because workers bring in only what some stylesheet refers
to (`NestedImported`).

Only model-checked: all liveness (`JobSettles`, `RemovedJobFreesDisk`, `JobEnds`,
`OldSessionsGo`, `AbandonedBufferExpires`, `DecisionRecorded`, `CloneEnds`), which
is outside the provers.  Every safety property of a passing run, and both
refinements, are theorems.

## 7. Divergences found

Five are shown by a run:

1. `replay/service.go:50-53` says that the recording in S3 always holds the whole
   session.  Flushes read and upload in no common order, and a list that expired
   starts from nothing: an upload can take events back (`replay_whole`).
2. `clone/clone.go:3-5` says that references are rewritten to local paths.  A
   stylesheet that a page links and another one imports comes twice, once
   rewritten and once not, and `buildZip` keeps the first (`cloner_styles`).
3. `videojobs/queue.go:194` says that Delete removes a job and its files.
   `os.RemoveAll` unlinks, then removes the directory, and its error is dropped: a
   worker that creates `output.mp4` in between keeps both, and no structure of the
   queue leads to them any more (`videojobs_removal`).
4. `rules/service.go:125` says that an update is a patch; it writes back every
   column it read, and what another request changed in between is undone
   (`rules_patch`).
5. `handlers/admin.go:139` says that managers cannot change anything of an
   administrator's account.  The SELECT of the target's role drops its error, and a
   failed one passes for "no administrator"; also the role may change between that
   SELECT and the statement that follows (`managers`).

Seen while reading or modelling, and not the subject of a run:

* `videojobs/queue.go:6` says that a restart clears the results; the files of an
  earlier run stay, and no code leads to them.
* `queue/queue.go:102` gives BRPOP a timeout "for a clean shutdown"; `main` cancels
  the context and returns without waiting, and a job in hand is lost (the models
  admit it in `lost`).  The last of the five delays of `queue/queue.go:26` is never
  used, since five attempts (`queue/worker.go:125`) have four waits.
* `attribution/service.go:36` drops the error of `UpsertSession` and uses its empty
  result: the conversion goes to the zero session, which exists once a client has
  sent a visit without ids.
* `collect.go:296-298` turns an absent id into the zero UUID, although its name
  (`parseOrNewUUID`) speaks of a new one: all clients without a visitor id are one
  visitor, and those without a session id share one session.
* `session/service.go:142` sets the exit page to the last one that arrives, not to
  the last one that was visited: heartbeats are not ordered.
* A page with the tracker is checked and fingerprinted at once, and recorded by
  both: it counts as two visits, which may have opposite verdicts.  The script the
  proxy and the iframe mode put into a page sends the project's id for a key and is
  refused, so that the extra check its comment speaks of
  (`shield_campaigns.go:171`) never happens by it.
* `ResetPassword` reads `used_at` before its transaction: one link, used twice at
  once, sets the password twice.
* `shield/campaign.go:480` asks for `InvalidateSlugCache` after an update or a
  deletion; `shield_campaigns.go:597` calls it before the DELETE, and
  `UpdateCampaign` calls it for the new slug only.  Entries by domain are not
  removed by an edit of their campaign.  `CreateDomain` does not ask whether the
  campaign belongs to the project.  `storeFingerprint` uses the context of a
  request that has ended.
* `render.go:125` speaks of waiting for the bodies in flight; after six seconds the
  wait is given up and the map is returned as it is, while goroutines may still
  write to it (`LateBody`).
* The rendering crawl looks for the first page's links in what it keeps of it, the
  server's HTML if that came in time (`render.go:198`): of an application whose
  links are made by scripts it then clones one page.
* The crawl forgets the rest of a level that the limit of pages cuts
  (`NextLevel`), so that a page that fails is not made up for by one that was left
  out.
* `Refresh` does not look at the status of the account; a session that a request under
  way inserts survives a removal of all sessions (`spared`).  Rows of `auth_tokens`
  that expired are never purged.
* A webhook is answered with 200 whatever happened behind it, and a conversion of
  any status fires the integrations.
* No statement writes `accounts.affiliate_ref`; see section 8.

## 8. Not modelled

* Referral credit and payout: crediting reads `accounts.affiliate_ref`, which no
  statement of the program writes, and returns; every later step is unreachable.
  The rate limiter is fiber's own, kept in memory.
* Migrator: it runs alone, before the server listens.  Its one hazard, a crash
  between the statement that applies and the one that records, depends on whether
  each SQL script may be applied twice, not on an order of steps.
* Country lookup of a session, event and interaction rows, listing: they write or
  read columns no other part depends on.
* How the shield reaches a verdict (scores, lists, fingerprint weights, address
  lookups), its captchas, statistics, the checks of DNS and certificates and the
  proxied responses: decisions over one request.  `UpdateWebhook`,
  `Service.SmartRedirect` and `ProxyTo` are reached by no route.
* Image and video algorithms: pixel arithmetic; VideoJobs takes a run as one step
  that may fail.  The text of HTML and CSS in the cloner, its file names and the
  assets of rendered pages.
* Integration clients: their outcome is a choice in IntegrationQueue.  Analytics,
  heatmap, dashboards, ad sync: read-only or best-effort.  Crypto, mail, storage,
  router: wrappers and wiring.  Of the browser tracker the recorder's batches and
  the cache of rules are modelled; its other requests come in any order.
* A lost reply: Redis and Postgres clients may send a command again that was executed
  already.  In the models a command is executed once, or not at all.
* The DELETE of the retention job, and any other SQL statement, is one step: what
  two statements do to the same rows is Postgres' isolation, not this code's.
* Deliveries of one order that repeat (`webhook.go:50`): each makes a conversion and
  its jobs, and nothing in the code tells them apart, so a property would only
  restate that.  The map shared after a timeout (`render.go:132`) is in Cloner as a
  step that may end the program; whether it does is up to the Go runtime.

## 9. What could come next

1. An abstract specification of the caches (`Projects`, `TriggerRules`,
   `Campaigns`): a copy is what the table held at some moment of the last period,
   with the three shown to implement it.
2. SessionPaging: the keyset cursor of the session list against inserts, over
   bounded inputs and a reference definition.
3. A composition of Tracking and IntegrationQueue over the `jobs` both have: a
   webhook's conversion reaches every enabled platform, or fails visibly.
4. Larger instances of Accounts (two refresh tokens) and of Tracking (two session
   ids and two visit connections), which a run of a few minutes does not reach.
