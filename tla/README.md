# TrueLive backend: specification and proofs

TrueLive manages camera sites: it keeps cameras, PCs and screen layouts, pushes
configurations to the PCs that show the streams, and takes alert mails from the
cameras, stores them, and forwards them to webhook consumers.  This directory
holds the TLA+ model of the backend: modules translated from the code under
`src/app`, TLC configurations for small instances, and TLAPS proofs for what
matters most.

It has two halves.  The alerting half (ingest, parse, delivery, presence) is
about processes, queues and faults.  The management half (accounts, sites,
walls, PCs) is about requests that read, check and commit beside each other.

    tlc -workers 2 -config ingest_sessions.cfg MCAlertIngest    # a run
    tlapm AlertIngestProofs.tla                                 # the proofs

`PROJECT.json` lists the components, the runs with the properties they check,
a mutation of the model for each property that makes it fail, the source lines
behind each definition, the hazards, the findings and the theorems.

## 1. The system

### Parts, state, operations

| Part | Source (`src/app`) | State | Operations |
|---|---|---|---|
| LMTP ingest | `services/smtp_ingest.py`, `utils/rate_limiter.py`, `services/minio_client.py` | the session attributes of one LMTP transaction, objects in MinIO, `raw_messages` rows, Redis counters per address and minute | `handle_RCPT`, `handle_DATA`, startup sweep |
| Parse worker | `tasks/process_inbound_alert.py`, `services/alert_parsers/` | `alerts`, `alert_media`, `raw_messages.status`, the Celery queue `alert_parse` | `process_inbound_alert` |
| Delivery worker | `tasks/deliver_webhook.py` | `webhook_deliveries`, `raw_messages.status`, the queue `alert_deliver` with its countdowns | `deliver_webhook`, `deliver_webhook_retry` |
| Alerting maintenance | `tasks/alerting_maintenance.py`, `tasks/celery_app.py` | partitions of `raw_messages` and `alerts` | the every-minute sweep, partition rollover, retention |
| Alerting API | `api/v1/alert_addresses.py`, `alerts.py`, `webhook_consumers.py` | `alert_addresses`, `webhook_consumers` | provision, rotate, revoke, quarantine; create, update, delete, test; redeliver |
| WebSocket server | `services/websocket_server.py` | `connected_pcs`, `session_data`, `pcs.last_connected` and `last_seen` | connect, register, disconnect, message, last-seen sweep |
| Teams | `services/team_enforcement.py`, `api/v1/teams.py` | `teams`, `team_sites` | create, delete, assign and unassign sites; the rules that placements and moves ask |
| Sites and assets | `api/v1/sites.py`, `devices.py`, `cameras.py`, `categories.py`, `services/site_camera_layout_service.py` | sites, devices, cameras, categories, the camera layout of a site (grid and slots) | create, move, delete, flag; category assignments; manual and automatic site layouts |
| Video walls | `api/v1/screen_layouts.py`, `screens.py` | layouts, screens, views, mappings of cameras to slots, playing states | every edit of a layout, a screen, a view, a slot |
| PCs | `api/v1/pcs.py`, `services/pc_screen_configurator.py` | `pcs` with team, layout and manager | create, update, delete, deploy, configure |
| Config generation and import | `services/config_loader.py`, `config_generator.py`, `config_importer.py`, `stream_config_generator.py`, `api/v1/configs.py` | none of its own | a PC's configuration from its wall, the way back, copying a wall, dealing cameras to a stream configuration |
| Accounts | `api/v1/auth.py`, `invitations.py`, `users.py`, `core/security.py` | users, invitations, tokens | login, refresh, invite, accept, revoke, deactivate, delete |
| Access control | `api/deps.py`, `api/v1/service_accounts.py`, `utils/actor.py` | service accounts and their scopes, who changed a row when | principal and permission checks, `touch_layout` |
| WebSocket client | `services/websocket_client.py` | none | pushes over a short-lived connection; called by tests only |
| Snapshots | `services/snapshot_service.py`, `tasks/snapshot_tasks.py` | one image per camera, files | refresh one, refresh all in five threads over one database session |
| Settings, audit | `services/system_settings_service.py`, `audit_service.py` | key-value rows, append-only log | get, set, log |

### How they interact

The alerting path is a chain of processes that share only the database, MinIO
and the Celery broker:

    camera -> Postfix -> (LMTP) ingest -> MinIO, raw_messages -> alert_parse queue
           -> parse worker -> alerts -> alert_deliver queue
           -> delivery worker -> HTTP POST to each webhook consumer

Beside it run the API requests (an address is revoked while its mail is in
DATA; a camera is deleted while its message is parsed; a consumer is deleted
while an attempt waits for its answer) and beat, which once a minute re-enqueues
every message that is still `received`.

The live-view path is the API, the database and the WebSocket server: PCs
register over socket.io, the server keeps `connected_pcs` in memory and writes
the PC's status, the API generates the configuration of a PC from its wall and
hands it to the server.

The management requests share nothing but the database.  What one places
(a camera on a wall, a layout on a PC, a site in a team) another one judges:

    team --< membership >-- site --< device --< camera
    team --< layout --< screen --< view --< mapping >-- camera
    team --< PC >-- layout          site --< grid, slots >-- camera

### What is hard

* The ingest service is one event loop with many sessions: every `await`
  (limiter, MinIO, database) lets another session run.  Persist-before-ACK must
  hold for every interleaving and every place to crash, and the retry by Postfix
  must be what produces duplicates, not the code.
* Celery acknowledges a task when it is taken (no `acks_late`), so a worker that
  dies loses the task, and the broker may hand out a long countdown twice.
* All database sessions are READ COMMITTED; checks and writes are separate
  statements (existing alert, active address, membership), and the API runs as
  four processes: what a request has checked another may undo before it commits.
* A rule is asked in some handlers and forgotten in others: the rule holds over
  sequences of legal calls only if every way to break it asks.
* Bulk statements, ORM cascades and foreign keys change rows of one wall by
  different means; setting up a PC takes several commits.
* Cascades (`ON DELETE CASCADE`, `SET NULL`) change rows that a task has read.
* Retry chains live in three places at once: the delivery row, the queue, and
  the worker's loop over the consumers.
* The presence of a PC is kept three times, as a connection, as entries of two
  dictionaries and as a time stamp in the database, and handlers may run after
  the event that makes them obsolete.

### What makes the parts correct

* Ingest: a mail is acknowledged only when it is stored; nothing else lets go of
  a queued mail but a permanent refusal; rows never point at missing bytes.
* Parse: status and alert agree; the alert belongs to the camera of its message;
  no parsable message is stuck in `received`.
* Delivery: attempts form chains, a chain has as many attempts as the schedule
  has waits and the last of them gives up, success is recorded only for what the
  consumer received and ends the chain.
* Addresses: at most one active address per camera; a rotated camera has one.
* Presence: a PC that is connected and registered is listed, under its newest
  connection, and was seen within a sweep interval; messages for a PC reach only
  connections that authenticated as it; what is listed is alive.
* Teams: a wall shows only cameras of its team's sites, a PC only a wall of its
  team, whatever is moved afterwards.
* Walls: an edit touches what it names, stamps the wall it changed, and leaves
  the slots as asked for; nothing lies outside its grid.
* Sites: a site's layout shows its own cameras, inside its grid.
* PCs: what a PC is sent is what its wall shows; setting up, importing and
  copying change one wall and leave the others alone; a manager is a manager.
* Accounts: an invitation opens no account after its revocation, and what it
  names exists; the last super admin does not fall to a super admin; a
  deactivated user gets no new token.
* Settings and audit: what is read is what was last written; audit rows are
  never changed.

## 2. Plan

In this order, the most important behaviour first.

| | Modules | Composes | Abstract specification | State |
|---|---|---|---|---|
| 1 | `AlertIngest` | | `MailCustody` | checked, proved |
| 2 | `AlertParse` | | | checked, proved |
| 3 | `WebhookDelivery` | | | checked, proved |
| 4 | `AlertPipeline` | 1, 2, 3 | | checked; its safety proved |
| 5 | `Presence` (WebSocket server, last-seen sweep, routing) | | | checked, proved |
| 6 | `Accounts` (invitations, users) | | | checked, proved |
| 7 | `Tables`, `TeamRules` (the schema, a request's transactions, the rules) | | | checked, proved |
| 8 | `Walls`, `SiteAssets` | `TeamWalls` over 7 | | checked, proved |
| 9 | `WallConfig`, `StreamConfig`, `Fleet` | `FleetWalls` over 7, 8 | | checked, proved |

For every module: one passing run that is rich enough to break each of its
properties with a plausible mutation, a second one only where a question needs
other bounds (liveness, a longer schedule), and a violation run for a
disagreement between the code and what its comments say.  Bounds start at two
actors on one object, as all the races found by reading are between two.

What would come next: retention (a model of monthly partitions, which needs a
calendar), and login and refresh as token lifetimes.

## 3. The modules

| Module | What it is |
|---|---|
| `MailCustody` | abstract: somebody always answers for a queued mail |
| `AlertIngest` | the LMTP service, with Postfix as its environment |
| `AlertParse` | the parse workers and the sweep |
| `WebhookDelivery` | the delivery workers, the consumer API, redelivery |
| `AlertPipeline` | the three stages sharing tables, queues and one budget of faults |
| `Presence` | the WebSocket server, its clients and the clock |
| `Accounts` | users and invitations, and the requests that change them |
| `Tables` | the tables behind sites, teams and walls; how a request changes them |
| `TeamRules` | the walks of `team_enforcement.py`, and the vocabulary of the step properties |
| `Walls` | requests on layouts, screens, views and slots |
| `SiteAssets` | requests on teams, sites, devices, cameras, addresses, categories, site layouts |
| `TeamWalls` | `Walls` and `SiteAssets` over the same tables |
| `WallConfig` | the configuration of a PC as a function of the tables |
| `StreamConfig` | the dealing of cameras to a stream configuration |
| `Fleet` | requests on PCs: managers, layouts, configure, import, copy, deploy |
| `FleetWalls` | `Fleet` beside the edits of `Walls` and `SiteAssets` it can meet |
| `*Proofs` | theorems of the module they are named after |
| `MC*` | constants, initial tables and symmetry for TLC |

**Granularity.** A step of a handler or task ends where it awaits, commits, or
calls another service; whatever the code does up to there is one action.  Two
statements of one transaction whose result no other process can see are one
step; a read and a later write in another statement are two (`ReadRaw` and
`WriteRaw`, `CheckExisting` and `CommitAlert`).  Reading a row into a Python
object and using it later is a field of the worker (`seen`, `cam`), so it may be
stale; SQLAlchemy's expiry on commit is what `fresh` in `WebhookDelivery` stands
for.

### `AlertIngest`

`copy[m][a]` is the queue of Postfix: mail `m` for recipient `a` is not
addressed, queued, sent (250) or bounced (5xx).  A 4xx answer or a broken
connection leaves it queued.  `session[s]` is what the service holds of a
transaction; `pc` names the await it is at.

| Actions | Code |
|---|---|
| `RcptKnown`, `RcptRefused`, `RcptLookupFails` | `handle_RCPT` up to the limiter: 550 for an unknown, revoked or quarantined address |
| `RcptAdmitted`, `RcptLimited`, `RcptFailOpen` | `RateLimiter.allow` and the rest of `handle_RCPT` (451, fail-open) |
| `TooLarge`, `PutRawMail`, `PutRejected`, `PutUnreachable` | `handle_DATA`: 552, the put, `MinioClientError` (451), any other error (unhandled, 500) |
| `LoadAddress`, `PersistRow`, `PersistFails` | the reload and the insert, in which every foreign key must have its target |
| `EnqueueParse`, `EnqueueFails`, `Reply` | `_enqueue_parse`, 250 |
| `ConnectionLost`, `Crash`, `NextMinute` | Postfix gives up the connection; the process dies; the limiter's key changes |
| `Revoke`, `SetQuarantine`, `DeleteCamera` | requests that run in between |

The protocol is LMTP, which wants a reply line for each recipient, and
`handle_DATA` returns one: `Answer` lets Postfix settle the first recipient and
any of the others.

### `AlertParse`

A worker takes a task, loads the row, looks for an alert, fetches the bytes,
parses, uploads the attachments, commits alert and status in one transaction,
and enqueues the delivery.  Messages come in three kinds: those that parse,
those `message_from_bytes` raises on (`Malformed`), and those `passthrough`
raises on (`Poison`, a Subject with undeclared 8-bit bytes).  An attribute that
is assigned the value it was loaded with is not written (`SetStatus`).  Alert
ids are numbers so that the least fresh one can stand for a new uuid.

### `WebhookDelivery`

A worker runs `deliver_webhook` (all active consumers) or
`deliver_webhook_retry` (one of them) as a loop over `todo`.  `Slots` is the
length of the retry schedule (attempts are numbered up to one more, as the
documentation counts them; `Exhausted` says which is the last), `LongWait` the
attempts whose countdown is longer than the visibility timeout of the broker,
which the code leaves at its default.
`received` and `chains` are history variables: what the consumer really
processed, and how many delivery tasks an alert had.

### `AlertPipeline`

The three stages by `INSTANCE`, over shared `raw`, `alert`, `parseQ` and
`deliverQ`.  The stand-ins each stage has for its neighbours when it is checked
alone (`RowArrives`, `DeliveryTaken`, `AlertDeleted`) are replaced by the
neighbours; deleting a camera is one action of all of them.

### `Presence`

The server is an eventlet hub that is not monkey-patched, so nothing interrupts
a handler, not even its database call; each is one action.  What interleaves is
when it runs: `connect` and `disconnect` run where the packet is read, every other
event waits in `spawned` for its greenlet.  `link` is the connection as it is
(`silent`: the client is gone, Engine.IO has not noticed), `session` and
`connected` are the two dictionaries.

| Actions | Code |
|---|---|
| `Connect`, `Disconnect` | the handlers of these names; Engine.IO's eviction calls the same `disconnect` |
| `SendRegister`, `Register`, `RegisterDbFails` | the packet; `register`, in which `Enlist` is the two dictionaries in the order of the code and `StampConnected` the row |
| `SendMessage`, `RouteMessage` | the packet; `message` |
| `Sweep`, `SweepFails` | one turn of `_last_seen_sweep` |
| `GoSilent`, `Tick`, `Restart`, `DeletePc` | power loss, time, the container's restart, `DELETE /pcs/{id}` |

`Tick` does not pass a sweep that is due, a handler that waits, or the pong
timeout of a silent link: the unit of `now` is seconds, handlers take
milliseconds.  `latest`, `presented` and `routed` are history variables.
Registrations without a valid token change nothing and are left out, and
tokens are those of PCs.

### `Accounts`

The API runs as several processes (`--workers 4` in `docker-compose.yml`) whose
handlers do not await between their statements, so a handler is undisturbed
within its process and interleaves with those of the others between its reads
and its commits.  `pc[w]` is the commit a request stands before, `req[w]` what it
has read and will write: ids, new values, and in `pending` the invitations it
found.

| Actions | Code |
|---|---|
| `SendInvitation`, `CommitInvitation`, `MailSent`, `MailFails` | `send_invitation`: its checks, its commit, and the mail with its rollback |
| `RevokeInvitation`, `CommitRevocation` | `revoke_invitation` |
| `Register`, `CommitRegistration` | `register_with_invitation` |
| `CreateUser`, `CommitUser`, `UpdateUser`, `SetActive`, `UpdateOwnEmail`, `CommitChange` | the handlers of these names, with `activate_user` and `deactivate_user` in `SetActive` |
| `DeleteUser`, `LogAction`, `LoadForDeletion`, `CommitDeletion` | `delete_user`: the entry is committed first, `db.delete` loads what refers to the account, the commit deletes |
| `Refused`, `RequestFails` | the database or SQLAlchemy refuses a statement; a process dies |

Keys and uniqueness are the database's: an insert needs a free e-mail, an UPDATE
through SQLAlchemy its row, a deletion takes what `ON DELETE CASCADE` names.
`issued` and `gone` keep ids from being drawn twice, `origin` remembers the
invitation of an account.

### `Tables`

`db` is a partial function from primary keys to rows: a row is there or not, and
its columns depend on the kind of its key (`RowType`, `IsRow`).  `References` gives
the foreign keys with what the removal of their target does: remove the row,
clear the column, or refuse.  `Gone` is what a deletion takes with it: the rows
below the deleted ones, four tables down, which is as deep as the foreign keys go.

`job[w]` is the request that process `w` is about to commit, or `Idle`.  Its `tx` has what
the transaction writes, by the way it is written, because the ways differ in what
can go wrong: `new` (INSERT), `set` (an UPDATE that SQLAlchemy counts the rows
of), `bulk` (a query's UPDATE, or an upsert), `del` (`db.delete`), `purge` (a
query's DELETE), `touch` (`touch_layout`).  A handler that commits several times
goes on at `then` with what it remembers in `arg`.

| Actions | Code |
|---|---|
| an action per handler, `Accepted` | everything up to the commit: lookups, checks, early returns, and the statements it prepares |
| `Continues` | the same for the next transaction of a handler with several |
| `Commit` | the transaction holds: keys are free, rows to update are there, foreign and unique keys hold; cascades happen |
| `Refused` | it does not: rollback and an error |
| `RequestFails` | a process dies, a statement times out, a deadlock is broken |

Handlers of the API are `async` and do not await between their first statement
and their commit, so a request is one burst of reads and its commit, and other
processes commit in between.  Rows that a query has already written are locked:
`Held`, `Blocked`; a statement that would wait is modelled as executed after the
wait.  `alone` remembers whether another request has changed a row since this
one began to read; properties that only hold for such a request say so
(`CommitsAlone`), and those that only overtaken requests may break name them
(`Overlapped`).  A request that was overtaken may leave a mapping whose view was
deleted and made again on another screen; the walks of `team_enforcement.py` go
by a mapping's screen and the configuration of a PC by its view, so `Misplaced`,
`Stray`, `Content` and `ScreenContent` speak of the mappings where the two agree
(`OnItsView`), and `PlacedFor` goes by the view.  Not modelled: the locks a
foreign key check takes on its target and the row lock of `touch_layout`, which
only delay.

### `TeamRules`, `Walls`, `SiteAssets`, `TeamWalls`

| Actions | Code |
|---|---|
| `CreateLayout` ... `UnassignPcs` | `screen_layouts.py`: the routes of a layout, with the check of a move to another team and of the PCs it is assigned to |
| `CreateScreen`, `UpdateScreen`, `DeleteScreen` | `screens.py`: `Resize` has the bulk statements that give every view the new grid and remove what lies outside |
| `CreateView`, `UpdateView`, `DeleteView` | the same for views; rename is an update without columns modelled here |
| `CreateMapping`, `UpdateMapping`, `DeleteMapping`, `ReplaceViewSlots`, `AssignCameraToSlot`, `SetPlayingState` | the mapping routes, with the device a body names, which may be any; `ReplaceViewSlots` compares the body with the slots it has read and writes the difference |
| `CreateTeam` ... `UnassignSite` | `teams.py` |
| `CreateSite` ... `FlagCamera` | `sites.py`, `devices.py`, `cameras.py`; a moved device or camera keeps its placements |
| `CreateAddress`, `RevokeAddress`, `RotateAddress`, `ProvisionAddress`, `QuarantineAddress` | `alert_addresses.py`; rotating, and creating a camera, are two commits |
| `AssignCategory` ... `DeleteCategory` | `categories.py` and the category routes of `sites.py` |
| `AutoPopulate`, `AutoPopulateAll`, `AutoPopulateNext`, `SaveSiteLayout`, `DeleteSiteLayout` | `site_camera_layout_service.py`; for all sites it commits site by site, and a site whose transaction is refused is rolled back, counted and left behind |

Updates that change only names, URLs or contact data change nothing here.  The
rules are state functions (`CameraFitsScreen`, `CamerasBlockingLayoutMove`, ...)
so that a handler's guard and the property it serves can disagree.

### `WallConfig`, `StreamConfig`, `Fleet`, `FleetWalls`

`GeneratedConfig(p)` is `generate_config(load_pc_config(p))`: for each screen of
the PC's layout a tile for every slot of the *screen's* grid, with a source for
every view that shows something.  `StreamConfig` is the two dealers of
`stream_config_generator.py`: cameras go row by row to views, or tile by tile,
and run on from one grid to the next: `Starts` is the `camera_index` of the code
before each part, and `Dealt` what a slot gets at it.  `AreDealtInOrder` is their
reference: it says what the result is by the order of the places, without the
index.
The loader's queries are answered one after the other (READ COMMITTED), and
`GeneratedConfig(p)` is what they make of one state of the tables: a commit that
falls between them can make a configuration that is of none.
`GenerateMultiStream` and `GenerateMultiStreamLegacy` are the handlers with what
they and the request schema refuse.

| Actions | Code |
|---|---|
| `CreatePc`, `UpdatePc`, `DeletePc` | `pcs.py`: the manager's role (`ValidLead` is the validator of `PCCreate`), the team of the layout after the update |
| `DeployConfig`, `DeployLayout` | `deploy_config`, `deploy_screen_layout`: the PCs that `_deploy_config_to_pcs` handed a message for are marked |
| `ConfigurePc` | `configure_pc_screens` up to the first commit: checks, `get_or_create_layout_for_pc` (`Adopting`), the first screen |
| `ConfigureNext`, `ConfigureGrid`, `ConfigureViews` | `get_or_create_screen` and `create_views_for_screen`, a commit each, for each screen of the body |
| `ConfigureCameras`, `ConfigureStamp` | `distribute_cameras_and_create_mappings` (its early return has no commit of its own) and the final stamp |
| `ImportConfig` | `import_config_for_pc`, one transaction; the bodies are configurations of other origin and `Exports(q)`, what `generate_config` emits for a PC |
| `CopyLayout` | `copy_layout_from_pc`, one transaction |

Ids of screens and views are `<<layout, index>>` and `<<screen, number>>` where
the code builds them that way, so a collision of a generated id is a collision
here.  The walks over a body or over views are said by their result, a set and an
order on it: `Places` and `Earlier` for the slots that cameras are dealt to,
`Sources`, `Numbered` and `Placed` for what an import makes of a configuration.
`KeysDiffer` are the flushes of an import that would meet a key of its own body;
`WithinBounds` are the bounds of the model, nothing in the code.

## 4. The runs

| Run | Instance | Shows |
|---|---|---|
| `ingest_sessions` | 2 sessions, 2 mails (one too large), 2 addresses of a camera, 2 uuids, 1 fault | `IngestInv` (the inductive invariant), `AckedIsDurable`, `NoDuplicateWithoutFault`, and that the service implements `MailCustody` |
| `parse_workers` | 2 workers, one message of any of the three kinds, camera deletion, 2 faults | `ParsedHasAlert`, `AlertOfItsCamera`; liveness: every message that can be handled leaves `received` |
| `delivery_workers` | 2 workers, 2 consumers that come and go, 2 delivery tasks, schedule of 2, 1 fault | `AttemptsChained`, `GivingUpEndsTheChain`, `SuccessWasReceived`, `OneSuccessPerChain` |
| `pipeline_end_to_end` | all three stages, one mail; 1 fault anywhere, or none and a consumer, schedule of 2 | `BytesBehindAlert`; liveness: a queued mail becomes an alert or is answered for; a consumer that stays active gets every alert, or its attempts are used up |
| `presence_server` | 2 PCs, 2 connections, 1 waiting handler, sweep every 2 ticks, clock to 3, 1 fault | `PresenceInv` (inductive), `NewestRegistrationListed`, `RoutedToItsPc`, `SeenIsFresh` |
| `accounts_requests` | 2 super admins and 2 further ids, 3 e-mails, 2 invitations, 2 processes, 3 requests, 1 fault | `UsedNamesItsAccount`, `InvitersExist`, `DeletionsLogged`, `OnlyStandingInvitationsOpenAccounts`, `LastSuperAdminFallsToTheFallen` |
| `walls_requests` | 2 teams with a site, device, camera and layout each, 1 PC, a wall of two slots; 2 processes, 2 requests, each of which may fail | `PlacementsKeepTheTeam`, `EditsStampTheWall`, `ReplacedSlotsAreTheBody`, `StraysComeFromViews`, `OneActiveAddressKept`, `SiteShowsItsCameras`, `SiteLayoutsAgree` |
| `fleet_requests` | 2 PCs and the layouts made for them, in one team or two; bodies with a screen cut to the largest grid, two screens, two of one name, a camera of another team; 2 processes, 2 requests of up to seven commits | `ConfigShowsTheWall`, `StreamsAreDealtInOrder`, `PlacementsKeepTheTeam`, `PcsKeepTheirTeam`, `SetUpSparesOthers`, `ManagersManage` |
| `pipeline_mid_task_crash` | all stages, 1 fault | violated: "handles a previous mid-task crash" |
| `delivery_attempts` | 1 worker, a consumer that never answers, the five waits of the code | violated: "Six attempts total" |
| `fleet_reimport` | as `fleet_requests`, 1 request | violated: "same format as config_generator output" |
| `fleet_copy` | one PC shows the layout made for another, 1 request | violated: "Treat as a no-op success" |

Each passing run of a module with tables also checks its type invariant
(`ParseTypeOK`, `DeliveryTypeOK`, `AccountsTypeOK`, `TablesTypeOK`; those of
ingest and presence are part of their inductive invariants).
`TablesTypeOK` has the foreign and unique keys, so it says that the cascades of
`References` are complete.

Every property of a passing run has a mutation of the model, one plausible bug
in the mapped code, that makes TLC report it.

**Why the bounds are enough.**  The races of the code are between two actors on
one row: two sessions with one mail tried twice (two uuids), two workers with
one message, two delivery tasks for one alert.  Two recipients exercise "the last
RCPT wins" and the rate limit of one call per minute its deferral.  One fault
reaches every place a handler can be cut off; two in the parse stage let a
second fault hit the recovery from the first.  `QueueCap` bounds the copies of
one task in the broker; the sweep would otherwise add one a minute for ever, and
two copies are all two workers can hold.  `MaxChains` bounds redelivery,
`DeliveryId` the rows: with three, each of two consumers can have a first
attempt and one of them a second.  A schedule of two has a first attempt that is
followed up and a last one that is not.  Counters of the limiter saturate at the limit, which no test can
tell from going on.

In `pipeline_end_to_end` a consumer is registered from the start or never, and
the fault occurs only when there is none (`OneTrouble`, an action constraint that
also takes the interchangeable keys of the object storage in one order).  What
it leaves out are the registration of a consumer and faults while there is one;
neither is an action that fairness speaks of, so every behaviour it keeps is
one of the specification, and `delivery_workers` has both beside all other steps
of the delivery stage.

In `accounts_requests` three requests hold every life of an invitation that
matters (sent, accepted, and either revoked, replaced or its account deleted),
two of them at a time in two processes.  Two super admins are the smallest
number of which the last can fall.

In `presence_server` two connections are an old and a new one of a PC, or one
each of two; one waiting handler is enough to be late for its own connection's
end, since two that wait run one after the other; three ticks hold a
registration between two sweeps, a missed pong (one tick) and the sweep after.

In the runs over the tables two requests are enough for a property of steps: the
one that commits and the one that overtook it, or the one that prepared the
state.  What longer histories leave behind is in the initial tables (`MCStored`
of `MCWalls` and `MCFleet`): a wall that has been set up, a PC with or without
its layout, a layout left by a PC of the same id, an old address, a category in
use, a PC with a manager.  Each of the violation runs over them needs one request.
`MaxMapping` is 3: one placed and two to place; `MaxIndex` 2 lets a set-up make
a second screen.  The default grid of a stream configuration (3 by 3 in the
code) is 2 by 2, and the limit on slots (`MaxTotalSlots`) 10, so that a request
is refused and one runs over two grids.  `ScreenSide` and `ViewSide` are the
code's own limits, 4 and 10.  `ConfigShowsTheWall` and `StreamsAreDealtInOrder`
are invariants of all tables the requests lead to, half of them in the middle of
a set-up.

Deadlock checking is off throughout: the system stops when no mail is
queued, nothing waits in the broker and the bounds on faults and requests are
used up, and a request is refused once the bound on requests is reached.

**Fairness.**  Handlers and tasks that have begun go on (`WF` of the session's
and the worker's step), because an event loop and a prefork worker run what is
ready.  Taking a queued parse task is strongly fair per task: with several
tasks a busy worker disables it again and again, and a Redis list is drained in
order.  The sweep is weakly fair (beat schedules it every 60 s), so are the
minute of the limiter and Postfix's next attempt.  Nothing is assumed of faults,
of administrators, or of a consumer's answer.  The modules over the tables state
no fairness: nothing there has to happen, a request may fail at any commit.

## 5. The proofs

`tlapm` checks, for any sets of mails, recipients, sessions, uuids and any
number of faults:

* `IngestTypes`, `IngestInvariant`, `AckedDurable`, `RowsObjects`
  (`AlertIngestProofs`): `Spec => []...` of the type invariant, the inductive
  invariant `IngestInv`, persist-before-ACK and `RowsHaveObjects`.
* `CustodyImplemented`: `Spec => CustodyHolds`, the refinement of `MailCustody`.
* `RowsAreAccounted`, `DuplicatesHaveCauses` (`AlertIngestProofs`): a mail has no
  more rows than recipients and faults (`NoDuplicateWithoutFault`).
* `CustodyLosesNothing` (`AlertIngestProofs`): whoever implements `MailCustody`
  never loses a mail the sender was told 250 for.

And for the other components:

* `ParseInvariant`, `ParseTypes`, `ParsedMessagesHaveAlerts`,
  `AlertsKeepTheirCamera` (`AlertParseProofs`): for any number of workers,
  messages and faults, `ParsedHasAlert` and `AlertOfItsCamera`.
* `DeliveryInvariant`, `DeliveryTypes`, `AttemptsFollowFailures`,
  `GivingUpClosesAChain`, `SuccessMeansReceived` (`WebhookDeliveryProofs`): for
  any number of workers, consumers and redeliveries and any retry schedule, the
  properties of chains: `GivingUpEndsTheChain` says how long one is.
* `ChainsAreAccounted`, `SuccessesFollowChains`: a consumer gets an alert no more
  often than tasks were queued for it and workers died (`OneSuccessPerChain`).
* `PipelineInvariant`, `AlertsHaveBytes` (`AlertPipelineProofs`): over all three
  stages, `BytesBehindAlert`.
* `PresenceInvariant`, `ReconnectedStaysListed`, `RoutingIsPresented`,
  `RegisteredIsFresh` (`PresenceProofs`): for any number of PCs, connections and
  waiting handlers, the inductive invariant `PresenceInv` and the three
  properties of the run.
* `AccountsInvariant`, `AccountsTypes`, `UsedInvitationsNameAccounts`,
  `InvitationsHaveSenders`, `DeletionsAreLogged`, `AccountsOpenAsInvited`,
  `LastRankFallsToTheFallen` (`AccountsProofs`): for any number of users,
  invitations and processes, the three invariants and the two action properties.
* `TablesInOrder`, `TablesStayTyped`, `RequestsKeepToTheirPlans`
  (`TeamWallsProofs`): for any number of processes, requests, teams, sites and
  walls, and every operation of `Walls` and `SiteAssets`, the tables keep their
  columns and keys, and what a request has checked holds until another one
  changes a row.
* `SiteLayoutsStayWhole`, `SitesShowTheirCameras`, `StraysAreExplained`,
  `ReplacedSlotsShowTheBody`, `AddressesStaySingle`, `TeamsKeepTheirPlacements`,
  `EditsStampTheirWall`: the seven action properties of `TeamWalls` and
  `SiteAssets`, under `WallsSpec`.
* `FleetKeepsToItsPlans`, `FleetStaysTyped` (`FleetProofs`): the same under
  `FleetSpec`, for any number of PCs, any bodies, and with `configure_pc_screens`
  between any two of its commits.
* `FleetShowsTheWall`, `FleetKeepsPlacements`, `FleetKeepsTeams`, `FleetIsLed`,
  `SetUpsSpareOthers`: the invariant `ConfigShowsTheWall` and the four action
  properties of `fleet_requests`.
* `FleetDealsInOrder`: the invariant `StreamsAreDealtInOrder`, for requests of any
  number of monitors, views, tiles and cameras.

Assumptions are those the modules declare: `IngestAssumption`,
`ParseAssumption`, `DeliveryAssumption`, `PresenceAssumption` and
`AccountsAssumption` (constants have their types, `None` is none of the keys),
and `NoneIsNoRow`, `NoneIsNoSession`, `NoneIsNoPcRow`, `NoneIsNoRawRow`,
`NoneIsNoDelivery` and those of `Accounts`: the marker for an absent row is not a
row.  `AlertPipelineProofs` needs none.  Counting adds `AddressesFinite` in
`AlertIngest`.  The modules over the tables assume of their constants what the
schema and the request schemas say: `TablesAssumption`, `KeysApart` (a key is of
one table), `StoredAssumption` (the tables at the start are in order), `WallBodies`,
`SiteBodies`, `FleetBodies` and `StreamRequests` (bodies have the columns and the
ranges that validation lets through; `ScreenSide` is at least 4, as automatic
layouts are laid out up to that), and `FleetAssumption` (`lay_{pc}` differs between PCs).

**The argument.**  `AckedIsDurable` is not inductive: a session at its reply must
have inserted its row, which must be under the key of the object it put.  So
`IngestInv` adds

* `SessionsComplete`: a session past its put holds a key that is stored, an
  accepted recipient and an address;
* `SessionsApart`: no two sessions hold the same key or work on one mail, so an
  insert of one never replaces the row of another;
* `RecipientsQueued`: the recipients of a running transaction are still queued
  and in one phase each, so that a reply is about copies nobody settled;
* `RowsOfSessions`: the row exists exactly from the insert on, and is of the
  session's mail;
* `RowsHaveObjects`: every row's bytes are stored.

The proof has a lemma per action: typed, keeps each conjunct, and maps to a step
of `MailCustody` or a stutter (`PersistRow` to `Store`, `Reply` to `Release`,
the 5xx answers to `Refuse`, everything else to a stutter).  The refinement uses
`SessionsComplete`, `RecipientsQueued` and `RowsOfSessions` in the step for
`Reply`.

For `Presence`, `SeenIsFresh` needs that the sweep is never overdue and that
whoever is registered was stamped since the last one (`StampedSinceSweep`), and
`RoutedToItsPc` that every entry was written with the token of its PC
(`EntriesPresented`).  `Register` is the action that can disturb all of them; its
dictionaries (`EnlistKeeps`) are proved apart from its stamp, as the failing
database shares them.

For `AlertParse`, what a worker has read must still be true when it writes
(`TaskOfRow`: the row is there and has the camera that was read, or none), the id
it has drawn must be nobody else's (`DraftIsNew`, `AlertsAreDrawn`), and a task
that hands over holds an alert (`HandsOver`).  `AlertOfItsCamera` is then the
foreign key at the commit together with `TaskOfRow`.

For `WebhookDelivery`, `AttemptsChained` speaks of the attempt before, and giving
up of all of them; the invariant has `Chained`, all earlier attempts of a chain
failed, for rows (`RowFacts`), queued retries (`RetriesInv`) and running tasks
(`TaskChained`).  That a failed row is never written again is `OwnRow`: the row a
worker is about to write is pending and no other worker holds it.  `LengthInv` has
the length of a chain: no task, queued retry or row is past the last attempt,
a row is `failed` before it and `giving_up` at it only.  `Answered`
ties the bookkeeping after a POST to `received`, `ForwardedInv` the verdict to a
success.

For `AlertPipeline`, no types are needed beyond the domains of the tables: every
holder of a message (a session past its put, a parse task, an alert, a delivery
task before its verdict, a row) holds one whose bytes are stored, and bytes are
never removed.

For `Accounts`, `RequestFacts` is what a request that stands before a step has
read and may rely on, `OthersMayGoOn` what the others may do to the tables
meanwhile; each action is shown to establish the first for its own request and
to satisfy the second for all others.  The two action properties follow from the
invariant at one step each: only `CommitRegistration` writes `origin`, and a
request that would take the rank from its own principal was refused when it was
checked, so a super admin who still stands at the commit is left over.

`NoDuplicateWithoutFault` and `OneSuccessPerChain` bound a number of rows, and a
step that adds one must be paid for.  `RowsAccounted` relates the rows of a mail to
the recipients that were settled, the faults, and whether a session is about to
answer for it (`Answering`): inserting a row turns the session into one that
answers, and that one settles a recipient or is lost, which is a fault.
`ChainsAccounted` adds up the successes of an alert at a consumer, the retries
that wait and the workers that are at it: no more than the delivery tasks that
were queued (`chains`) and the faults that made a task run again.

For the tables, `TablesInv` is about requests as much as about rows: a
transaction that waits for its commit writes rows and columns that fit
(`TypedRows`) and goes on at a step that exists with what that step needs
(`JobTyped`).  Requests of `Walls` and `SiteAssets` also purge only rows below which
nothing can dangle (`Cautious`).  Each handler has a
lemma (`...Begins`) that says so, and which tables and columns it writes at most
(`Within`); `AfterRows` says what a commit makes of each row, and the constraints
are those the database has just checked (`Holds`).  Mapping ids stay fresh because
a transaction has drawn its own from the sequence before.

`PlansInv` adds to it, for a request that nobody has overtaken (`alone`), what it
has checked: `Plan` has a conjunct for each rule, such as `PlacementsFit` (a
camera to be placed may be shown on its screen), `TeamsFree` and `MembersFree`
(no wall shows what a layout or a team is about to lose), `GridsClear`,
`AddressesDue` and `SlotsPlanned`.  Each handler has a lemma (`...Plans`) that its
early returns establish the plan; every commit either leaves all rows as they are
or ends `alone` for the others, so the plan holds at the commit (`Committed`).
The action properties are then facts about one transaction with its plan: which
rows of the table after it are new, changed or stay, and what the walks of
`team_enforcement.py` find from them.

`FleetProofs` takes `TablesInv` over: what the requests of `Fleet` prepare is typed
like the rest (`TypedRows`); `Cautious` is not asked of it, since an import purges
screens and views.  `FleetInv` adds to it

* `Memory`: `configure_pc_screens` has, at each of its steps, a screen to go on
  with and indices left for the others, whatever was committed meanwhile;
* `Course`, for a request that nobody has overtaken: the screens it has gone over
  are of its layout and of a name it gives, in the tables or in the transaction
  it is about to commit, and its cameras fit the team of its layout;
* `FleetPlanned`, for its next transaction: `FleetPlan` (which tables it writes,
  `CamerasPlaced`, `OthersSpared`) or, for an edit, the `Plan` of
  `TeamWallsProofs`; and `PcsPlan` of both (whoever is given a PC is a manager, a
  layout is of the PC's team or made for it).

`Course` is why the set-up is safe over several commits: the cameras were checked
before the first one, and each commit hands what the next relies on over to the
tables.  A step that changes rows is the commit of one request that was overtaken
or that had its plan (`FleetRowsChange`); the four action properties are facts
about such a commit.

`ConfigShowsTheWall` follows from the foreign keys in `TablesTypeOK` alone.  A
configuration is built from sequences made of sets, so the proof says that such
a sequence has every member (`InSomeOrder`) and that the number of a slot in
row-major order is that of a slot of the grid and back, by the division of a
number by the columns; no induction over data is left.

`StreamsAreDealtInOrder` is a fact about sequences, whatever the tables are.  A
place is its monitor, view, row and column (or screen, row, column and view), and
`ViewNumber` and `TileNumber` are its number: where its part starts and how far
into it it is.  Grids, monitors and whole requests are each shown to be numbered
in reading order without a gap (`RowMajorAt`, `MonitorInOrder`, `ViewsInOrder`,
`ScreenInOrder`, `TilesInOrder`), by one lemma on parts in a row (`PartNumber`) that
rests on the running totals (`StartsOf`, `StartsRise`, `StartsReach`).  The list of
cameras holds the wanted ones, each once and in the order of the request, and is
cut at the number of places (`CamerasChosen`); so the n-th place shows the n-th
camera, and the reference follows by counting (`DealtByNumber`).  Where an
induction is needed, over running totals or the entries of a list, it is one by
the smallest counterexample (`Smallest`, from `FleetProofs`), without the library's
theorems on induction.

The strengthened invariants were model-checked on the instances of the runs
before they were proved.

**Only model-checked:** all liveness (fairness and ENABLED are out of reach of
the prover).  Every invariant and every other action property that a run expects
to pass has a theorem.

## 6. Where the code and its comments differ

Shown by a run (`findings` in `PROJECT.json`):

* An alert whose worker died before the hand-over is never delivered
  (`pipeline_mid_task_crash`).
* A retry chain has five attempts, not the "Six attempts total" of
  `deliver_webhook.py:7`, `webhook_consumers.py:76` and `alerts.py:303`, and never
  uses the first wait: `_retry_delay` indexes the schedule with the attempt just
  made (`delivery_attempts`).  `GivingUpEndsTheChain` states the length the code has.
* A PC that imports its own configuration has an empty wall: the importer reads
  `site_id` as a device's id and the generator writes the site there
  (`fleet_reimport`).
* A PC without a layout that copies from a PC which shows the layout made for
  the first one empties the source (`fleet_copy`).

Observed while modelling, in the model's behaviours but without a run.

Alerting:

* A MinIO that cannot be reached bounces the mail: the comment promises 451
  (`smtp_ingest.py:214`), but only `S3Error` becomes the error that is caught
  (`minio_client.py:122`); anything else leaves the handler and is a 500.
* One message can get two alerts, "1:1 with RawMessage" (`models/alerting.py:133`):
  two copies of its task pass the check at `process_inbound_alert.py:117` before
  either inserts.
* A message that `passthrough` raises on (a Subject with raw 8-bit bytes) stays
  `received` and is retried every minute for ever: no path leads it to
  `parse_failed` (`models/alerting.py:84`, `process_inbound_alert.py:142`).
* A mail to two recipients becomes one row, for the address accepted last
  (`smtp_ingest.py:193`); the other camera gets no alert.
* An address revoked or quarantined between RCPT and DATA still receives that
  mail.
* A failed attempt whose retry could not be queued stays `failed`; nothing looks
  for such rows.
* `forward_failed` of one consumer may overwrite `forwarded` of another, since
  the check and the write are two statements.
* A consumer that is deleted in mid-task ends the loop for the consumers after
  it.
* An alert taken when no consumer is active is "held" in the log only: nothing
  delivers it later.
* Deleting a consumer cascades to its delivery rows, the audit trail the
  comment in `webhook_consumers.py:154` speaks of.
* The test of a webhook consumer "re-fires it to this consumer"
  (`webhook_consumers.py:179`); it queues the task that sends the alert to every
  active consumer (`WebhookDelivery`, `TestConsumer`).
* Two creations at the same time, or the rotation of an address that is already
  revoked, give a camera two active addresses; "at most one such row ...
  (enforced by the provisioning path)" (`alert_addresses.py:97`).  "Revoke +
  provision atomically" (`alert_addresses.py:196`) is two commits.

Presence:

* A `register` that runs after the `disconnect` of its own connection leaves an
  entry without a connection (`websocket_server.py:228`); "anything still listed
  is currently alive" (`websocket_server.py:389`).
* Two connections of one PC: when the newer one ends, the PC is not listed though
  the older one is open.

Accounts:

* Two super admins who remove each other at the same time leave none: each
  guard looks only at its own principal.
* Deleting a user who has sent an invitation that still exists ends in 500:
  SQLAlchemy empties `invited_by_id`, which is NOT NULL, where the model says
  `ondelete="CASCADE"` (`models/user.py:178`).  The entry `user.deleted` is
  committed by then.
* Two concurrent sends leave two open invitations for one e-mail; a revocation
  that saw an invitation unused deletes it though it was accepted meanwhile.  One
  invitation opens two accounts when the first one changes its e-mail while a
  second registration is under way (four requests, one more than the run has).

Teams and walls:

* Four operations place or move without asking the rule of
  `team_enforcement.py:8`: `assign_camera_to_slot` (`screens.py:1719`), a screen
  moved to another layout by `update_screen` (`screens.py:395`), and a device or
  a camera moved to another site.  They are the exceptions in
  `PlacementsKeepTheTeam`; it is the list to shorten when one of them is fixed.
* `update_screen_layout` moves a layout to another team while PCs of the old one
  hold it; `get_or_create_layout_for_pc` takes over `lay_{pc}` of another team if
  a PC of that id has left it (`pc_screen_configurator.py:57`).  Both are in
  `PcsKeepTheirTeam`.
* Every rule here is read by one statement and relied on by a later one, with no
  lock in between: the team of a camera, the role of a manager, the active address
  of a camera, the slots `replace_view_slots` compares a body with.  Two requests
  that overtake each other and that each pass can break the rule together.  The
  properties exempt them (`Overlapped`, `CommitsAlone`) and so cover the request
  that does not ask, or asks the wrong thing, not these races.
* `update_view` can shrink a grid under its cameras, `update_screen` removes
  them: `StraysComeFromViews`.
* A screen that moves stamps only the layout it comes to.
* Two requests that save a site's layout at the same time mix their slots: each
  deletes what was there when it looked.
* A manager that becomes a controller keeps the PCs it leads.

Set-up, import, copy:

* "to avoid ID conflicts" (`pc_screen_configurator.py:327`) counts the screens of
  the layout: a screen `lay_X_screen_1` that was moved to another layout is not
  counted and the insert fails.
* A set-up that fails between two commits leaves a screen without its views.
  Two screens of one name in a body are one screen: the second empties it, its
  views get the ids of the first one's, and the cameras are dealt to both lists of
  views, so that two of them on one slot are refused and a view that only the
  first had is an error.
* `distribute_cameras_and_create_mappings` returns before its own commit when it
  runs out of cameras; the stamp's commit takes the mappings along.
* An import of a screen with more than 16 tiles puts cameras into rows below the
  grid; views of an import are numbered from 0, and grids become square.
  Importing one PC's configuration into another collides on the ids of the views
  it names.
* A mapping may name any device, whatever the camera's own is; the generator
  goes by the camera.
* The generator walks the screen's grid only: what a view shows outside of it is
  not sent.
* Deploying marks a PC as `deployed` and sets `last_applied` once the message
  was handed to the socket (`pcs.py`, `_deploy_config_to_pcs`); that the PC was
  not listed comes back as an `error` event nobody reads.
* A stream request with explicit `camera_ids` and no slot still fetches a camera.

## 7. What is not modelled

Payloads, signatures, header authentication results, attachment content and
logging are data no property here is about.  `alert_media` is written in the
transaction of `alerts`.  Startup reconciliation of the ingest service is the
same sweep as beat's.  The database is assumed to commit atomically, MinIO to
keep what a completed put wrote.

In the management half names, URLs, contacts, stream addresses, colours and the
on-screen text of a configuration are left out; reads change nothing.  The audit
log is written in the transaction it records, but for the deletion of a user,
which `Accounts` has.

Left out as a whole:

* Retention and partition rollover (`tasks/alerting_maintenance.py`): DDL over
  calendar months.  What could be stated is about the month arithmetic and
  PostgreSQL's partitions.  A row leaves with its month, so media can stay two
  months where the API says "An alert older than 30 days returns `media: []`"
  (`alerts.py:180`).
* Snapshots: ffmpeg, images and files.  The batch lets five threads use one
  SQLAlchemy session, which SQLAlchemy leaves undefined, and declares a lock,
  `db_lock`, that nothing takes: a hazard, and no behaviour of a library to
  model from this code.
* `websocket_client.py` (`send_config_*`): called by tests only.
  `load_site_config` and `load_camera_config` are called by nothing.
* Login and refresh: signed tokens that no table keeps.  Service accounts and
  their tokens: single-row writes, and one query per call that reads them.
* Settings: key-value rows behind a cache in each process.  An update clears the
  cache of the process that took it, so the others keep the old value; the only
  reader is the test of the SMTP settings.  A bulk update commits key by key.
  The values masked for an answer are never flushed, as nothing commits after it.
* E-mail, RTSP and ffmpeg wrappers, application start-up: I/O without a state a
  property could be about.
