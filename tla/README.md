# Email gateway: a TLA+ development

This directory specifies the email gateway of this repository (a NestJS
backend in `nest-email-gateway/`, a Next.js dashboard in `frontend/`) in TLA+,
checks the specifications with TLC on small instances and proves the central
ones with TLAPS. Paths below are relative to the repository; `B/` is
`src/nest-email-gateway/src/`, `F/` is `src/frontend/`.

## 1. The system

One process (`k8s/app.yaml`, one replica; several overlap during a rollout)
serves REST and socket.io, and runs two BullMQ workers. PostgreSQL holds the
tables `user`, `client`, `mailbox`, `event`; Redis holds the two queues, the
channel `ws-events` and a counter. The dashboard is a single-page application
that reads lists over REST and refetches them when a socket event tells it to.

| part | state | operations | talks to |
|---|---|---|---|
| MailController, MailService | queue of outbound jobs | `send`, `listQueue`, worker `processSend` | BullMQ, `mailbox` (read), EventsService |
| WebhooksController | none | `gmail`, `microsoft` | `mailbox` (read), WorkerService |
| WorkerService | queue of inbound jobs | `enqueueInbound`, worker `process` | BullMQ, `mailbox` (read), EventsService |
| EventsService, EventsController | table `event` | `createNormalized`, `list` | WsGateway |
| MailboxesService, MailboxesController | tables `mailbox`, `client` | `saveTokens`, `refreshTokenExpiry`, lists, OAuth redirect and callback | WsGateway, OAuth providers |
| ClientsService | table `client` | `create`, `findAll` | WsGateway |
| WsGateway | three Redis connections, the counter in Redis, sockets | `emit`, `notify`, the subscriber's handler, `handleConnection` | Redis, every dashboard |
| AuthService | table `user` | start-up seeding and reset, `validateUser`, `login`, `changePassword` | JWT, bcrypt |
| SettingsService (reads the mailboxes' expiries), SystemController, HealthController, throttler, filters, configuration, migrations | none of their own | reads | - |
| dashboard pages, `useSocket`, `unreadLogs`, `LogNotificationProvider`, `useAuthStore` | React state, `localStorage` | fetch on mount, on a filter, on a socket event; forms for clients, mails, mailboxes | REST, socket.io |

What is hard about it, part by part:

* **Outbound mail.** BullMQ delivers at least once: a worker that loses its lock
  goes on unknowingly, the stalled-job checker gives the job to another, a
  throw is retried after a backoff. `processSend` writes its row in a `try`
  block and again in the `catch` block, with an INSERT whose answer may be
  lost after it committed. Correct means: a completed send left a row, rows
  are bounded and repeated only for a cause, statuses are true, every send
  settles.
* **Inbound mail.** The verdict on a mailbox's token is passed in the request
  and stored by a job that may run much later or twice; `process` swallows its
  errors. Correct means: what is acknowledged is in the queue or has been
  dealt with, a lost notification met a failure, a row agrees with the reply.
* **Linking mailboxes.** `saveTokens` makes up to six database calls without a
  transaction; `refreshTokenExpiry` writes back an entity it read earlier; and
  `POST /mailboxes/tokens` passes on a body of any shape.
  Correct means: a client keeps to one provider, an account is linked once,
  tokens belong to the account a link named.
* **Events.** A process publishes on one Redis connection, hears itself and the
  others on another and passes everything on to its own sockets; it subscribes
  before it has a handler, and reads a counter that others increment. Each of
  its connections may be lost, and then commands whose answers were lost are sent
  again. Correct means: each event once for each time it was sent, in one order for
  all, none lost on the way, the right count in the end.
* **Live pages.** A page refetches its list when it hears of a change, when its
  filter changes, when its own write is answered; answers arrive in any order,
  lists are read from two tables in two queries, a socket shared by components
  that count their users is disconnected by the last of them and connected by the
  next, in the order in which React runs cleanups and effects. Correct means: a
  page at rest shows what is stored, through the filter on the screen.
* **Unread logs.** An event may be heard again after a reconnection. Correct
  means: it is counted once.
* **Session.** A token is kept in three places that are set and removed by
  different code. Correct means: a tab sends what it shows, and one that is
  signed out gets to the form.
* **Accounts.** The administrator is created and reset by every process that
  starts, while requests change the password; each reads, compares, hashes and
  saves in separate calls. Correct means: only who knows the password replaces
  it, only users clear the duty to change it, every start succeeds.
* **OAuth.** What was asked for travels through the provider and comes back in
  any order, twice or never. Correct means: a mailbox is what somebody asked
  for, and "connected" is not said in vain.
* **A page's own state.** The logs page filters once more, by days of the
  browser's zone, what the server has filtered by days of UTC. The clients page
  alone keeps a domain from being added twice, by looking at a list that may be
  old. The compose page awaits an answer that may be lost, beside an input that
  keeps its own idea of the file. Whether a token is expired is decided in
  many places, by clocks read at different times. Correct means: rows that are due are
  shown, and domains, mails, drafts, files and verdicts go wrong only for a
  named cause.
`PROJECT.json` lists the hazards line by line, each with the properties that
would catch it going wrong.

## 2. Modules

| module | what it is |
|---|---|
| `JobQueue` | a BullMQ queue as both services use it (external): the lists a job is on, its lock, its runs, counted attempts and stalls |
| `OutboundMail` | `MailController.send`, `enqueueSend`, `processSend`, `createNormalized`, `listQueue` over `JobQueue` |
| `SendContract` | what `POST /mail/send` promises, without workers, retries or locks |
| `InboundMail` | the webhook handlers and `WorkerService.process` over `JobQueue` |
| `MailboxLinking` | `saveTokens`, `refreshTokenExpiry`, `clients.create` over the tables `client` and `mailbox` |
| `WsGateway` | `emit`, `notify`, the subscriber's handler and `handleConnection` of every process, with Redis and the sockets |
| `Dashboard` | one tab: the logs, mailboxes and clients pages with their socket, as far as they fetch lists |
| `Session` | the three copies of the token, the two redirects, the interceptors |
| `UnreadLogs` | the counter beside "Logs" in one tab |
| `Tab` | `Session` and `UnreadLogs` in one tab: which of its steps the counter notices |
| `Accounts` | `onModuleInit` and `changePassword` of `AuthService`, call by call |
| `OAuthFlow` | connecting a mailbox from the dialog to the last redirect |
| `LogsPage` | the two filters of the event log, on the server and on the page |
| `ClientsPage` | adding a client: the form, its check for duplicates, the POST and the lists |
| `ComposePage` | from a draft on the screen to a job in the queue |
| `TokenExpiry` | the comparisons of `tokenExpiresAt` with a clock that refuse something or are shown, and what three pages show of them |
| `Console` | the four of them, one page to a behaviour |
| `JobQueueProofs`, `OutboundMailProofs`, `InboundMailProofs`, `MailboxLinkingProofs`, `WsGatewayProofs`, `AccessProofs`, `DashboardProofs`, `ConsoleProofs` | the proofs |
| `MC...` | constants and symmetry sets for TLC |

`JobQueue` defines the operations as actions on its own variables; the two mail
modules EXTEND it and conjoin them with what the services do. A definition
named `X_Y` with the comment "Mutant" is `X` with a plausible slip in it; no
specification uses it. It shows that the property of the same row of
`PROJECT.json` can fail.

### OutboundMail

State: `JobQueue`'s variables; `token`, what `tokenExpiresAt` of each mailbox
amounts to; per worker `pc`, `cur`, `run`, `verdict`, the progress and the
local variables of one call of `processSend`; `events`, the rows it stored,
each with the call and the block (`try` or `catch`) that made it; `announced`,
the rows `createNormalized` went on to emit. `faults` and `seen` only record
what happened (failed calls; the states a mailbox had since the send).

| action | code |
|---|---|
| `Send` | `MailController.send`, `enqueueSend` |
| `TakeSend`, `DiscardSend`, `PromoteSend`, `StallSend` | BullMQ's side of the worker |
| `FindMailbox` | `findOne`, outside the `try` block |
| `TrySave`, `CatchSave` | the two calls of `createNormalized`; each may succeed, be refused for want of the mailbox row, or fail before or after it committed |
| `Return`, `Rethrow` | what BullMQ is told |
| `LoseLock`, `Crash`, `Restart` | a blocked event loop, the death of the process, the Deployment |
| `MailboxChanges` | `saveTokens`, `refreshTokenExpiry`, time |

### InboundMail

`expiry` per mailbox and `envExpiry` per endpoint are what the verdict is made
from (`IsExpired`). `Deliver`, `LookUp`, `Enqueue` and `Reply` are the parts of a
handler between its awaits: `Enqueue` is Redis taking the job, `Reply` the
handler going on once it knows, by when a worker may have finished the job.
`Abort` cuts the handler off before any of them. The worker is that of `OutboundMail`
with `process` in it: every failure is swallowed, so there is no `Rethrow`, and
no `attempts` option, so `MaxAttempts = 1`.

### MailboxLinking

One request is one call of `saveTokens` or `refreshTokenExpiry`; `pc` is the
database call it makes next, `ent` the entity in its hands. `SelectForSave`
and `UpdateRow` are TypeORM's `save`: it loads the row, compares columns and
updates those that differ, which is why an entity read early overwrites
columns nobody meant to change. A token is known by the request that brought
it. The body of `POST /mailboxes/tokens` has the type `any`: each of email,
provider, client and tokens may be missing (`LinkArgs`). A missing provider is
`NoProvider`, which is the empty string the code makes of it: it widens the lookup
(`Matches`) and is what an INSERT stores. A missing token is `undefined`, which
`save` leaves as it is. The tables start with what earlier requests left. `board` is what the dashboards were last told of each row, and `overlapped`
only records whether two requests were ever handled at the same time.

### WsGateway

Per process: `phase`, how far `onModuleInit` got and whether `redisSub` is
connected; `inbox`, what Redis sent on that connection; `asked` and `answers`, the
commands on `redisClient` that were not answered and what Redis answered to the first
of them; `pubs`, the PUBLISHes on `redisPub`, of which Redis has `executed` some. Per
dashboard: the process its socket is connected to, the events it got, the count
it was told. A connection to Redis is first in, first out; sending a command,
its execution and reading its answer are three steps.

Each of the three connections may be lost. `LoseSub` loses what was sent on it
and what is published until `Resubscribe`. The other two lose answers: ioredis keeps
the commands that were not answered and sends them again on the next connection,
without end, for `maxRetriesPerRequest` is null (B/shared/redis.provider.ts:8) and
`duplicate` copies the option. What Redis had executed of them it executes again:
`LosePub` publishes an event twice, `LoseClient` counts a notice twice. Nobody awaits
the answer to a PUBLISH, so the model has none; how many were read before the
connection was lost is chosen then (`n` of `LosePub`). A message is told from its
repetitions by the number of the copy, which is `resent` when it is published.

`due` and `gap` only record which events a dashboard can count on. Left out is what
cannot be reached: `emit` without `redisPub` (108-114), which `onModuleInit` always
sets, and the field `notificationCount`, which is read there only. `notify` has no
caller in `src/`; it is modelled because it is the only way the counter moves.

### Dashboard

`version` counts the committed changes of each kind, `pending` those not yet
emitted, `emitted` the events in their one order (what `WsGateway` shows of
them), `at` how many of them the socket has passed. A connection starts anywhere
in that order, since another process may be behind or ahead. (An event that is
published again looks to a page like a connection that goes back to it, here and in
`UnreadLogs`.) A request reads its
tables one by one (`Read`), is answered (`Arrive`) or fails. `users` is
`socketUsers` of `useSocket`. Its effect and its cleanup (`HookEffect`, `HookCleanup`)
and the effect of `LogNotificationProvider` (`ProviderEffect`) are operators of their
own, applied by `Navigate`, `SetFilter` and `Reload` in the order in which React runs
them: cleanups first, then effects, the page's before the provider's; a new filter
runs only those of the hook, since the path is the same. The answers hold versions instead
of rows: a list is as good as the versions it was read at.

### Session, UnreadLogs, Tab, Accounts, OAuthFlow

`UnreadLogs` numbers the events; `seen` is `seenEventIdsRef`, `found` the value
the counter had when the tab was loaded or the logs were opened last. It does
not say when a tab is loaded; `Tab` does. There each step is one of
the session, one of the counter or one of both: a 401 and a logout leave the logs and load
a document (`ToLogin`, `LoadDocument`), which empties `seen` but not the
stored counter, while the router's redirects keep both; and the provider, being
in the root layout, goes on counting on the login page (`Listen`).

`Session` keeps the copies apart: `local` ("token"), `stored` ("auth-storage"),
`mem` and `header` of each tab. `Unauthorized` is the interceptor of answers:
it removes the first of them only.

`Accounts` holds one row, the administrator's. `SelectForSave` and `UpdateRow`
are TypeORM's `save` again. `checked` records the password a request gave. The
email is `DEFAULT_ADMIN_EMAIL`, taken to be the same at every start.

`OAuthFlow` has one record per flow: the signed state, where it is (at the
provider, back with a code, exchanged, used), the account the user consented
with, the last redirect. `saveTokens` is one step here that may end after any of
its parts; `MailboxLinking` has them one by one.

### LogsPage, ClientsPage, ComposePage, TokenExpiry, Console

These pages share no state: each reads tables of its own, and what React keeps
for a page is gone when it is left. `Console` therefore runs one of them in a
behaviour, chosen at the start; it asks of the four what one run can check, and
says nothing about several at once (`Dashboard` does, for their lists).

| module | state | actions and code |
|---|---|---|
| `LogsPage` | `rows` (table `event`), the filters `chosen`, `queries` under way, the answer on show (`logs`, with the query it answers and the rows there were), `loading` | `SelectFilter`, `RefreshLogs`: `fetchLogs`; `ListEvents`: `EventsService.list` (`Selects`, `Newest`); `Keeps`, `filteredLogs`: the filter of the page |
| `ClientsPage` | `clients` in order of creation, `form`, `modal`, how far `adding` is, POSTs left behind (`abandoned`), `lists` under way, how many clients there were when the list on `shown` was read | `HandleAdd`, `Added`, `AddFails`, `LoseAdded`: `handleAdd` between its awaits; `SaveClient`: `ClientsService.create`; `ReadClients`, `ShowClients`: `findAll`, `fetchClients` |
| `ComposePage` | `draft` on the screen, the file the input shows (`picked`) and the one in the state (`attachment`), the POST awaited (`sending`), those under way, the jobs `queued` | `HandleSend`, `Sent`, `SendFails`, `LoseAnswer`: `handleSend` between its awaits; `Enqueue`: `MailController.send`; `Clear`: the reset button; `PickFile`: the input's `onChange` |
| `TokenExpiry` | the clock `now`, `expiry` per mailbox, the list a page waits for with the clock and the rows it was made from, the `board` on show | `ReadClock`, `ReadRows`: a request of the page, in the order in which its handler reads them; `Render`; the operators are the comparisons, one per place |

`faults`, `lost`, `dropped`, `meanwhile` and `cleared` only record what happened.
In `LogsPage` a provider is one of a set together with whether it is spelled as
the menu spells it, since the page compares spellings and the server folds them.
In `ClientsPage` a domain has spellings likewise. Times are hours, since zones are.
## 3. Runs

The bounds are constants named `Max...`, `Ids` and the sizes of the sets; each is
in a guard or is the set itself.

| run | instance | what it shows |
|---|---|---|
| `outbound_safety` | 1 send, 2 workers, 3 attempts (the code's), 1 stall (BullMQ's default), 3 failing calls | a completed send left a row; a send to an existing mailbox fails only after a failed call per attempt or by stalling; each further row has a failed call or a stall of its own; statuses were true since the send; an unannounced row met a failure |
| `outbound_live` | 1 send, 2 workers, 2 attempts, 1 stall, 1 failing call, fair | every behaviour is one of `SendContract`; every accepted send settles |
| `outbound_queue` | violation | `GET /mail/queue` shows a failed send as completed |
| `inbound` | 1 delivery, 2 workers, 2 failing calls, fair | what is acknowledged is in Redis, or left a row that agrees, or was lost to a failed call or to stalls; one that completed without a row met a failed call; rows are bounded; a row's verdict was right during the request and is the one that was answered; every queued notification settles |
| `linking` | 2 requests with any field missing, 1 address, 2 providers, 1 client, tables with or without a mailbox | always: tokens match what their link named, only rows without a client are ever doubled; until two requests overlap: provider consistency, expiry and tokens belong together, boards agree, a refresh leaves tokens alone |
| `ws_gateway` | 2 processes, 2 dashboards, an event and a notice, 1 unanswered GET at most when a dashboard connects, 1 loss of `redisPub` or `redisClient`, any of `redisSub` | each event once per connection, and once more for each time it was sent again, in one order, none lost between the publication and a connected dashboard; a sole notifier's dashboards end up showing the counter |
| `dashboard` | 3 live pages, 2 filters, 4 kinds of change, 2 changes, 3 requests per visit | a page at rest that shows the answer to its newest request and missed no event shows what is stored, through its filter; that includes a page whose socket nobody would connect again, which the order of effects has to exclude |
| `tab` | 1 tab, 3 tokens, 3 events, counter up to 4 | a tab sends the token it shows while it is accepted, and none if it shows none; an event is counted once, however often the tab hears it, through logins, loads and logouts |
| `session_expired` | violation, fair | a tab whose token expired does not get to the login form |
| `accounts` | 2 starts with any environment, 2 changes, fair | always: every start succeeds; until two of them overlap: a password that need not be changed was chosen in a change, a change needs the password it replaces, a reset takes effect |
| `oauth` | 1 page, 2 addresses, 2 clients, 2 flows, 2 secrets | a mailbox is what one flow asked for and consented to; "connected" means there is one |
| `console` | logs: 2 rows, limit 1, 2 queries, 5 times around the ends of a day, 3 zones; clients: 2 domains of 2 spellings, 4 clients, list of 2, 3 lists, 1 fault; compose: 1 file, 2 drafts, 3 POSTs; expiry: 2 mailboxes of 1 client, 2 lifetimes, 4 instants | the two filters hide only rows of that part of the day where zone and UTC differ; each duplicate domain costs a fault; a mail goes out twice only after a lost answer, a draft does not vanish, a file goes along; what a page calls expired is refused |

Why these bounds are enough. Sends, deliveries and requests meet only through
their mailbox, their client and the workers. Two workers are what it takes for
two runs of one job to overlap; a third could only repeat what the second
does after another stall, which `MaxStalledCount` excludes. One job suffices
because a worker has concurrency 1 and jobs share no row; the proofs are for any
number. One endpoint suffices for the webhooks: the two handlers differ in the
variable they take `envExpiry` from.
Attempts, stalls and faults have the smallest values at which both outcomes
of every guard happen. In `MailboxLinking` two requests are enough for each
race, and what a third would have left before is in the tables they start with. Two processes and two dashboards are what
order and delivery of events relate; two messages show a loss, a repetition and
an inversion, and one loss of a connection (`MaxLosses`) a repetition, whether of an
INCR or a PUBLISH. A page needs one request overtaken by another, with a change in
between, and one more after it. `MaxReplies`, `MaxChanges`, `MaxIssued`,
`MaxEvents`, `MaxFlows` and `MaxSecrets` bound the counters of those modules;
`FewUnread` cuts `tab` off where one more reload would only repeat.
The times of `console` are the hours on either side of every place where a day
of UTC or of a zone begins or ends (`EdgeTimes`); two rows with a limit of one make
the limit bite; the third list of the clients page is what it takes for one to
overtake another after an addition; three POSTs give a draft a lost answer, a
repetition and a third attempt; in four instants a token of lifetime 1 expires, is
refreshed and is judged late.

`CHECK_DEADLOCK FALSE` is set where requests run out and the system rests.

**Fairness.** A live process runs its call to the end (weak fairness of
`Proceed`: the event loop and the database driver always come back, with an
answer or an error), a dead one is restarted (the Deployment), and fetching,
promoting and checking for stalls happen as long as processes keep coming back
(strong fairness: a crash disables them for a while). Nothing is assumed of
crashes, lost locks and failing calls except that failing calls per job are
bounded; the stalls bound themselves. Nothing in `MailboxChanges` is fair. In
`Accounts` a start runs to its end and a failed one is made again (the
container restarts). In `Session` documents load, redirects happen and requests
are answered; fairness is strong there because the user may load the page again
at any moment, but does not do so for ever. It makes the violation stronger: the
tab goes round although everything it waits for happens.

**Findings.** (1) `listQueue` (B/mail/mail.service.ts:85) lists a send that
failed for good as `completed` (`outbound_queue`). (2) A 401 removes one of three
copies of the token, so the login page sends the tab back to the dashboard, and
so on (F/lib/api.ts:22, F/app/login/page.tsx:21; `session_expired`).

Where a property has the condition `~overlapped`, the code does not keep it when
two requests overlap, and removing the condition shows how: two links for an
unbound client both bind it (B/mailboxes/mailboxes.service.ts:87-102);
`refreshTokenExpiry` writes back tokens a link has replaced (58-62 there); the
second of two password changes replaces a password its sender did not give, and
one that overlaps a reset clears the duty to change (B/auth/auth.service.ts:117,
71). Two links of an account without a client are both inserted, since a null
`clientId` is beyond the unique constraint (B/entities/mailbox.entity.ts:15).
Nothing in the code keeps an address from being connected for two clients, or
ties the account that consented to the address that was typed
(B/mailboxes/mailboxes.controller.ts:243), so no property says so.

Nothing compares a new password with the old one: who chooses the temporary password
again has it without the duty to change it (B/auth/auth.service.ts:126-135;
`UnflaggedIsChosen` therefore says who cleared the flag and not which passwords have it).
What a body of `POST /mailboxes/tokens` leaves out has effects of its own
(B/mailboxes/mailboxes.service.ts:78-135): without a provider, which only a bound client
refuses, the tokens go into the first mailbox with that address and client, whichever provider it is of, or into a new one
whose provider is '' and which no binding of its client concerns, then or later; without
an access token an existing mailbox keeps its old token and gets a new expiry.

What the properties leave open because the code does: a dashboard that
reconnects may hear an event twice or miss one, and one that stays connected hears an
event twice whose PUBLISH was sent again (`OncePerSending` counts those, and so does
the counter, for an INCR); with two processes the count may go back until the next notice
(`CountSettles` asks for one that notifies); a page may stay on an older answer that
arrived last, and a page that missed an event stays as it is (`Undisturbed`
names both, and `QuietIsCurrent` says there is no third way);
a 401 in one tab removes the token another has just stored (`Tab` has
one tab). The settings page advertises `/webhook/outlook`, the server listens on
`/webhook/microsoft`; nothing here depends on it.

On the pages: text typed while a POST is awaited is gone when its answer comes
(F/app/dashboard/compose/page.tsx:68; `meanwhile` in `NothingVanishes`), and the
file's input goes on showing a file that later mails will not have, because
the same file picked again is no change (72; `stale` in `ShownFileIsSent`). With a
date chosen, the logs lack the last hours of that day (UTC) in a browser east
of Greenwich, and in one west of it all but the first hours (logs/page.tsx:97;
`MissingByZone` says which). The settings page alone takes a token without an expiry for
expired. Two admins, or one who sends again after a lost answer, can add a domain
twice, and domains older than the list can be added again without any fault.

## 4. Proofs

`OutboundMailProofs` proves `Spec => []Inv` for every set of sends, workers and
mailboxes and every number of attempts, stalls and faults. Assumed are
`QueueAssumption` (`NoWorker` is no worker, `MaxAttempts` is a positive and
`MaxStalledCount` a natural number) and `MailAssumption` (`NoJob` is no job,
each payload names a mailbox, `MaxFaults` is a natural number).

None of the safety properties is inductive. What holds them up:

* `QueueInv` (`JobQueueProofs`): each run of the processor is accounted for by
  a counted attempt, a stall or the present activation; locks are held on
  active jobs only; limits are kept. It bounds the runs of a job.
* `TaskInv`: a worker that holds a lock is in the job's latest run, and no two
  workers are in the same run: a late report concerns nobody.
* `RowInv`: a run leaves at most one row per block and none before it gets
  there. With `QueueInv` it bounds the rows.
* `RecordInv`: a run about to return has left a row.
* `FaultInv`: each counted attempt of a send whose mailbox always existed met a
  failed call, counting the one in progress.
* `CalmInv`: a send that never stalled has one worker at most.
* `CauseInv`: the rows of a send, the calls that may still leave one and the call
  that is to come are together at most one more than its failed calls and stalls.
* `StatusInv`: what a run knows of the mailbox was true since the send.

Each has a lemma that `Inv /\ Next` preserves it, with one step per action, and
`Invariance` puts them together. The theorems for the run properties follow.
Its last part proves `Spec => ImplementsContract`: each step of
`OutboundMail` is a step of `SendContract` or leaves its variables unchanged;
the bound on rows comes from `RowsAreCounted`, the rest from `Inv`.

`MailboxLinkingProofs` (from `LinkingAssumption`: rows are numbered, and the values that
stand for no address, no client, no provider, no token and the tokens there were at
first are not among the others) proves for any requests, accounts and clients the six properties of
run `linking`. Its lemmas first say what each action does to rows
(`FindMailboxLoads`, `UpdateSaves`, `InsertInserts`, ...; `NextIsStep` collects them), since
TypeORM's `save` is modelled column by column, by name. The invariant adds to the types
`ProgressInv` (where a request is tells what it asks for), `EntityInv` (the row in its
hands is stored, and matches what it asked for: rows are never deleted and do
not change their account, which is why even a stale entity leaves tokens where a
link may put them), `TokensInv`, and `ClientInv`, `ExpiryInv` and `BoardInv`, whose main parts hold
as long as no two overlapped: what a request has read is still so when it
writes. `AccountInv` needs no such condition for accounts with a client, where
the constraint decides.

`WsGatewayProofs` (from `GatewayAssumption`: `Nowhere` is no process, notices are
messages) proves the four properties of run `ws_gateway` for any processes,
dashboards and messages. Nothing in the state is the order of the events, so
`OrderInv` says there is one: numbers for the copies of messages that grow along every
inbox and every dashboard's events, those of the inbox after those already passed on.
`PlaceInv` makes each message publish once for each time it is sent (it is in one
command of one process, before or after the notice got its number), `DueInv` follows an event from the publication to the dashboards, and `CountInv`
follows the counter from the answers of Redis through the notices to what is shown,
for a process that is the only one to notify: `AnswersCurrent`, `PubsCurrent`,
`InboxCurrent` and `ShownCurrent` are its stations.

`DashboardProofs`, first part (from `DashboardAssumption`: there is a page without a
list, and a filter that selects all), proves `QuietIsCurrent`. It
needs to know why a page that is behind will not be quiet: `SocketWanted` (the hook of
the present page is the one that is counted, and somebody has connected the socket:
`LinkMoves` follows it through cleanups and effects), `Numbered` and
`OfThisFilter` (the newest list asked for has the present filter), `ToBeTold` (a change that
it missed has yet to be emitted, or was emitted after the list was asked for)
and `ToBeHeard` (the socket has yet to reach such an event, unless some
may be lost). At rest nothing is left to be emitted or heard, so nothing was missed.

Its second part (from `OAuthAssumption`: some secret is in use, only providers are
configured) proves `LinkedAsAsked` and `ConnectedIsLinked` for any number of
pages, flows and secrets. Both are kept by every step together with the types and
`CodesHaveAccounts` (a code stands for an account); `BecomesMoves` says once what
a callback changes of the sequence of flows, `WaitingKeepsInv` and
`SavingKeepsInv` treat the callbacks that leave the mailboxes alone and those
that save.

`AccessProofs`, first part (from `SessionAssumption`: no token is called `None` or
`nothing`), proves that the copies of the token only hold signed tokens, for
any number of tabs, and, for a browser with one tab (the theorem's assumption;
two tabs overwrite each other's token), `SendsWhatItShows`. It is not inductive:
`CopiesAgree` adds that localStorage lacks a token the store still has only once
the server refuses it, and that a refused token is never accepted again.

Its second part does the same for `Tab` (with `OneTab`: there is one) by showing that every
step of `Tab` is a step of `Session` or leaves its variables unchanged
(`TabSendsWhatItShows`). `EventsAreCountedOnce` rests on
`Counted`: the counter is at most what it was when the logs were opened or the
document was loaded, plus the events in `seen`, and these were heard.

Its third part (from `AccountsAssumption`: the weak password and the one made up
are neither chosen nor configured, nothing is both a start and a change) proves the three safety properties of run
`accounts` for any number of starts and changes. `AccountsInv` has `Asked`, which always
holds (each is about to save what it was asked to), and `Alone` and `Unflagged`, which
hold until two overlap: one at most is at work, the row is still what it
compared and selected, and it lacks the flag only after a finished change. `SaveIsWhole` then makes `save`, which only writes columns that
differ, write the whole row.

`InboundMailProofs` (from `QueueAssumption` and `InboundAssumption`) proves the four
invariants of run `inbound` for any number of deliveries, workers, mailboxes, stalls
and failing calls. Its `Inv` has `QueueInv` and, beside the types, `TaskInv` (a run of
`process` is that of the latest fetch as long as its worker has the lock),
`AttemptsInv` (a job is tried once), `HandlerInv` (what a handler has done at each
of its awaits), `RowInv` (a run leaves at most one row, with the verdict in the
job) and `LossInv` (a run about to end without a row met a failed call). One lemma
per conjunct says that every step keeps it; the lemmas `OthersLeaveRequests`,
`OthersLeaveWorkers` and `OthersLeaveRows` say once what the actions that do not
concern it leave alone.

`ConsoleProofs` proves first that `Spec` implies the specification of each page
(`PagesAreTheirOwn`), and then about a page alone.

* Logs, from `LogsAssumption` (times and dates are whole, zones go from -12 to 14): every
  answer holds the newest of the rows that its query selected (`LogsInv`), so it holds each
  row that is due (`NewEnough`), and the page drops such a row only for its day,
  which can only be for a zone (`HoursOfAnotherDay`).
* Clients, from `ClientsAssumption` (lists have a positive length, bounds are natural
  numbers): `Paid` counts what faults were spent on. A fault pays for a duplicate,
  for a POST that nobody awaits any more, or for the page being `Exposed`,
  which is to say about to let a duplicate through by a list that is behind. A
  client that is stored turns one of these into another (`OneOrTheOther`), so
  duplicates are never more than faults.
* Compose, from `ComposeAssumption`: `Awaited` (the POST awaited is under way, with the
  draft on the screen unless one was typed meanwhile), `OneAttempt` (of a draft, at
  most one POST whose answer was not lost is queued or may be, and the one of the
  draft on the screen is awaited) and `FilesAgree`.
* Expiry, from `ExpiryAssumption`: `JudgedInThePast` (a page judges by a clock read
  before, and each mailbox it calls expired has an expiry in its row that has passed
  since, or none on the settings page).

Each module states one type invariant, and no run spends time on it. All are proved, as parts
of the invariants above, but those of `UnreadLogs` and `TokenExpiry`, whose proofs
need only the part that they carry themselves.

The theorems state every safety and action property that a run checks and that
holds, and the refinement. Only model-checked are liveness (`Settles` in both mail modules,
`StartsSucceed`: temporal reasoning under fairness is beyond the prover) and the
two violations. The proofs speak of the models: what ties these to the code is reading
it, and what shows that a property can fail is its mutant.

## 5. Not modelled

`PROJECT.json` lists each part with its reason. Left out are:

* what nothing depends on: the contents of payloads (subjects, senders,
  attachments' bytes), texts, layout, styling, the navigation bar, the provider
  buttons of the OAuth dialog;
* what keeps no state: the throttler, filters, logging, health and system
  endpoints, the masked keys and webhook addresses of the settings page, the
  worker's health (a constant there). The validation pipe (B/main.ts:49) strips
  what a DTO does not name (`message` of the compose page, which
  `SendMailDto` lacks), before the handlers modelled here run;
* what nothing calls or reaches: `skip` and `cursor` of the list of events, the branch
  of `WsGateway.emit` without `redisPub` and the field `notificationCount`, which
  only that branch reads;
* two more places that compare an expiry with a clock, the count of active mailboxes
  on the overview and `tokenExpiryInfo`: they keep nothing and nothing depends on them;
* what happens once or never by the program itself: migrations, configuration,
  closing queues at shutdown (a crash in the models);
* two tabs that share their storage, and completed inbound jobs, which stay in
  Redis for ever (`JobQueue` has no bound on memory).

## 6. Plan

