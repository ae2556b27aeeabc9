# Specifications of my-discord-agent

my-discord-agent accepts messages from Discord, mail, RSS and schedules, runs an LLM
agent in a container for each, and delivers the answers to Discord. These modules
specify how it does that without losing, duplicating or reordering work, and how the
stores beside the ledger (sessions, archives, exports, cursors) keep agreeing with it.
All paths below are relative to `src/src/` unless they start with `docs/`.

## 1. The system

| Component | Source | State | Operations | Correct when |
|---|---|---|---|---|
| Job ledger | `queue/repository.ts` (SQLite) | tables `jobs`, `idempotency_keys`, `dead_letters`, `committed_conversations` | enqueue, claim, heartbeat, markRunning, commitResult, deadLetter, failAttempt, Bot admissions, late promotion of cron jobs, startup recovery, migration | a session is served one input at a time in order, a stale worker writes nothing, an input is settled once and for good |
| Poller and workers | `queue/poller.ts` | in-flight set, renewal timers, the payload of a row | poll, freeze identity, make a thread, run, settle, tell the source | of the agents a run waits for a session has one, and none that was lost answers; the attempts of a row agree; its source learns its end |
| Container manager | `agent/manager.ts`, `agent/active-run-registry.ts`, `sandbox/` | docker clients, containers, two pipes each, registry of active runs | spawn, ready handshake, payload, steer, stop, timeout, kill | an answer to /steer or /stop is true |
| Delivery outbox | `queue/delivery.ts`, table `deliveries` | one row per chunk | claim, create threads, post, promote sessions, record, notify | a row never lies about Discord; readers see a beginning of the answer in one place |
| RSS | `rss/store.ts`, `features/rss.ts`, `cron/jobs/rss-dispatch.ts` | articles, claims, dispatches | collect, claim, build, enqueue, settle, reconcile | read means delivered |
| Mail | `cron/jobs/mail.ts`, `features/mail.ts` | the unread flag at Graph, `mail_threads` | list, enqueue, route to a thread, mark read | marked read means answered, a route has one thread |
| Inference lock | `queue/inference-lock.ts` | owner, limit, slots, waiters, borrowed scopes | acquire, release, borrow, close | one provider within its limit, in order |
| Bot orchestration | `agent/bot-orchestration.ts`, `queue/session-admission.ts` | admission tickets | a running agent calls another synchronously | no circular wait |
| Intake and backfill | `discord/intake.ts`, `discord/backfill.ts` | a cursor per channel or thread | ingest live messages, recover missed ones | every message is one turn |
| Cron | `cron/runner.ts` | `state.json`, its copy in memory, in-flight set | tick, execute, record | a slot is served once, intervals recur |
| Sessions | `agent/session.ts`, `features/session-context/` | entries, archives | append, commit, clear, compact, build the context | the context is what was said since the last clear |
| Retention | `queue/retention.ts` | plan, export files | plan, archive, delete | what is deleted was exported |
| Tool calls | `proxy/`, `discord/tool-approval.ts`, `runtime/tool-runtime-client.ts` | tokens, pending approvals, tool containers | admit, approve, execute, cancel, revoke | what runs was approved and is still wanted, nothing stays behind |
| Saved posts | `integrations/x-saved/`, `cron/jobs/x-saved-media-download.ts` | archive tables, files | capture, look up, download, enrich | the archive says what is so, the backlog moves |
| Screen capture | `integrations/screen-capture/`, `features/screen-capture*.ts` | pictures, batches, days | upload, describe, report | no picture is forgotten |
| Issue triage | `cron/jobs/issue-triage.ts` | `state.json` of records | scan, enqueue, record | agents do not start each other |
| Memory export | `memory/export.ts`, `features/memory-export.ts` | ledger of exported turns | export in order, note | in order, twice only when nobody could note it |
| Tools, proxies, config, utilities | `tools/`, `proxy/credential-proxy-server.ts`, `config/`, `utils/` | none, or a cache | adapters, parsing | not modelled, section 7 |

Interactions:

- Sources, cron and intake call `enqueue`; the poller calls `claim` and settles a row
  under the fencing token it was given. The ledger is the only coordinator: a worker
  whose token is stale is refused.
- `commitResult` inserts the delivery rows in the same transaction. The delivery worker
  is a second loop, with leases of its own, and calls back the source of a row.
- The run of a row holds a slot of the inference lock. A run may call a Bot: that call
  takes an admission ticket in the *same* jobs table and borrows its parent's slot.
- An agent calls tools through the proxy under the token of its run; the end of the run
  revokes the token. Users reach a run through /steer, /stop and the click on an approval.
- Start (`index.ts` 69-192): kill every container found, migrate, open and recover the
  ledger, reconcile sources, recover channels, start the loops. A crash may come at any
  point; agent containers outlive the host, one that has not got its payload does not.

Hard behaviours: leases that lapse while their owner lives, Discord calls whose answer is
lost, crashes between a mutation and its record or between two stores, two orders (session
order and resource slots) that wait for each other, claims settled from several places,
state read before an await and used after it, files written in place.

## 2. Modules

| Module | Models | Uses |
|---|---|---|
| `JobQueue` | the ledger: one action per transaction | |
| `SessionFifo` | abstract: lanes served one at a time, one final verdict per input | |
| `JobQueueRefinement` | the mapping from ledger to lanes | `JobQueue`, `SessionFifo` |
| `JobQueueProofs` | theorems: types, order of a session, mutual exclusion; the tables agree, the newest claim settles, settled rows stay; the ledger implements the lanes | `JobQueueRefinement` |
| `Schema` | opening a ledger another release wrote, two processes at once | |
| `Poller` | poll loop, workers, Bot calls, containers, crash and start | `JobQueue` |
| `Worker` | one row through `processMessage`, in the detail Poller leaves out | `JobQueue`, refines `Poller` |
| `Delivery` | outbox worker, Discord, session promotion, RSS claims | |
| `DeliveryProofs` | theorems: the outbox is truthful, ordered and in line with the claims | `Delivery` |
| `PollerProofs` | theorem: an agent a run waits for has its session to itself among those, and a lost one never answers | `Poller`, `JobQueueProofs` |
| `AgentRunProofs` | theorems: what `/steer` and `/stop` report is so | `AgentRun` |
| `RssDispatch` | articles, batches, the dispatch handler, settlement, reconciliation | |
| `Mail` | unread mail, its jobs, the threads of routes | |
| `Intake` | one channel: live messages, backfill, cursors, archived threads, forums | |
| `AgentRun` | host and runner of a container, steering, stop, timeout, kill | |
| `ToolCall` | a call through the proxy: approval, execution, revocation, orphans | |
| `IntakeProofs` | theorem: every message becomes one turn, none is lost but in the cases named | `Intake` |
| `InferenceLock` | slots, waiters, borrowed scopes | |
| `BotCalls` | session order against the lock | `InferenceLock` |
| `CronRunner` | ticks, schedules, records and their file | |
| `Sessions` | turns, clear, compaction, contexts of both history modes | |
| `Retention` | plan, archive, delete while the ledger moves | |
| `XSaved` | captures, lookups, downloads, context | |
| `ScreenCapture` | uploads, consumer, batch summaries, daily reports | |
| `IssueTriage` | scans, records, agents that comment | |
| `MemoryExport` | turns, the export jobs, the backend | |
| `Services` | five parts of the host beside each other | `ToolCall`, `CronRunner`, `Poller`, `XSaved`, `BotCalls` |
| `Work` | three parts of the work of a row beside each other | `Worker`, `IssueTriage`, `MemoryExport` |
| `Stores` | seven stores that have to agree with another | `Sessions`, `Mail`, `RssDispatch`, `XSaved`, `Retention`, `ScreenCapture`, `Schema` |
| `StoresProofs` | theorems: pruning exports before it deletes; an article is read when readers got it, and once; a mail route has one thread; the archive says what is so; full batches and days are reported; an upgrade keeps the ledger; contexts stay exact | `Stores` |
| `ServicesProofs` | theorems: approvals, containers of tools, slots, lines of sessions | `Services` |
| `WorkProofs` | theorems: attempts agree; sources are told; a worker is one of `Poller`; agents start no agents without end; turns are exported in order | `Work` |

Root modules give the constants their values. `Services`, `Stores` and `Work` are
sums: `part` says which component a behaviour is of, the actions of the others never run
and their variables keep their initial values. The state spaces add up and do not
multiply; a property names the module it belongs to (`Feeds!ReadWasDelivered`), and
fairness is guarded with the part (`WF_queuePart(part = "queue" /\ Queue!Poll)`) so that
no condition is imposed on a component that is not running. The sums are general in
their constants, so that their properties can be proved; `MCServices`, `MCStores` and `MCWork` give them
values (and leave the ledger of `Schema` alone while another part is considered).

How state and actions correspond to the code, where it is not obvious:

**JobQueue.** `jobs[j]` is a row. `lease` is `none`, `held` or `lapsed`
(`lease_until` against now); `due` is `available_at <= now`; `admission` marks the ticket
of a Bot call, `provisioning` a cron job whose session awaits a thread. The callers are
the environment: `Work` lets *any* token ever issued be used again, so nothing relies on
callers that behave. `Claim(x)` is the whole `claim(excludeIds)`: first it dead-letters
exhausted rows with their keys, then claims at most one row. `enqueue` of a key that is
taken changes nothing and has no action. `settledBy` is history.

**Schema.** The version of a store, the shape of its jobs table, which later columns and
tables it has, its rows and chunks. `Read` is the read of the version outside of the
transaction, `Migrate` the transaction with all steps that follow, `Crash` rolls it back.
A process that has the ledger open claims and settles rows meanwhile.

**Poller.** A worker is a stage and the token it holds. The ledger changes only through
`Q!` actions. `RenewFails` aborts the work; `SettleFails` is a settling transaction that
throws. A run ends with docker's *client*, and mostly the container has ended by then (`Exit`).
`stray` holds the containers that have not: docker could not stop them (`Cut`), a forced /stop
kills the client first and `docker kill` comes later, or somebody else killed the client
(`ClientEnds`). They work on, beside the next run of their session, until they end
(`OrphanExits`) or the next start kills them.

**Worker.** One row, whose payload (`saved`) survives the process while the worker's copy
does not. `setup` is the kind of the row: with or without a source, in a channel or with a
thread to make, in a container or in process, unknown, or left by an old release. Each
step that writes, calls Discord or calls the source may fail; the process may crash between
any two. `ImplementsPoller` maps all steps before the container to Poller's waiting stage.

**Delivery.** `worker.at` is the `await` the single delivery loop is suspended at; each step
is one Discord mutation or one store write. `Mutate` gives the outcomes of a
mutation: applied and acknowledged, refused, or lost with or without effect. `Informed` and
`Expired` are the two UPDATEs that claiming runs first. `Verdict` is the RSS callback,
`Reconciled` the comparison at startup.

**RssDispatch.** `article` is the `rss_articles` table, `batch[d]` a dispatch with the end of
its job and of its delivery; `owed` is a callback the host is about to make. `disowned` is
history: articles that a handler released although their batch already had a job.

**Mail.** The unread flag at Graph is the only record of what is left to do. `mapping` is
`mail_threads`, `created` what Discord has made. A job is abstracted to its end and its chunks.

**Intake.** Message ids grow with time, scope 0 is the channel, a thread has the id of its
first message. `live[m]` is the await the handler of `m` is suspended at, `gate` the entry in
`pendingBackfills`, `scan` one call of `recoverMessages` with the set of messages left on its
page, taken from the oldest, and its cursor. Discord
calls may fail; the host may crash and start again with another `appendUserOnly`.

**AgentRun.** `host[r]` holds the variables of `sendMessage`'s promise, `runner[r]` the
container; `out` and `into` are the pipes, read a line at a time. Killing the docker client
closes the pipes and leaves the container running until `docker kill`. The client dies only by
the host's hand here. `AgentEnds` is the end of the agent, `LoopEnds` the return of
`runAgentLoop` and the closing of the controller: between the two the runner waits for stderr
and for messages being stored, and still takes instructions.

**ToolCall.** `approval`, Discord's `message` and docker's container are state of their own:
a click, the timeout, the update of the message and the abort of the call may come in any
order, and the host learns of the container late or never.

**InferenceLock, BotCalls.** `Pump` is `pump()`, run to completion by every operation that
may free a slot. The waiters are kept as what is in front of each (`ahead[r]`), which orders
them as the array does. `line[s]` is the sequence order of session `s`; a call that would have to
wait in it is refused (`failIfBlocked`).

**CronRunner.** Time is counted in half minutes and `lastRun` kept as its age. `writers` is
the lock all jobs share, `saving` what is being written; a crash while `saving` leaves a torn
file. A tick may come late by a minute at most.

**Sessions.** `store[s]` are the entries of the live session or of an archive, `run` what the
container and the host hold of the attempt. An attempt may end after any write. `since` is
history: the entries a context must show.

**Retention, XSaved, ScreenCapture, IssueTriage, MemoryExport.** Each has the tables or files
of its store, the cron job, consumer or queue job at work as a step with what it has read,
and the world (ledger, extension, uploader, GitHub, backend) moving between the steps.

## 3. Runs

| Run | Question | Bounds |
|---|---|---|
| `MCJobQueue` | is the ledger serial, fenced and consistent, and does it implement `SessionFifo`? | 3 rows, 2 sessions, 1 key whose source may reuse it, 2 attempts |
| `MCPoller` | does any interleaving with lapses, Bot calls, lost docker clients and one crash give a session two agents that runs wait for, or a lost agent's answer to a row? | 3 rows, 2 sessions, 1 crash |
| `MCDelivery` | is the outbox truthful, ordered and in line with the claims, and does an RSS claim settle? | an RSS response of two chunks, a new-thread and an item-thread response; 1 store fault, 1 crash |
| `MCIntake` | is every message one turn? | a text channel in each session mode and a forum; 3 messages, pages of 1, 2 failing calls or crashes |
| `MCAgentRun` | are the answers to /steer and /stop true and does everyone get one? | 1 run, 2 instructions, 2 mishaps |
| `MCServices` | five components with a question of progress | see below |
| `MCWork` | what the workers of the ledger do | see below |
| `MCStores` | seven stores that have to agree with another | see below |
| `DeliveryAmbiguous`, `ArchivedThreads`, `SteerAfterEnd`, `XSavedStarved` | counterexamples, section 6 | as small as the case allows |

Parts of `MCServices`:

| Part | Properties | Bounds |
|---|---|---|
| `tool` | `StartsAsApproved`, `RefusalTruthful`, `NoOrphan`, `RevokeEndsCalls` | 1 call, 2 failing calls to Discord or docker |
| `cron` | `RunsRecorded`, `IntervalsRecur` | an interval job and a cron expression, 1 crash or failing write |
| `queue` | `EveryRowSettles` | 2 rows of one session, 2 attempts, 1 crash |
| `posts` | `BacklogMoves` | 2 posts, 1 per run of the job, any failure |
| `calls` | `NoCircularWait`, `OneExecutionPerSession`, `Capacity`, `ServedInOrder` | 4 runs of 2 providers in 3 sessions, 2 calls of one run, limits 1 and 2 |

Parts of `MCWork`:

| Part | Properties | Bounds |
|---|---|---|
| `worker` | `AttemptsAgree`, `SourceTold`, `ImplementsPoller` | one row of each kind, 3 attempts, 1 crash, 3 failures |
| `issues` | `AgentsFeedNobody` | 2 issues that share the file of records, 1 crash, failure or change by a user |
| `export` | `ExportedInOrder` | two groups with 4 and 2 turns, batches of 2, 2 attempts, 3 ticks, 2 mishaps |

Parts of `MCStores`:

| Part | Properties | Bounds |
|---|---|---|
| `sessions` | `SessionsExact` | 4 jobs (turns of both modes, clear, compact), 2 attempts, 1 attempt that ends early |
| `mail` | `MailInOneThread` | 2 mails of a route, 2 chunks, 2 jobs each, 2 mishaps |
| `rss` | `ReadWasDelivered` | 2 articles of size 1 to 3, room for 2; 2 dispatchers with overlapping feeds, 2 batches; 1 crash, 1 fault, 1 revised article |
| `posts` | `ArchiveTruthful` | a post captured twice, 3 sources, 1 crash |
| `pruning` | `AuditComplete` | 2 jobs of 2 chunks, batches of 2, 2 runs |
| `screen` | `PicturesReported` | 4 pictures of 3 days, one of them unreadable, batches of 2, 2 faults |
| `schema` | `UpgradeKeepsLedger` | 4 rows in 2 sessions, 3 of them from an older release, 2 processes, 1 crash |

Why these bounds are enough. Conflicts in the ledger are between two rows of a session, with
a third for overtaking, in a second session for promotion; two attempts give one retry and
one exhausted row; a token reaches 2, so there is a stale one. One crash reaches every
cut point, since every step after a restart starts from what the crash left. Two chunks
make an order, and the three modes take the three code paths of `send`. Article sizes 1 to 3
against a room of 2 give articles that fit together, only alone, or not at all; delivering twice
takes two batches. Three messages with pages of one give a page before, at and after a
cursor. Four jobs of a conversation give a compaction of a compaction with a turn between.
A batch size below the number of pictures, turns or items makes a second batch. Limits of 1
and 2 make a release grant one or several waiters; the third case, parallel, needs no wait.

Every property has a mutant: a plausible bug in one mapped definition, written beside it as
`Mutant...`, for which TLC finds the property violated under the same configuration.

Deadlock is not checked where everything may end (all rows settled, all runs done). Rows
are symmetric in `MCJobQueue` and `MCPoller`; no liveness run uses symmetry.

### Fairness

Only steps the host or docker takes on its own are fair. Crashes, users, new inputs, lapsing
renewals, failures and everything named a mishap are not.

- `queue` (`Poller`): the event loop runs ready continuations, agents end by exit or timeout
  (`agent/manager.ts` 1259-1290), backoffs elapse, a lease nobody renews lapses, and the
  service manager restarts a crashed host (`service.sh`).
- `Delivery`: weak fairness on the steps of the loop. Strong fairness on claiming a
  given row: rows are served in the order of creation and a retried row waits out its
  delay, so others get their turn. `RssClaimSettles` excepts crashes and store faults, after
  which the claim may stay held (section 6).
- `AgentRun`: the host reads lines, the timeout fires, `docker kill` returns. The agent in
  the container is never assumed to end by itself.
- `tool`: handlers go on, docker answers. A click is not assumed: the approval times out.
- `cron`: time passes, the timer fires late but fires, admitted jobs end or fail, writes
  return, a Discord client that is away comes back.
- `posts`: the cron job goes on with what it has begun and is started again.
- `calls`: runs end, slots are returned, calls settle. A parent
  ends *by itself* only after its calls are answered, so nothing is owed to a timeout.

## 4. Refinement

- `ImplementsSessionFifo` (`MCJobQueue`): the ledger with its leases, tokens, tickets and
  promotions is a set of lanes, each served one input at a time, each input given one final
  verdict.
- `ImplementsPoller` (`MCWork`): a worker with threads, frozen identities and failing steps
  is the worker of `Poller`; so what `MCPoller` shows for several rows with coarse workers
  needs no second look inside the worker. `WorkersArePollers` proves it (section 5).

## 5. Proofs

All theorems hold for every value of the constants that meets the named assumption, and rest
on nothing else. No proved module uses a recursive operator.

**`JobQueueProofs`** (from `QueueAssumption`), in three parts. *Order.* `TypeCorrect` is inductive by itself. `SessionSerial`
is not: two rows of a session with the same sequence number would leave their order to
creation, and a promoted row moves to the end of another session. The invariant is
`TypeOK /\ SequenceUnique /\ SessionSerial`. `StepShape` reduces all actions of the ledger to three
shapes (a row is added at the end of its session, a row is promoted, or rows keep their place
and start only when nothing unsettled is before them), so that `OrderCorrect` and the
refinement argue about three cases. `MutualExclusion` follows: of two active rows of a
session one would be the earlier.

*Tables.* `LedgersAgree` relates four
tables, and its inductive form `Agreement == RowsAgree /\ KeysAgree` adds what a row must be
for a *stale* call to find nothing: the ticket of a Bot call has no key and token 0, so that no
worker can write to it; a token that settled a row is its newest; a key names a row exactly
when the row names the key. `NewestSettles` follows from it; `SettledRowsStay` is an action
property that only needs the types.

*Refinement.* A row that is added is an `Arrive` of `SessionFifo`, a promotion
and every other step a `Progress` or a stutter, again by `StepShape`; with the initial state
this gives `LedgerImplementsFifo`.

**`DeliveryProofs`** (from `DeliveryAssumption`). `StatusTruthful` speaks of rows, but a step writes
what the worker believes: the inductive invariant `DeliveryInv` adds `WorkerKnows` (what is
true at Discord and in the table at every `await`), `RowsInOrder` (a chunk that was attempted
and is not known as sent holds back the rest; only those may miss the id of the thread) and
`ClaimsSettled` (a claim that was settled stays right, because sent, failed and ambiguous rows
of RSS do not change). One lemma per operation of the table, one per step of the worker. From
it follow `TableTruthful`, `ReadTogether` and `ClaimsTruthful`, with any number of chunks, lost
answers, failing writes and crashes.

**`PollerProofs`** (from `PollerAssumption`). `LedgerWithin` shows that every step of the host is one
transaction of the ledger or leaves it alone, so that everything proved of the ledger holds in
the host too: `MutualExclusion` gives one row in progress per session. What is left is that an
agent stands for such a row. `HostInv` relates the three: an agent that is not `stray`
belongs to a row in progress under the claim that started it and, unless a crash
orphaned it, to a worker that waits for it; the ticket of a Bot call never gets a claim, so no
agent is started for it. A second agent of that kind would be a second row in progress. For
stray agents `StrayInv` says that the claim they were started under is over, or is the newest of
a row that is not completed and whose worker is gone or about to record a failure; `CleanInv`
that a process which has killed the orphans has none. So what such an agent writes to its pipe
nobody reads. `AttachedAgentsAlone` follows. It does *not* say that a session has one
container at work, which is false in the code (section 6).

**`StoresProofs`** (from `StoresAssumption`: articles and days are numbers, feeds are of articles,
pictures, rows and the jobs to prune are finitely many, the limits numbers, and the rows of an
earlier release come before the others). As in `Services`, an invariant of a part is one of the host.

- *Pruning.* The plan is read once, the ledger moves while the call awaits each archive file, and the
  rows are deleted from the plan. `PruneInv` says why this is safe: what was planned is
  `StillTrue`, as it was planned or already gone, because settled rows do not change; the key alone
  may have been taken over, and then a job the plan does not name guards it. A call that still
  archives has deleted nothing, and every call names its files anew, so that what a crashed call
  left behind is never taken for its own export. `ExportedFirst` follows for every size of a batch.
- *RSS, read.* The article a settlement marks read and the content of the job that settled it
  only meet through the claims. `RssInv` ties them: a claim names a batch that was made for one
  owner, the job of a batch carries every article the batch still holds, the content a handler is
  about to enqueue does too, and a result comes after the job. A second tick of the same owner, a
  crash between claim and enqueue, or a reconciliation can therefore take articles out of a batch
  but never put one in that its job does not carry.
- *RSS, once.* This is the opposite direction: what a batch in progress carries it must still
  hold, or another batch would carry it too. `OnceInv` says so (`Carriers`, with the articles a handler took
  from it as the exception), that all articles which wait for an owner wait in one
  batch (`OneOpen`), that the articles of a batch about to be enqueued are its own (`TicksHold`),
  and that a callback is owed only for an end (`ResultsInOrder`), so that a settlement never
  releases the articles of a batch in progress. `SettlingKeeps` and `OnwardKeeps` carry the two invariants over
  all steps that claim nothing; the two that claim share `Claims` and `ClaimsOnce`. `Fits`
  shows that the choice of the articles that fit a prompt exists, by a smallest counterexample. `ReadersGetArticlesOnce` follows.
- *Mail.* A worker resolves the thread, makes one, stores it and posts in four steps, and the host
  may stop between any two. `MailInv` counts the threads of a route at each of them
  (`ThreadsCounted`: as many as are excused, or one more that is stored or about to be), and keeps
  the chunk at hand marked as being sent until its outcome is written (`ChunkAtHand`), so that a
  message is marked read from a job whose chunks were all sent and stay so (`ReadAnswered`,
  `JobsProceed`); only the last job of a message may be active (`JobsInOrder`). `RoutesKeepOneThread` follows.
- *Saved posts.* `PostInv` ties the row of a file to the disk and to what the handler holds of it
  (`HandlerKnows`): while a download is at hand, no hint or lookup gives its row another source,
  since hints stop at the lookup and lookups at the phase before; what a phase has left to do
  was not condemned since (`CondemnedRests`). `ArchiveSaysWhatIsSo` follows, for any crash.
- *Pictures.* `Restless` says that whoever leaves a full batch has been told to look again, has a
  job or a callback to come, or failed. For the days, the check before a report and the commit of its
  job are two steps, and so are the end of the job and the move of the watermark. `Preparing`
  says that a day that came to light in between holds the report back by a picture nothing can
  complete, and `ReportsInOrder` that what a report passes over came late, so that the
  watermark may pass it too (`NonePassed`). `FullBatchesAndDaysReported` follows.
- *Upgrades.* A process takes the steps after the version it read, over whatever another made of
  the ledger meanwhile. `Follows` is what every step does to any sound ledger: on one in use
  it adds tables and keys and nothing else. The ten steps are therefore a chain of it, and `Stamped` says what a
  version read earlier still promises. `UpgradesKeepTheLedger` follows; that a session numbers its rows in order
  is a count (`PositionsInLine`) for those of an earlier release.
- *Sessions.* A context is spread over archives: from the live session back to the last checkpoint
  of its kind. `Segments` is the least set of sessions that this search covers (the code walks it in a
  loop), so the lemmas argue about closed sets and no induction along the log is
  needed: `TrailEnds` (a checkpoint of the kind, or none, and the live session is all), `TrailSame` (an entry
  that is no checkpoint moves nothing) and `TrailArchived` (a checkpoint of the *other* kind only
  puts the live session behind its archive). From these come what an append, a clear, a
  compaction and a commit do to the turns a context holds (`FullIds`, `FinalIds`). The invariant adds
  to `SessionsExact` that ids are given once, that every checkpoint has its archive and an operation that
  made one is noticed by its retries (`ArchivesStay`), and that what an attempt has read is still
  what the store holds when it compacts (`HeldIsSo`). `ContextsStayExact` follows for any number
  of jobs, attempts, clears and compactions.

**`AgentRunProofs`** (from `RunAssumption`). Neither property is inductive: both relate what the host
knows to what the runner did, over two pipes that lag behind. `RunInv` has, for each run, what
the host's promise says about the container (`StartOK`), that a closed control channel leaves
no instruction pending and a settled run is not in the registry (`ControlOK`), what each stage
of a `/stop` says about the container (`StopOK`), and what may stand in the pipes (`OutOK`,
`IntoOK`). The heart of it is in `OutOK`: each line the runner says once is there at most once,
and an acknowledgement given after the controller has closed comes behind the line that closes the
control channel, so that the host no longer waits for it when it reads it. One lemma per
action, over a few general ones for steps that close the channel, that leave the pipes alone,
and that the runner takes. `SteersTruthful` and `StopsHonoured` follow, with any number of runs,
instructions, cancellations and failing docker commands. `SteersTruthful` leaves open whether
the agent that got the instruction was through by then (`SteerAfterEnd`, section 6).

**`IntakeProofs`** (from `IntakeAssumption`). `ExactlyOneTurn` says what holds when a recovery is
through; the invariant has to say, at every point of a start, how each message nobody has
taken up will still be reached. `Missed` are those messages: turns without a job, a handler, a
reply to the sender or an exception. `InReach` follows one of them along its way: it is ahead
of the cursor of its scope while the host is down, ahead of what the start resumes from while
the threads are listed, in a thread that is still to do or on the page or ahead of the page that
is being read (`Scanned`), and there is none once the channel is open without its gate. A thread
without a cursor of its own (`Bare`) resumes from the cursor of the channel, which is why the
invariant keeps both. `AppendsSound` is the other half: what was appended without a job is
behind the cursor of the channel when a start recovers it, so a change of `appendUserOnly` makes
no second turn. `PageHoldsOldest`, from `OldestAreAPage` on finite sets of numbers, says that a
page that is not full is the last. `MessagesBecomeOneTurn` follows for every number of messages,
starts, crashes and failures, every page size and every kind of channel.

**`ServicesProofs`** (from `LinesAssumption`: every run has one provider, every call one run, and
limits are at least 1, and `IntervalAssumption`; the tool calls need no assumption). A step of `Services` is a step of one
part or leaves it alone (`ToolPart`, `LinePart`, `CronPart`), so an invariant of a part is one of the host.

- *Tool calls.* `ToolInv` relates the four rows of a call. `ApprovalSound`: an approval is asked
  for only by calls that need one, it is granted only after the update of the message to Approved
  has been confirmed and will not change again, and no call gets past its question without it; so
  an answer that comes late, a timed-out update and the correction after it cannot leave Denied
  over a call that ran. `ToolSound`: a client that is gone has seen its container end or gave up
  on it and says so. `RefusalsAreTruthful`, `NoContainerIsOrphaned` and the action property
  `ToolsStartAsApproved` follow.
- *Slots and lines.* `LineInv` has the order of the waiters (`ahead` is a strict order, total on
  those that wait, of finite sets), the owner and its limit (`OwnerSound`), the borrower of every
  lent slot, and for each session the line of those before. `GrantedInOrder` and `GrantedFits`
  are the facts about `pump`: those it grants are the oldest of the owner, as many as fit, which
  needs a count along the order. `SlotsWithinCapacity`, `ExecutionsAlone` and
  `SlotsServedInOrder` follow for any number of providers, limits, runs and calls.
- *Cron jobs.* `CronInv` says of each job what is on record of it against what it did
  (`RecordSound`): the last admission of an idle job that counts is recorded, a job whose record
  waits for the lock of the file is not idle, and what is being written is the record of the
  first in line. Ages stop at the greatest one that is told apart, so `AgedKeeps` (ageing keeps
  the order) is what carries this over time. `CronRunsRecorded` follows for any jobs and any
  interval.

**`WorkProofs`** (from `WorkAssumption`: the work of a handler has neither source nor thread, as
`HostQueueInput` has no such fields, queue/types.ts:102-106; files that do not parse are told
from records; the conversations are sequences; bounds that must be positive are).

- *The work of a row.* An agent runs with the worker's copy of the payload, the promise is about
  the row. `RowInv` says how far the copy may be ahead of the row at each step (`CopyAgrees`: by
  what is about to be written, and by nothing from the start of the container on), that who is
  at work on the row holds its newest claim (`RowHeld`), and that a thread that was made and not
  saved is one that is about to be saved, is counted, or belongs to a row at its end
  (`ThreadsCounted`). A write that fails, a lost answer and a crash therefore never let a second
  attempt start with another prompt or in another thread: `AttemptsAreOne`. `TellingDue` has what
  a worker still owes the source: past the freeze it always will tell it, before only what the
  code excepts; `SourcesAreTold` follows.
- *Worker and Poller.* `Seen` is the worker as `Poller` sees it. The initial state maps to an initial state
  (`PollerStarts`) and every step to a step of `Poller` or a stutter (`PollerSteps`), one lemma for
  the steps before the container, one each for the run, its end, the poll, crashes and the
  rest. That the container starts only under the claim, and that a worker which only tells the
  source is done unless its row could not be settled, comes from `RowInv`. `WorkersArePollers`
  follows, for rows of any kind and any number of crashes and failures.
- *Issues.* A scan takes its record from memory or a file, waits for GitHub, and records what it
  saw; agents comment meanwhile with the account of the user. `AgentsFeedNobody` bounds the
  agents, and `TriageInv` says how the bound is kept: what was queued and is still `Owes` (the agents
  that may come of the comments of those at work) is paid for by the changes of users, by crashes and
  failures (`Paid`), in terms of the record in memory or on disk and of the one each scan holds.
  `RecordsPast`: no record in memory, on disk or in the hands of a scan is ahead of its issue. `AgentsStartNobody` follows for any
  number of issues and jobs that share the file.
- *Memory export.* `ExportInv` relates the ledger of exported turns to what the backend accepted:
  a turn is noted, about to be noted by the job at work or in doubt, and every turn
  before one that was accepted, is being sent or was scanned is `Handled` (not eligible, deleted or
  accepted). A job that is killed between the answer and the note leaves a doubt and no gap.
  `TurnsExportedInOrder` follows for any conversations, sizes of batches and failures.

Only model-checked: everything temporal beyond invariants, action properties and the two
refinements. Liveness under fairness
(`RssClaimSettles`, `EveryoneAnswered`, `RevokeEndsCalls`, `IntervalsRecur`, `EveryRowSettles`,
`BacklogMoves`, `NoCircularWait`) is out of the prover's reach, as is induction over data.

## 6. Disagreements found

- `docs/config.md` 379 says that the RSS claim is released when a delivery fails,
  `ambiguous` included, and that startup compares stored results and claims. When the host
  crashes while a chunk is being sent, `claimDelivery` turns the row ambiguous without a
  call to the source. If a later chunk is still pending, it stays so (nothing passes an
  ambiguous chunk), and the comparison at startup requires all rows to be final: the claim is
  held forever, and it is this owner's first dispatch for good (`DeliveryAmbiguous`).
- `docs/config.md` 240 says that the recovery of existing threads takes in archived ones.
  `fetchThreads` (`discord/backfill.ts` 249-255) asks for active threads only: what was posted in
  a thread while the bot was down is lost if Discord archives the thread before the start
  (`ArchivedThreads`).
- The comment at `sandbox/agent-runner.ts` 880 says that steering is no longer accepted while the
  runner waits for the trajectory to be stored, since an agent that is through cannot be resumed.
  `runAgentLoop` itself waits for that (686-692) after the agent has ended and before the
  controller closes: a steer in between is stored, handed to the ended agent and reported as
  accepted (`SteerAfterEnd`).
- `docs/x-saved.md` 94 says that failures without a terminal error are retried. The files to
  download are ordered by id and not by the time of their last attempt, as the other two
  backlogs of the job are: failures with low ids take all places of every run
  (`XSavedStarved`).

Weak spots stated as exceptions:

- A dispatcher that ticks again while its batch is under way may release articles that the job
  carries (`DeliveredOnce` excepts `disowned`): readers may get them twice.
- A session may have two containers at work. A forced /stop kills docker's client, whose close
  settles the run at once (`agent/manager.ts` 1030-1034, 1292-1316); `docker kill` is only on its
  way, and the next row of the session starts while the first container still works. No docker
  command has to fail. The same holds of a container docker cannot stop and of one whose
  client was killed from outside. `OneAttachedAgent` speaks of the agents that runs wait for and
  only keeps the others from answering.
- The comment at `queue/source-handlers.ts` 25 says that RSS continues past a failed chunk.
  `deliveryBlocksOnFailure` would allow that, but `failDeliveryBatch` has already failed all
  remaining chunks (`delivery.ts` 593), as the model does.
- A job whose claims are used up, by crashes or failing writes, is dead-lettered by `claim`
  without a callback: its RSS claim stays until the next start. `docs/config.md` 379 reads as if
  it were released, though it speaks of a failing agent. `SourceTold` excepts it, and rows of an
  unknown kind, a callback that throws and a crash between the transition and the callback.
- Messages whose handler a crash cut off and messages of a thread without a cursor after an
  earlier start ended early are not recovered (`NothingLost`, a part of `ExactlyOneTurn`,
  excepts them, and the archived threads above).
- A thread whose id was lost with the host or a failing write is made again
  (`AttemptsAgree` and `OneThreadPerRoute` count those).
- Two loads of the records of issues may race at the first tick, before either holds the lock
  (`AgentsFeedNobody` counts the jobs that adds).
- A crash while `state.json` of the cron runner is written leaves a file no later start can
  parse; `RunsRecorded` and `IntervalsRecur` speak of hosts with a whole file.
- `RevokeEndsCalls` takes it that tools the host runs itself heed the signal that aborts them.
- `BacklogMoves` has finitely many captures: it says nothing of an endless stream of new posts.

## 7. Not modelled

- Texts: splitting into chunks, prompts, formatting, attachments, schemas of tools.
- `tools/`: adapters over external services and files without state that outlives a call.
- `proxy/credential-proxy-server.ts`, `proxy/google-auth.ts`: forwarding with a credential,
  a token cached until it expires.
- `queue/operator.ts`, `queue/observability.ts`, `queue/backup.ts`: reports and copies that
  change no row.
- `config/`: parsing. Only the limits pinned at startup matter to the models.
- `integrations/x-saved/`: the gallery and the classifier, with pages and labels of their own.
- A message sent to the thread of a cron conversation runs in the session of the thread
  while the row keeps its own: the ledger does not order the two, and no property says it does
  (`AttemptsAgree` is about the attempts of the row).
- `Candidates` of `JobQueue` leaves out that a row whose cron thread is still to be made holds
  the session of that thread back (`queue/repository.ts` 1435): the model may claim more.
- `Open` of `Delivery` leaves out the fallback that starts an item thread again from its parent
  message (`queue/delivery.ts` 241-255): it is for a thread somebody deleted, and users who
  delete threads are not modelled.
- Payload rewrites (`updatePayload`, `patchJobPayload`) are in `Worker`, not in `JobQueue`;
  the deletion of settled rows is in `Retention`.
