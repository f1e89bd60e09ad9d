# Alga: a TLA+ model of alerts, investigations, incidents and escalation

Alga receives alerts, groups them into investigations, gives the investigations
to agents (software that connects over an event stream and calls tools), turns
the serious ones into incidents and pages people until somebody answers. Several
replicas of one Go backend (`src/apps/backend`, paths below are relative to it)
share PostgreSQL, RabbitMQ and Valkey. Nearly all that is hard about it is what
happens between them: handlers, workers, sweeps, agents and operators write the
same rows and keys, each from a state it read earlier, and any of them may fail
or die half way.

The modules follow an alert through the system: the intake and its outbox, the
alert row, correlation and triage, the queue that creates the investigation, the
lease that elects a scheduler, the investigation rows of alerts and of
incidents, and the life cycle, SLA and escalation of the incident.

| module | models | theorems in |
|---|---|---|
| `AtLeastOnce` | what the intake promises (abstract) | |
| `AlertOutbox` | `webhook/receiver.go` (intake), `store/outbox.go`, `worker/outbox.go`, `worker/alert.go` | `AlertOutboxProofs` |
| `Alerts` | `store/alert.go`, the webhook's handling of one fingerprint, `api/alert.go`, dedup key and cancel set | `AlertsProofs` |
| `Correlator` | `correlator/correlator.go` | `TriageProofs` |
| `Triage` | `triage/worker.go`, composed with `Correlator` | `TriageProofs` |
| `InvestigateQueue` | `worker/investigate.go`, `worker/retry.go`, the retry queues | `InvestigateQueueProofs` |
| `LeaderLease` | `valkey/leader.go` and the scheduler goroutines that share it | `LeaderLeaseProofs` |
| `InvestigationLifecycle` | what the status column promises (abstract) | |
| `AlertInvestigation` | `store/alert_investigation*.go`, the alert pass of the scheduler, agent tools, operator actions | `AlertInvestigationProofs` |
| `IncidentInvestigation` | `store/incident_investigation.go`, the incident pass, the tools and requests on its rows | `IncidentInvestigationProofs` |
| `IncidentLifecycle` | the transition tables of `incident/lifecycle.go` (pure) | |
| `Escalation` | the incident row with `api/incident_lifecycle.go`, `worker/sla.go` and `worker/escalation*.go` | `EscalationProofs` |
| `MC*` | instances for TLC (constants, symmetry) | |

`PROJECT.json` maps each definition to the lines it stands for, lists the runs,
the mutants that show each property can fail, the finding and the hazards.

To check: `tlc -config LeaderLease.cfg MCLeaderLease` (and so on for the runs
below), `tlapm LeaderLeaseProofs.tla`.

## Inventory

| component | state | operations | what is hard | what makes it correct | module |
|---|---|---|---|---|---|
| Outbox and alert worker | rows with retry count, queues with retry numbers | enqueue, fetch, publish, mark, process, retry | published but not marked; counts from an old fetch; requeue with the old count | at least once; lost only after all its retries | `AlertOutbox` |
| Webhook receiver, alert rows | status, flags, dedup key, cancel set | fire, resolve, acknowledge, reopen, silence, delete, purge | the row read is not the row written; a key that outlives its row | one open alert; no firing alert swallowed | `Alerts` |
| Correlator | a list, a lock and a cooldown per key, with TTLs | append, buffer, flush, pop, reset | crash between publish and pop, expiring lock | every buffered alert reaches an investigation | `Correlator` |
| Triage | a decision per message | decide, apply, retry, fall back | some alerts done when one fails | the same | `Triage` |
| Investigate worker | dedupe token, retry number | create a row for a message | redelivery, crash between two stores, shutdown | no request is lost, each ends | `InvestigateQueue` |
| Leader lease | a key with TTL, a `held` flag per replica | Acquire, Renew, IsLeader, Release | late and lost answers, shared flag, expiry during a pass | unexpired leases never overlap; leadership does not die with its holder | `LeaderLease` |
| Scheduler, alert pass | attempts, backoff, per-pass snapshot of agents and load | sweep leases, list, claim, forward, give up | overlapping passes, crash between claim and forward, stale snapshot | nothing assigned without a deadline; nothing revived that is over | `AlertInvestigation` |
| Alert investigation rows | status, agent, lease, assignee, incident | guarded UPDATEs | check-then-write across transactions | only edges of the life cycle | `AlertInvestigation` |
| Agent tools, operator actions | none of their own | message, pause, cancel, promote, hand off, finalize, heartbeat; resolve, reopen, assign | acting on a row that was taken away, promoted or claimed | the same | `AlertInvestigation`, `IncidentInvestigation`, `Escalation` |
| Incident investigations | status, agent, lease | create, claim, dispatch, sweep, pause, cancel, assign | status writes without a guard, check-then-insert | a deadline for whoever is named; an open incident is worked on | `IncidentInvestigation` |
| Incident life cycle and SLA | status, stamps, breach markers | transitions, breaches | concurrent transitions, a stamp cleared late | only valid transitions; the clock of an open incident runs | `Escalation` |
| Escalation | a hash, a sorted set, two claim keys, level messages | start, page, seed, advance, answer, cancel | three publishers, entry removed before the page | every level is paged unless somebody answers; quiet after the end | `Escalation` |
| Incident worker | dedupe token | create an incident, name the commander, start the escalation | as for the investigate worker | as there | first escalation only |
| Agent health, candidate choice | success and failure counts, open circuits | record, choose | breaker that nothing closes | an agent that recovers is used again | |
| Presence, event streams | sessions per agent in a hash with TTL | register, renew, unregister | three commands for one decision | online iff a session lives | |
| ICS roles, on-call | role rows, schedules | assign, end, resolve, hand off | end of a role racing its assignment; time boundaries | | |
| Heartbeat monitors | last pings | ping, sweep | a ping racing the sweep | | |
| Notification, chat, email, voice | delivery log | send | input and output | | |
| Auth, crypto, knowledge, memory, frontend, SDKs | | | no protocol of their own | | |

What is not filled in the last column is not modelled; the reasons are below.

How they meet: the receiver writes alert rows and hands firing alerts to the
correlator; a flush or the triage worker publishes to the investigate queue; the
investigate worker inserts the row the scheduler then claims and dispatches;
agents and operators act on the row; promotion creates an incident, whose worker
names the on-call user commander and starts the escalation; the incident's own
investigations go through the same scheduler. Messages, keys and rows are all
they share, so each module ends where it hands over.

## The modules

### AtLeastOnce and AlertOutbox

`AtLeastOnce` has what the sender was told (`told`), how often processing failed
(`tries`), and the state of a notification: unknown, owed, processed, parked
(a row the outbox gave up, where an operator can see it) or lost. It may be lost
only after more than `Limit` failed tries. `AlertOutbox` has the webhook request
(`http`), the outbox row with its `retry_count` (`row`, `retry`, `due`), the scan of each
outbox worker with the counts it fetched (`listed`, `at`), the work and retry
queues with the deliveries (`queue`, `job`), the outcome (`processed`) and, as
history, the failed tries and the deliveries refused for good (`tries`,
`refused`). `handleWebhook` is
`Receive`, `Enqueue` (or one of its two errors), `Direct`, `Sync`, `Reply`; a
scan is `Fetch`, then per row `PublishRaw` and `MarkPublished`, or
`PublishRawError` and `IncrementRetry` or `MarkFailed`; the alert worker is
`Deliver`, `ProcessAlerts`, `PublishAlertRetry`, `Ack` and `DeadLetter`, which
keeps nothing: the broker has no route for a refused delivery (see Observations).
`PrunePublished` is retention. There is no
lock between the workers of two replicas, and none is modelled. `Faults` selects
what fails; `"wire"` is a publication that reports success and does not arrive
(the publisher uses no confirms).

### Alerts

All alerts of one fingerprint. `st`, `ack`, `sil`, `del`, `targets` and `recent`
are the rows, `tracked` and `cancel` the Valkey keys, `inv` what has become of
each alert's investigation. A handler `th[w]` is at a named step of the function
it runs; every store operation is a read (`SelectAlert`, `LookupOpen`,
`FindAlert`, `PurgeList`) and a write by id (`WriteResolved`, `WriteReopened`,
`DeleteAlert`, `PurgeRow`). A resolution and its timeline entry are two
statements, `WriteResolved` and `InsertEvent`; the entry is lost when the insert
fails, which is only logged, or the process dies before it. `Skip` is a command
that fails and whose error the handler only logs.
Processing of a notification is `IsDuplicate`, `VerifyDuplicate`, `LookupOpen`,
then `CreateFiring`, `MarkTracked`, `UpdateDeliveryTargets` and
`TriggerCorrelator`, or the path of a resolved one. The partial unique index on
open fingerprints is the guard `Insertable` and `Reopenable`.

### Correlator and Triage

One correlation key: `list`, `lock`, `cooldown` with their TTLs, a handler per
alert, flushers (timer, sweep, `Stop`) with the batch each peeked, the rows the
flush merges into, and the two queues. `Triage` EXTENDS `Correlator` with the
worker of the triage queue, since the two share the messages and the settled
alerts; its next-state relation is the composition. `mode` is one of the four
deployments (window or not, triage or not). `lost` records what the code gives up
or does not notice: the TTL of the list, an operator's reset, a merge whose error
is swallowed, what a torn flusher pops beside its batch, a publication that was
reported and did not arrive (`Send`), and a triage message that was refused after
its last retry and whose fallback failed or was not reached: the worker
publishes the fallback after the Nack, and the broker drops what it refuses.
`torn` are the flushers under which list or lock disappeared.

### InvestigateQueue

One message is one request for a row. `ready[m][n]` and `waiting[m][n]` count
its copies in the work queue and in retry queue `n`, `work` is the delivery a
replica handles (`live` while its channel is open), `token` the dedupe keys,
`rows` PostgreSQL, `dead` the dead-letter queue. A publication that reports
success may not arrive (`Arrives`, fault `"wire"`: there are no confirms), and a
refused delivery goes where its routing key leads (`Refuse`): to no queue, so
`dead` stays empty. The histories `tries`, `exhausted` and `unpublished` say how
a request that is gone was given up. `processInvestigation` is
`CancelCheck`, `TakeToken` (or `TokenError`), `Lookup`, `Create` (or
`CreateError`), `AckCreated`; `retryOrDeadLetter` is `Requeue`, `AckRequeued`,
`Release`, or `DeadLetter`. The broker is external: it redelivers what is not
acknowledged when a channel or a process goes away. One assumption about time: a
retry queue's TTL (a minute and more) is longer than the acknowledgement and the
deletion of the token that follow the publication (`Expire`).

### LeaderLease

`owner` and `ttl` are the key, `held` the flag of each replica's `LeaderLease`
value, `pc` and `reply` the place and the last answer of each goroutine. A
command is two actions: `RenewExec`/`AcquireExec` at the moment Valkey runs it
(or `...Error` when the caller sees an error, the command run or not) and
`RenewReturn`/`AcquireReturn` when the goroutine records the answer in the
shared flag. Between them the key may expire (`Tick`), the process stop or die
(`Stop`, `Crash`; the key of a dead process belongs to `Ghost`). `FlagLoops` are
the goroutines (hand-off tick, summary sweep) that only look at the flag.
`grant` is a history variable: how long the lease that admitted a pass lasts.

### InvestigationLifecycle and AlertInvestigation

`InvestigationLifecycle` has one variable, `status`, and one action per edge.

`AlertInvestigation` has the row (`status`, `agent`, `lease`), facts about it
(`human`, `incident`, `firing`, and `current`: its alerts still point to it),
how many rows of the rest of the table are pending (`others`, which may change at
any time: `OtherRows`), the agents' connections (`online`, `gone`), a pass per
replica (`pass`, with the pass's own snapshot of agents and loads),
`attempts` and `backoff` of each replica, and what each request read before it
writes (`req`, `reopen`, `due`, `checked`). Every SQL statement is one step with
the guard of its WHERE clause; what a handler does before it is an earlier step,
and anybody may act in between. Which handler is which action:

- `schedule`: `ExpireLeases` (or its error), `ListAgents`, `ListPending`, then
  for every row `SkipPending`, `Claim` or `ClaimError` (the claim may be written
  and its reload fail), and `GiveUp`, `ForwardOk` or `ForwardError`. `EndPass`
  is every early return and the 30 s timeout. Which candidate wins is left open,
  and so is which circuits are open. A listing is `Listings`: the pending rows,
  or `ListLimit` of them when there are more (200 in the code). The pass drops
  rows whose alerts have recovered, but keeps those it could not look up:
  `ListPending` takes any set between the two.
- `OnAgentOffline` runs once on every replica after `GoOffline`, at any time.
- a tool call: `RequestBegin` (read and authorize), `Acknowledge` if the row was
  assigned, then the tool: `Pause`, `CancelAlerts` and `CancelWrite`,
  `PromoteCheck` and `PromoteWrite`, `HandoffCheck` and `HandoffWrite`.
  `RequestEnd` is a refusal, an error or a message that changes no row.
- `CompleteIfAllAlertsResolved`: `ResolveAlert` or `Backstop` puts rows in `due`,
  the latter those of one listing; `CompleteCheck` reads and goes on only with
  the current investigation of the alerts, `CompleteWrite` writes,
  `CompleteLost` loses the call. `Supersede` is a newer investigation that takes
  the alerts over.
- `reopenLinkedInvestigations`: `ReopenAlert`, `ReopenRead`, then `ReopenResume`,
  or `ReopenClear` and `ReopenRequeue`.

A lease is the number of ticks left, so time needs no clock. The constant `Ops`
chooses which requests an instance has; it only removes behaviours. Passes of
different replicas overlap freely: `LeaderLease` shows grants to be exclusive,
but leadership is checked once, before the pass, and a pass (up to 30 s) may
outlive the lease (15 s).

### IncidentInvestigation

The rows of one incident (`status`, `agent`, `lease`) and their writers. Only
the claim, the sweep, the heartbeat and the disconnect have a guard in their
UPDATE; `WriteStatus` of the dispatch (`DispatchWrite`), the tools (`ToolWrite`)
and the assignment (`AssignSet`, `AssignWrite`) have none, and creation is
`CreateCheck` and `CreateInsert`. A tick ends the passes in progress, whose
context is over after 30 s, and with them the writes they had left. The
attempt counters and snapshots of `AlertInvestigation` are the same code and not
repeated. No row ever ends as completed, see Observations.

### IncidentLifecycle and Escalation

`IncidentLifecycle` holds the two tables: `validTransitions`, and the sources
and target each action hands to `TransitionIncidentStatus`.

`Escalation` has the incident row (`status`, `deleted`, the SLA stamps and due
targets), the breach markers and cancel set, the escalation state (`hash`,
`pending`, `claim`, `manual`), the bag of level messages, and five kinds of
process: `caller` (API requests, agent tools, phone and Slack answers), `pub`
(the three guarded publishers), `sla`, `sweep` and `worker`. A request is
`Request` (what it reads), `Transition` (the guarded UPDATE) and the steps that
follow it in the handler (`MarkAcknowledged`, `RemovePending`,
`ClearSLAResolvedAt`, `ClearBreachDedupKeys`, ...). A message is `Take`,
`Dispatch` (the page), `SeedHash`, `SeedPending`; a sweep is `AtomicClaim`,
`CheckAcknowledged`, then `Silenced`, `NextLevel`, `Exhausted` or `NothingToDo`,
`PublishAdvance`, `EscalateState`. `stopped` is a history variable: somebody
cancelled the escalation and nobody asked for one since.

## Runs

| run | cfg | shows |
|---|---|---|
| `outbox` | `AlertOutbox` | `KeepsPromise`: the intake implements `AtLeastOnce`; `GivenUpAfterTries`, `PublishedWasSent`; `QueuedComesToAnEnd`: what was answered 202 is processed, given up by the outbox, or dropped after its last retry |
| `alerts` | `Alerts` | `OneOpen`, `ResolvedOnce`, `FiringIsRecorded` under two concurrent handlers and a failing command |
| `triage` | `Triage` | `NothingVanishes`, `PopsItsBatch` in the four deployments |
| `queue` | `InvestigateQueue` | every fault: a request vanishes only as a dropped duplicate, by a publication that failed or never arrived, or after `MaxRetries` + 1 failed inserts; `Settles`: once processes and channels hold, each comes to rest |
| `lease` | `LeaderLease` | exclusive, backed, never stolen; passes keep coming once failures stop |
| `inv_overlap` | `AlertInvestigationOverlap` | two overlapping replicas, hand-offs: `AssignedHasLease`, `AttemptsBounded`, `Lifecycle` |
| `inv_requests` | `AlertInvestigationRequests` | cancel, promote, finalize, reopen against the pass: `OwnedHasLease`, `OverStaysOver`, `Lifecycle` |
| `inv_live` | `AlertInvestigationLive` | `AssignedMovesOn`, `SilenceIsSwept` |
| `inv_backstop` | `AlertInvestigationBackstop` | `RecoveredIsCompleted` while passes claim the row, its alert fires again, a newer row takes the alert over and other rows fill the listing |
| `incident_inv` | `IncidentInvestigation` | unguarded writes: `NamedAgentHasLease`; `DispatchMovesOn`, `SilentWorkReturns`, `OpenIncidentIsWorked` |
| `escalation` | `Escalation` | `LegalTransitions`, `OpenClockRuns`; `LadderIsClimbed`, `EndedGoesQuiet` |
| `esc_gives_up` | `EscalationGivesUp` | finding: the policy is repeated for ever |

`Lifecycle` and `KeepsPromise` are refinements: the abstract specification,
instantiated under a mapping, checked as a property of the detailed one.

### Bounds, and why they are enough

- `outbox` (240,895 states): one notification, since no statement reads two; two
  outbox workers, because the counters and marks race between workers; one alert
  worker; limits 2 and 1, so that a row can fail below, at and above the limit;
  `MaxCopies` 1, `MaxFailures` 2, `MaxCrashes` 1 bound copies, failed
  publications and crashes. Database, broker and crashes fail; `"wire"` is left
  out because with it the promise does not hold (see Proofs).
- `alerts` (900,837): two handlers of all ten kinds, two alert numbers (an old
  and a new alert of the fingerprint), four requests, one failing command.
  Three alerts add no pair of rows. A notification that finds all numbers used
  inserts nothing and is exempt from `FiringIsRecorded`.
- `triage` (561,668 with symmetry): two alerts (a buffered one and one that
  arrives later), two flushers, two investigation ids, one triage retry, one
  fault, in all four modes.
- `queue` (584,504): one message, two replicas, one retry, one publication
  (`MaxPublish`) and at most one more copy while none is queued (`MaxCopies`, by a
  lost channel or a crash). Messages do not interact; one retry has a first, a
  last and a refused attempt, and two replicas are what handles two copies at once.
- `lease`: two replicas, three goroutines in one and one in the other (two that
  ask, one that looks at the flag), TTL 3. A takeover needs two replicas, the
  shared flag two goroutines of one, and three ticks let a grant be younger than
  the key by more than one renewal.
- `inv_overlap`: two replicas, one agent, one row, leases of one tick, one
  attempt before giving up. No statement reads two rows except the count and the
  sweep, and neither takes part in these properties; a hand-off to the agent
  itself already writes after the sweep. The proofs cover many rows and agents.
- `inv_requests`: one replica, one agent, the requests that end and revive rows.
- `inv_live` (128,400): one replica, since the fairness is per pass; assign,
  message and pause so that rows can be taken from and kept by agents.
- `inv_backstop` (107,552): one row and one agent, so that the row can be
  claimed, swept, reopened, superseded and its completion lost, and a listing of
  one (`ListLimit`), which a pending row of the rest of the table (`MaxOthers` 1)
  may fill. Other runs have no other rows.
- `incident_inv` (297,824): two rows (creation and sweep relate them), one
  agent, overlapping passes of two replicas, one tool call, assignment or
  creation and one fault; the id of a row that is over stands for the next row,
  so rows are not bounded.
- `escalation` (210,186): two levels, no repetition, two requests at a time and
  in all, two sweeps, two workers, one fault. `esc_gives_up` has one of each, one
  repetition and no fault.

Deadlock checking is off where a system that has nothing left to do, or no
budget of the bounded requests and faults, may stop: the queues, outbox, alerts,
triage and escalation. It is on for the lease and the investigations.

### Fairness, and why the code justifies it

- `AlertOutbox`: tickers and handlers go on and backoffs end (weak fairness).
  The marks of a publication and the processing of a delivery are strongly fair:
  the database does not refuse them each time they are tried.
- `InvestigateQueue`: handlers go on, the broker delivers what is ready and
  retry queues expire (strong fairness for each message: a queue holds what others
  publish too). Nothing is assumed of the database, Valkey or the publisher:
  `Settles` lets a request end with its last retry or with a publication that
  failed. It asks for rest only once no process dies and no channel is lost any
  more (`Calm`), since either may bring a delivery back for ever.
- `LeaderLease`: tickers fire, commands and returns are handled, passes end (each
  has a timeout), time passes. Nothing makes a process stop or die.
  `PassesKeepComing` asks for progress only after failures have stopped.
- `AlertInvestigation`: time passes; a pass that started goes on; some replica
  starts passes again and again (`PassesKeepComing`) and not every sweep fails;
  the five-minute backstop runs (weak fairness of the action, none for a
  particular row), and neither its reads nor its writes fail for ever (strong
  fairness, since a completion call may be lost and made again). Agents and
  operators owe nothing. Which rows a listing shows is not fair at all: it is
  ordered by age, so old rows that nothing completes may keep others out.
  `RecoveredIsCompleted` therefore has the premise that from some time on the
  pending rows fit one listing, and it speaks of current rows only; TLC finds
  counterexamples without either.
- `IncidentInvestigation`: time, the lease sweep and the sweep for incidents
  without an investigation, and the writes of handlers that have begun. Passes,
  agents and operators owe nothing.
- `Escalation`: handlers that have begun go on, the queue is consumed, some
  sweep claims what is due (it ticks every 10 s), and waiting and silence end.
  Nobody has to answer, publish or resolve.

## Proofs

All of these are for every value of the constants, so for any number of
replicas, handlers, agents, rows, levels and faults within the assumptions named
in the modules.

`AlertOutboxProofs`: `OutboxTypes`, `PublishedRowsWereSent`,
`GivenUpOnlyAfterTries` and the refinement `IntakeKeepsPromise`. The counter is
not inductive alone, because `MarkFailed` writes a limit computed from an old
count: the invariant counts, beside the retry count of the row, the failures
each worker has seen and not written (`Failing`), and all of them together are
at most the history (`Paid`). The refinement needs that what a worker has in
hand is in the broker, processed, or has failed more often than there are
retries (`Held`, `Tracked`): every step either keeps a notification where it was
or moves it to where `State` still finds it (`Kept`). The last refusal lets go of
it, so the invariant counts: a copy with retry number n stands for n failed
tries, and the delivery that is refused adds the last.
It is stated for `"wire" \notin Faults`, because a publication that is lost after
it was reported leaves a row marked published and nothing to publish. Two
invariants under the same proviso say what the promise is worth in each state:
what was answered 202 is in the outbox, the broker, a handler or the alerts, or
has failed more than `MaxAlertRetries` times (`AnsweredAlwaysTracked`), and a row
the retention may remove is one whose notification has gone on or has failed as
often (`PrunedAlwaysHeld`).

`AlertsProofs`: `AlertTypes`, `OneOpenAlert`, `ResolutionsCountedOnce`,
`FiringNeverSwallowed`. The rows are handled by three kinds of step (`Move`);
a handler that answers without an error has seen an open alert (`Witnessed`)
because its last look found one or it created one; two open rows would need a
write past the unique index (`Single`). `ResolvedOnce` is an inequality in
general (the entries on the timeline and those on their way never outnumber the
resolutions) and an equality only without a fault and for rows that were not
purged; the invariant counts the handlers that have resolved and not yet written
(`Writers`).

`InvestigateQueueProofs`: `QueueTypes`, `LossOnlyByDrop`, `NoRequestLost`. Each
step hands the request from one place to the next (broker, handler, row), and
what lets go of it is the drop of a duplicate, a failed or lost publication, and
the refusal after the last retry. For the last the invariant counts: whatever
copy has retry number n, queued, waiting or handled, at least n inserts have
failed, so a refusal is the end of `MaxRetries` + 1 failures and not of
redeliveries or second copies. `NoRequestLost` is not a property of a run: where
neither processes nor channels nor Valkey fail
(`Faults \subseteq {"db", "publish", "wire"}`), no request is lost as a duplicate
(`NoneLost`), because whoever drops a delivery has seen a token that somebody
answers for (`TokensAnswered`): a handler still at work, a row, or a retry
already published.

`LeaderLeaseProofs`: `TypeCorrect`, `GrantsAlwaysBacked`, `LeaseExclusion`,
`LeaseNotStolen`. Exclusion is not inductive: it needs `GrantBacked`, that every
live grant is backed by a key of its replica which lives at least as long. Two
grants of two replicas would then need two owners of one key. A late answer
cannot break it because a grant is made when Valkey runs the command, not when
the answer is handled.

`AlertInvestigationProofs`: `InvestigationTypes`, `AssignedAlwaysLeased`,
`AttemptsAlwaysBounded` and, where `"handoff"` is not among the operations,
`OwnedAlwaysLeased`. Deadlines: only the claim makes a row assigned, and it sets
the lease in the same statement; only the sweep clears leases, and it takes the
row out of assigned in the same statement. For rows that name an agent the sweep
clears both; the hand-off is the one writer of `agent` that may come after it,
hence the assumption. Attempts: the counter exceeds the limit only in the state
in which the pass is about to give that row up, and no other step leaves it
there.

The same module proves the life cycle: `ImplementsLifecycle` (the rows refine
`InvestigationLifecycle` under the identity on `status`), `OverIsOver`,
`RowsAlwaysStay` and `PausedAlwaysWaits`. The strengthening `Known` says that
whatever a pass, a request, a reopen or a completion call is about to write
exists: without it an unguarded write could create a row. Given that, each action
is an edge or leaves statuses alone (`StatusStep`); the guard of each WHERE clause
is the guard of the edge, and the four theorems follow from that lemma. The last
two are not properties of a run: a row keeps a status once it has one, and a
paused row goes back to work by the operator's reopen alone.

`IncidentInvestigationProofs`: `IncidentRowTypes`, `NamedAgentAlwaysLeased`. A
writer that names an agent sets the deadline in the same statement and one that
clears the deadline clears the agent; the unguarded writes touch neither, but
they could write a row that does not exist, hence the strengthening that every
pending write names a row and a status of the table (`WritesNamed`).

`EscalationProofs`: `EscalationTypes`, `StatusFollowsLifecycle`,
`ResolveClockRuns`. The transitions follow from the tables (`Tables`: every
action's target is a valid transition of each of its sources) and from the guard
that repeats the sources in the UPDATE; for the clock the invariant says which
handlers can have a stamp still to clear (`Acting`). The types need that a
sweep that publishes has read a level of the policy. `EntryAlwaysHasLevel` is
the part of `LadderIsClimbed` that needs no fairness: unless something failed, an
escalation that is armed, or that a sweep has claimed, has a level in the hash,
so that no sweep drops it for the lack of one. The invariant adds that the level
a sweep is about to write is one (`WrittenLevels`).

`TriageProofs`: `TriageStateTypes`, `NoAlertVanishes`, `BatchIsPopped` and
`OnRecordForGood`, for any number of alerts, flushers and rows, in all four
modes. The invariant has a part for each hand-over, and none of them can be left
out of the induction:

- A flusher may only pop what is on record (`TakenPart`): at the pop, each alert
  of its batch is carried by a message, a row or a decision, or is in `lost`.
- The batch is what the pop removes, if the flusher is not torn (`LockPart`): it
  owns the lock, so nobody else popped, and its batch is a prefix of the list,
  because handlers append at the other end. The lemmas `PrefixOfAppend`,
  `PrefixIsHead` and `Cut` are about that.
- A torn flusher pops by length and may remove other alerts; the model, like
  the code, gives those up, and they are in `lost`.
- The triage worker has answered for the alerts it is done with (`JobPart`), so
  its acknowledgement takes nothing away. Once it has refused the message it is
  the only one to have it, and what it fails to publish then is in `lost`.
- All messages of one investigation name the same alerts, and the row of an
  investigation that is asked for has them (`AskedPart`). Therefore a delivery
  that is dropped because the row exists loses nothing. It rests on `RowPart`
  (the ids of rows were handed out) and `IdPart` (who appends has seen the row).

`OnRecordForGood` is an action property of that invariant: a step that lets go of
an alert which a message, a row or a decision has counts it as lost. From the
record an alert is therefore lost in two ways only, by a publication that was
reported and did not arrive, and by the failed fallback of a refused triage
message.
TLC checked the invariant, with one and with two faults, before it was proved.

Only model-checked: the liveness properties (`QueuedComesToAnEnd`, `Settles`,
`PassesKeepComing`, `AssignedMovesOn`, `SilenceIsSwept`, `RecoveredIsCompleted`,
`LadderIsClimbed`, `EndedGoesQuiet`, `DispatchMovesOn`, `SilentWorkReturns`,
`OpenIncidentIsWorked`). They rest on fairness, and so on ENABLED, which is
outside the reach of the prover. Every other property of a passing run is a
theorem.

## Finding

- `esc_gives_up`: with `repeat_count` above 0 a policy nobody answers is repeated
  for ever. The sweep decrements `repeat_remaining` and publishes level 1 again;
  the worker that handles it seeds the counter anew (`worker/escalation.go:161`).
  "If nobody ever responds, the policy loops through a few times and then gives
  up" (docs/on-call/escalation-policies.md:22).

### Observations

Further behaviours the models have, or that were met while reading for them,
which comments or documentation describe differently or not at all. Those of the
modelled parts show as counterexamples when stated as a property; they are not
kept as runs.

Lease and alert investigations:

- Two goroutines of a replica race through SET NX; the second is refused by its
  own replica's key and clears the shared flag, and the replica that owns the
  lease does not lead until it expires.
- The backstop that should complete assigned and investigating rows lists
  pending ones only.
- A pending row whose alerts a newer investigation took over is never completed:
  the backstop completes an alert's current investigation only
  (`store/alert_investigation.go:248`). Such rows stay pending, and as the
  listing has the 200 oldest (`store/alert_investigation_lifecycle.go:377`),
  enough of them keep every other row from being dispatched or completed.
- The attempt counter is deleted by every successful forward and by the sweep,
  so a row whose agents never acknowledge cycles for ever.
- A reopen demotes a row that was promoted after it was read; the guard of its
  write includes `promoted`.
- Two replicas may run passes at once ("Only one replica runs the investigation
  scheduler at a time", docs/operations/deployment.md:151), because a pass may
  outlive the lease that admitted it.
- After a command error `held` keeps its value, so `IsLeader` may still be true
  (comment at `valkey/leader.go:21`).
- The per-agent ceiling can be exceeded by overlapping passes
  (docs/operations/architecture.md:477), and a failed forward can take back a
  claim another replica has made since (line 479).
- An alert that fires again between the completion's read and write has its
  investigation completed.
- A row assigned to a user after the listing is claimed for an agent
  (`worker/scheduler_dispatch.go:434`).
- An agent that lost its row can still hand it to another
  (docs/agents/agent-api.md:117), and can leave an investigating row without a
  lease, which no sweep finds.
- A tool call that starts an assigned row does not renew its lease (comment at
  `worker/scheduler_dispatch.go:796`); an acknowledgement at the end of the lease
  changes the status and leaves the deadline (`api/agent/agent_tools.go:276`).
- `SetAlertInvestigationAssignee`'s caller updates the status by the row's UUID
  where a public id is expected, which matches nothing; `Assign` models that.
- `pickCandidate` puts the most loaded agent first while its comment says
  spread, and only a success closes an agent's circuit while an agent with an
  open circuit gets no dispatch (`worker/agent_health.go:35`).
- Two promotions of one investigation may both create an incident
  (`api/agent/agent_tools_incident.go:567`).

Dead letters, of all queues:

- Nothing reaches the dead-letter queue. `alga.dlx` is declared as a direct
  exchange (`rabbitmq/topology.go:89`) whose only binding is the literal key `#`
  (line 108), and the process queues name the exchange but no dead-letter routing
  key (114-117, 172-175, 213-216). A delivery that is refused for good keeps the
  key it came with, matches no binding and is dropped by the broker. The three
  models with a queue drop it, and their properties count it as lost: after the
  last retry, and nowhere else. Against it: "Dead-letter: final failure lands in
  `alga.dead_letter` for manual intervention"
  (docs/operations/architecture.md:499); "dead-lettered to the terminal DLQ only
  after the final stage is exhausted" (`rabbitmq/retry.go:13`).

Investigate queue:

- A graceful shutdown cancels the context of the handler it waits for; the retry
  is published, the token stays, the retry is dropped.
- A crash between the token and the insert makes the redelivery a duplicate of
  nothing; the request is lost. `worker/incident.go:125` has the same order, so
  there an incident is lost.
- The alert may be deleted between the cancellation check and the insert
  (`worker/investigate.go:158`).

Intake and outbox:

- A row can be published twice, by two workers or after a failed
  `MarkPublished`, while the comment at `worker/outbox.go:27` says at most once.
- The publisher uses no confirms, so a publication may be lost after it was
  reported; the outbox row is then marked published. The retry publications of
  all workers have the same gap (`rabbitmq/publisher.go:264`): the delivery is
  acknowledged after one that never arrived.
- `IncrementRetry` and `MarkFailed` have no guard on the status and may put a
  published row back.

Alerts:

- `UpdateStatus` and `UpdateDeliveryTargets` find the open alert of the
  fingerprint, which may be a newer one than the handler meant
  (`store/alert.go:511`).
- A failed chat update skips the completion of the investigation
  (`webhook/receiver.go:716`), and a failed insert in `handleFiring` is logged,
  not returned.
- The timeline entry of a resolution is a statement of its own whose error is
  logged (`store/alert.go:319`, 463, 502): a resolved alert may lack it.
- `DeleteOlderThan` purges by id what was reopened since it was listed.
- The Postgres check of `cancellation/cancellation.go:33` cannot report a
  deleted alert, because the lookup filters deleted rows.
- An alert deleted between the two reads of the by-number handlers is
  dereferenced as nil.

Correlator and triage:

- The list's TTL is the window (`correlator/correlator.go:61`, 91, 370), so it
  may expire before the timer that flushes it; what is in it is gone.
- `flushInvestigation` swallows the error of the merge (lines 568 to 577) and
  pops the batch all the same.
- A flusher whose list expired or was reset pops by length, so it may remove
  alerts nobody published; a crash leaves a lock that lives longer (60 s) than
  the default window (15 s).
- A triage decision below its gate is downgraded in the record only
  (`triage/triage.go:126` to 145), not in what the worker does.
- `handleRetry` refuses the message before the fallback is published
  (`triage/worker.go:222`): when the fallback fails or the process dies between,
  the alerts are in no queue and no row.

Incidents and escalation:

- An answer between a page and `seedLevel1State` is overwritten with
  `acknowledged = 0`, and the next level is paged
  (docs/on-call/escalation-policies.md:21).
- A reopened incident keeps `acknowledged = 1`, so a later escalate is refused
  (`escalation/cancel.go:52`).
- The claim expires after 60 s, after which an SLA breach starts an escalation
  that is under way again at level 1, which the comment at
  `worker/escalation_guards.go:57` excludes; the claim's HSET also resets
  `current_level` when its publication then fails.
- Between `AtomicClaim` and the return of the entry, a crash or a failed HGET ends
  the ladder (`worker/escalation_sweep.go:101` to 113); the ZREM of `dropEntry`
  may remove an entry that was armed anew.
- An SLA breach whose publication fails after its marker is set is not escalated
  for the 24 h the marker lives (`worker/sla.go:182`).
- The comment in `handleEscalateIncident` (lines 414 to 418) has the worker
  enforce the same guard, which it does not; the agents' `trigger_escalation`
  passes no guard at all.
- A resolution that overtakes a reopen's `ClearSLAResolvedAt` loses its stamp.
- `UpdateIncident` writes the whole row it read: an update in between is lost.

Incident investigations:

- They never complete: `webhook/receiver.go:780` looks the row up by its UUID
  where `GetIncidentInvestigation` expects the public id. Rows of incidents that
  have ended are dispatched again and again.
- Two active rows of one incident are possible (`store/incident_investigation.go:90`,
  no unique index).
- A dispatch's `investigating` written after a sweep leaves an investigating row
  with neither agent nor deadline, which no sweep finds and which keeps the
  incident from getting another. Late writes also revive cancelled and paused
  rows.
- A paused row is never resumed; a row assigned to a user that still has a
  deadline is swept and dispatched to an agent.

Not modelled parts:

- `Unregister` deletes a session, counts and deletes the key in three commands:
  a session registered in between is dropped until its next renewal
  (`valkey/presence.go:166`). The TTL is the hash's, so the field of a crashed
  session lives as long as another session renews it, and no offline event
  follows when that one ends.
- `MarkExpired` of a heartbeat has no guard, so it overwrites a ping that came
  after the listing, and if the alert cannot be ingested after it, none is fired
  until the monitor is pinged and missed again (`worker/heartbeat_sweep.go:60`).
- The scheduler assigns several responders to an incident, but the unique index
  on active roles admits one (`db/migrations/00006_incidents.sql:193`).

## Not modelled

Within the modelled parts: the content of messages, threads, prompts and audit
entries; the choice among candidates and the circuit breaker (free choices);
more than one alert per investigation in `AlertInvestigation` (an alert there is
the conjunction of them); how a correlation key is computed from labels, which
decision triage takes, whom a level pages; deletion of alert investigations
(`DeleteAlertInvestigation` and `RequeueAlertInvestigation` have no caller).
Isolation of PostgreSQL is taken as given: one statement is one step.

Simplifications of single actions, none of which a property depends on:

- `AlertInvestigation`: every row has an alert with a number (the backstop skips
  others, `worker/scheduler_dispatch.go:489`; deleting alerts is not modelled).
  `OnAgentOffline` is two UPDATEs taken as one, of which the second may fail;
  the incident transition of `autoAcknowledge` is left out of `ForwardOk`.
- `Escalation`: the HGETs of an exhausted policy and the ZREM and HSET after them
  are one step (`Exhausted`), so are the SETNX and HSETs of a claim (`Claim`);
  which policy a manual escalation takes is left open.
- `IncidentInvestigation`: `Tick` ends every pass in progress, also one that has
  just begun.

Whole components:

- Agent health: two counters and a set under a mutex of one process; nothing
  races, and the one consequence that matters (a circuit that stays open) is in
  the observations. The passes treat the choice as free, so they hold for any.
- Presence: `GoOnline`, `GoOffline` and the offline events that come late, twice
  or never stand for it in both investigation modules; the hash behind it is not
  modelled, and the properties hold for any answer it gives.
- On-call resolution and ICS roles: the first is a function of schedules and
  time, the second single statements under a unique index.
- Heartbeat monitors: an alert of theirs is a manual alert of `Alerts`.
- The incident worker beyond the escalation it starts: its token and retries are
  the code of `InvestigateQueue` over another table.
- Notification, email, voice and chat delivery: input and output.
- Authentication, crypto, knowledge, memory, the human API's queries, the
  frontend, the agent program and the SDKs: no protocol of their own.

## What could follow

1. Presence with sessions, TTL and the disconnect grace, composed with the role
   assignment and its teardown.
2. The promotion of an alert investigation composed with the creation of the
   incident (double promotion, an incident without its worker's message).
3. The heartbeat sweep composed with `Alerts`.
4. A refinement for `Triage`: an abstract buffer whose alerts are taken, on record
   or given up, of which `NoAlertVanishes` and `OnRecordForGood` are the two
   halves.
