# A verification project for the Apex agent control plane

This directory holds TLA+ models of the Apex agent control plane, the TLC
configurations that check them, and TLAPS proofs. Two systems of the repository
carry its own logic and are modelled:

* the out-of-band control channel, by which an operator stops, pauses, resumes or
  instructs a running agent (`apps/control-plane-api`, the outbox of
  `crates/apex-durability`): two durable stores written one after the other,
  three background workers, several replicas over one database, a journal that is
  replayed after a crash, a two-person approval kept in memory;
* the managed MCP proxies: an operation journal with leases in the control plane,
  an agent that makes containers on a host, gateway processes that serve under
  short grants, and the calls that go through them (`CP/proxy`,
  `apps/proxy-runtime-agent`, `apps/mcp-gateway`).

Beside them stand the operator sessions of the browser edge, where concurrent
requests share tokens that may be used only once.

Paths below are relative to the repository; `CP` is
`apps/control-plane-api/src`, `DUR` is `crates/apex-durability/src/outbox`.

## 1. Inventory

| Component | State | Operations | Hard behaviour | What makes it correct |
|---|---|---|---|---|
| Command inbox, decision logic (`CP/inbox/state.rs`) | entries, insertion order, tombstones, per-scope counts, sequence | record, claim, acknowledge, cancel, retire, expire, status, list | quotas at the limit, reuse of an identity, late sweeps | exact accounting; at most one outcome; no redelivery inside the retention window; eventual hand-over |
| Journal-backed inbox (`CP/inbox/file.rs`) | the above, an append-only file, an open handle | append, compact, load, and the inbox calls | failed, partial and unsynced writes, crash anywhere, replay | the disk is never behind memory or behind what was handed out; its own journal always loads |
| Postgres inbox (`CP/inbox_postgres.rs`) | rows, row and advisory locks | the inbox calls as transactions | claims by several replicas, clocks read before the locks, lost answers | implements the contract the other backends implement |
| Outbox (`DUR/file_ops.rs`, `file.rs`, `postgres.rs`, `postgres_replay.rs`, `memory.rs`) | rows: pending, complete, quarantined; attempts; next attempt | enqueue, complete, reschedule, quarantine, requeue, expire, limited reads | duplicate and conflicting identities, leases, journal replay | one event per identity until it expires; rows only move as their state allows |
| Submission (`CP/service/submit.rs`, `CP/envelope.rs`) | none of its own | outbox commit, then inbox record | failure between the two | what is answered is kept; audit and delivery agree |
| Retention and repair workers (`CP/startup/service/workers.rs`) | none of their own | sweep both stores; re-record lost deliveries | reads and writes interleaved with everything | lost records are repaired; what is over stays over |
| Dual approval (`CP/dual_approval.rs`) | in-memory table with expiry and capacity | submit | overlapping calls, restart, identity reuse | two distinct operators behind each `force_stop` |
| Fan-out worker (`CP/replay.rs`) | failures and backoff in memory | claim, publish, settle, reschedule, quarantine | lapsed leases, lost acknowledgements, failing statements | complete means published; every row is decided |
| Polling and acknowledgement (`CP/service/poll.rs`), queries and cancel (`query.rs`) | none | claim, acknowledge, cancel, status, list | at-least-once delivery | from the inbox |
| Admission and status (`CP/service.rs`, `CP/status.rs`) | token buckets, counters | admit | limits | refuses before any state changes |
| Authentication (`CP/auth.rs`, `agent_auth.rs`, `keycloak/`) | key caches | verify | cryptography, I/O | - |
| Proxy store (`CP/proxy/store/postgres*`) | the proxy's row, revisions, operations by generation, lease, attempt, evidence intents | draft, publish, accept, lease, prepare, observe, relay | compare-and-set by several writers, stale jobs, lapsed leases, crash between submit and mark | the row is what the journal says; outcomes are final; all evidence arrives |
| Proxy controller (`CP/proxy/runtime_controller.rs`, `operation_worker.rs`) | jobs in flight | lease, dispatch, checkpoint, observe; relay | several controllers, clocks behind, no answer | one identity order per fence |
| Proxy runtime agent (`apps/proxy-runtime-agent`) | a record per proxy, containers, staged files | reconcile, provision, clean up | stop after any durable step, creates of unknown outcome | created once; nothing forgotten; nothing left behind |
| Serving store and grant owner (`CP/proxy/store/postgres/serving*`, `apps/mcp-gateway/src/managed/authority`) | deployments, selection, decisions; the grant a process holds | register, ready, select, withdraw, terminate, renew | delayed and repeated messages, relative durations | one process serves; it stops in time |
| Call admission (`CP/proxy/store/postgres/admissions`, `apps/mcp-gateway/src/managed/call-owner.ts`) | reservations, a counter, jobs | authorize, dispatch, complete, release | lost answers, dead processes | the limit holds of what is really upstream |
| Browser edge (`CP/browser/`) | login attempts, sessions, login quota | login, callback, load, refresh, logout, prune | pages that refresh together, uncertain exchanges, logout in between | tokens are presented once; revoked stays revoked; logins are limited |
| Event ingest (`apps/event-ingest`) | idempotency records, outbox | accept | duplicates | one event per identity |
| Agent supervisor (`apps/agent-supervisor`) | a process group | poll, enact, acknowledge | at-least-once enactment | - |
| Governance, operator UI, SDK, reference providers, shared crates | little | - | mostly I/O, types, presentation | - |

How the parts interact. An operator's `SubmitCommand` commits an audit event to
the outbox and then records a delivery in the inbox, two stores without a common
transaction. Agents poll the inbox and acknowledge; operators cancel. The
fan-out worker of each replica takes outbox rows to the broker. Every 5 s the
repair worker compares outbox and inbox and records deliveries that are missing;
every 60 s the retention worker expires both. `force_stop` first passes the
approval gate.

A managed proxy starts with a draft and a published revision. An accepted
operation opens a generation and writes the proxy's row, the journal and an
evidence intent in one transaction; the relay takes the intents to the control
outbox. A controller leases the newest operation under a fence, prepares a
command, and sends it to the agent, which asks back at each effect whether the
request is still current. A container that came up registers its deployment, is
found ready and selected, and serves as long as it renews its grant; each call
through it reserves its place first and gives it back when it is closed. The
hazards of all this, each at its line, are in
`PROJECT.json`.

## 2. Modules

| Module | Models | Built from |
|---|---|---|
| `InboxState` | the methods of `InboxState` as operators from state to state | - |
| `CommandInbox` | the inbox as its callers see it, with clock, order and tombstones; implements `InboxContract` | `InboxState`, `InboxContract` |
| `FileInbox` | the journal-backed inbox with I/O failures, crashes and replay | `CommandInbox` |
| `EventOutbox` | the outbox's rows as operators (as `FileOutbox` keeps them) | - |
| `ControlGateway` | submissions, workers, agents and operators over one outbox and one inbox, with restarts; implements `InboxContract` | `InboxState`, `EventOutbox`, `InboxContract` |
| `ForceStop` | the approval gate, single and bulk submission, the audit event and its recovery | - |
| `FanoutWorker` | the fan-out workers of several replicas over one Postgres outbox | - |
| `InboxContract` | what each backend of the trait `CommandInbox` promises: the abstract specification of the inbox | - |
| `PostgresInbox` | the Postgres inbox statement by statement; implements `InboxContract` | `InboxState`, `InboxContract` |
| `ProxyOperations` | the life of one proxy: row, revisions, journal, lease, attempt, evidence relay | - |
| `RuntimeAgent` | the agent and its container engine, composed with the above | `ProxyOperations` |
| `ServingGrants` | which process may serve: the serving store and the grant owners | - |
| `CallAdmission` | the calls on top of the grants | `ServingGrants` |
| `BrowserSessions` | logins, sessions, refreshes and logouts of the browser edge | - |
| `InboxProofs` | theorems | `CommandInbox` and `FileInbox` |
| `PostgresInboxProofs`, `ControlGatewayProofs`, `ForceStopProofs`, `FanoutProofs`, `BrowserSessionsProofs` | theorems | the module each is named after (`FanoutWorker` for the fourth) |
| `ProxyProofs`, `ServingGrantsProofs` | theorems | `ProxyOperations` and `RuntimeAgent`; `ServingGrants` and `CallAdmission` |
| `MC*` | small instances for TLC | the module each is named after |

`PROJECT.json` maps each definition to the lines it stands for.

### State and actions

*InboxState, CommandInbox.* A key is the triple (workspace, namespace,
command_id) and a scope the pair; of a command only the target agent is kept
besides, because no operation reads more. `inbox` is the struct, field by field.
Each call is atomic, as under the backend's mutex. `Acknowledge` takes any
attempt number an agent may name. `Sweep` is `maintain` followed by the clean-up
of `order` that its compaction performs, as in the journal-backed inbox (the
in-memory one, for tests and embedding, keeps everything). `settled_at` is a history variable no
action reads.

*FileInbox.* The memory, the clock and `settled_at` are those of `CommandInbox`;
`FileRecord`, `FileClaim`, `FileAcknowledge`, `FileCancel` and `FileSweep` are its
actions with their durable step. `journal` is the sequence of records in the file, `file_open` the
`Option<File>`. An append ends in one of four ways: durable, nothing written,
written but reported as failed (only the sync failed), or cut off. A compaction
ends in three: done, nothing changed, or the file could not be reopened, with the
new or with the old journal in place. Every caller rolls back exactly what the
code rolls back. `Crash` and `CrashInAppend` lose memory and keep the file, in
the second case with any prefix of the batch and perhaps a cut-off record.
`Restart` is `load`, which goes through the journal record by record (`LoadStep`)
and fails closed.

*EventOutbox, ControlGateway.* A call is two steps, `Submit` and
`SubmitRecords`/`SubmitFails`, with anything in between. A repair pass is two
reads followed by one record at a time; a sweep is two steps with one captured
`now`. `WorkerStatementFails` is a failing step of either. The fan-out worker
appears only by what it does to rows. `minted` is the time inside a UUIDv7
command_id, which bounds how long the id is accepted. It is taken to be the time
of the first submission, which leaves the id its longest life (the five minutes
of clock skew that the code allows are short next to a tick).
A restart ends calls, passes and sweeps and opens the inbox again. The PostgreSQL
inbox is as it was. The file inbox is what `load` makes of its journal: `Reloaded`
loses the share that tombstones have in the counts of their scopes, and the
commands are renumbered in their order; `ReloadRefused` says when `load` refuses
a command as over a ceiling, in which case the gateway does not start (`up`).
`FileInbox` derives both from the journal record by record; on its instance TLC
finds that its `Load` and these two operators agree wherever the journal is whole.
The in-memory inbox, which a restart empties, is for tests and embedding and not modelled
across one.

*ForceStop.* A call carries its stage (status lookup, gate, commit, record);
between stages everything else may happen. The outbox keeps the audit event, in
which a `force_stop` is a `stop` whose reason has the marker in front, and
`Reconcile` rebuilds the command from it. A reason is what it begins with: `marks`
counts the markers an operator wrote there, which the grammar of a reason permits
(`is_scope_identifier`, `crates/apex-domain/src/validation/identifiers.rs:84`).
`AuditEvent` adds one for a `force_stop`, and `CommandOf` reads every `stop` that
has one as a `force_stop` with one less, as the code does.

*FanoutWorker.* A pass of a worker is a chain of steps (claim, publish one event,
settle, defer or exhaust one failed event, give up), each interleaved with the
other replicas. Statements act on rows by state, exactly as their `WHERE`
clauses do; a failing statement changes nothing. `Malformed` are the rows whose
envelope does not decode or validate: a claim takes them with the others and
quarantines them in a second statement, and if that fails the whole batch is lost
to its lease. `claims` and `carried` are histories for `QuarantineIsEarned`: the
claims since the last requeue, and what each replica had counted before it. Deadlines are counters of ticks
left, so that time is unbounded in a finite state space.

*PostgresInbox.* `session` is what each connection's transaction has done so far;
a step is a statement, and its row locks last until the transaction ends. `record`
is a lookup, the counts under the scope's advisory lock, and the insert; `claim`
is a scan of a batch at a time with `SKIP LOCKED`, and an update. A call carries
a `now` read up to `Skew` before its statement. `Lost` is a broken connection: its
transaction is rolled back, and the retry is a new call.

*ProxyOperations.* Every transaction locks the proxy's row first, so each is one
action. A job is named by its fence; a job that stops is one that is not
continued. `Expire` ends a lease at any moment. What the agent answers is any
answer `validate_response` accepts.

*RuntimeAgent.* One action per durable save or external effect of
`provision::run` and `cleanup`, with `GiveUp` (an error or a crash) in between.
The authority's answer to a checkpoint is read from the journal of
`ProxyOperations` at that moment and may be stale one step later. `creating`
holds creates of unknown outcome, which the engine finishes or drops at any time.

*ServingGrants, CallAdmission.* A renewal or a reservation is a request in
`sent` (or a call in a step), which the authority serves at any later moment,
possibly more than once; a reply may be lost. A closed grant is accepted like any
other; that the process stops because of it is a step of its own (`grants.ts:25`).
The controller is the holder of
the lease. `active` is what a process counts; `row` and `counter` are the store's.

*BrowserSessions.* A request's handler holds what it read; between two
transactions everything else may happen, and any request may be abandoned. The
provider counts how often each token is presented. Row and sealed bundle (`Seal`)
carry generation and expiries separately, and `Opens` compares them as `bundle.rs`
does. `deleted` is a history of the sessions whose row was pruned.

## 3. Runs

| Run | Result | Distinct states | What it shows |
|---|---|---|---|
| `command_inbox` | passes | 172,895 | accounting, order, the contract, the idempotency window, hand-over |
| `postgres_inbox` | passes | 508,820 (up to symmetry) | the same contract, over capacity by at most one row per other connection |
| `file_inbox` | passes | 716,040 | disk ahead of memory, deliveries counted on disk, settled stays settled |
| `control_gateway` | passes | 568,902 | stores agree, answered is kept, lost records are repaired, the contract of the inbox holds across restarts |
| `force_stop` | passes | 2.4 million (up to symmetry) | every `force_stop` is accounted for, delivered as ordered |
| `fanout_worker` | passes | 320,657 | complete means published, quarantine is earned, late writes ignored, every row decided |
| `proxy_operations` | passes | 307,787 | row and journal agree, identities follow fences, outcomes are final, evidence arrives |
| `runtime_agent` | passes | 3.3 million | created once, containers are recorded, reported is settled |
| `call_admission` | passes | 1.8 million (up to symmetry) | one process serves, grants are not believed too long, stops in time, never revived, the limit |
| `browser_sessions` | passes | 2.5 million (up to symmetry) | tokens once, live rows open, never resurrected, admission rate |
| `file_inbox_replay` | violated: `JournalReplayable` | - | a journal written without any fault is refused at the next start |
| `force_stop_bulk` | violated: `TwoApprovers` | - | the bulk path has no gate |

The runs expected to be violated each check one sentence of the repository
against what the code does; `PROJECT.json` ("findings") quotes the sentence and
tells the story. Each property of a passing run comes with a mutated definition
(marked "Mutant of" in its comment) under which TLC does find it violated.

### Properties worth knowing

* `ScopeAccounting`: the count kept by four different methods equals the number
  of identities the scope occupies.
* `IdempotencyWindow`: an identity reported settled is not recorded again for a
  whole retention window after the report, whatever the sweep's timing.
* `DiskAheadOfMemory`, `HandedOutIsDurable`, `SettledStaysSettled`: what replay
  would rebuild now is at least what memory holds and what agents were given.
  The first two exclude a journal with a cut-off record (replay refuses it, and
  an operator decides), the third a journal in which a write was reported as
  failed although it is there.
* `AnsweredIsKept`, `PassRepairs`, `LostRecordRepaired`: the two halves of an
  accepted command come together again. Two cases are outside the last two. Rows
  beyond a full batch of their kind are hidden from a pass (`Backlogged`); the run
  contains such backlogs. And an identity that was already settled, whose tombstone
  has expired, is owed nothing: the code may record it again (section 6), and no
  property asks for that.
* `AuditMatchesDelivery`: the trace and the agent see the same command.
* `ContractKept`: what agents and operators see of the gateway's inbox is a
  behaviour of `InboxContract`, whichever of its two recorders wrote and across
  restarts. The quota of a scope is not part of it (`ScopeQuota <- Capacity`),
  because a reload of the file inbox loses it (`file_inbox_replay`).
* `ImplementsContract`: `CommandInbox` and `PostgresInbox` both implement
  `InboxContract`, by mapping their rows (and tombstones) to `commands`. The first
  does so with `Slack = 0`, the second with one command of slack per further
  connection, which is the trade-off the comment at `inbox_postgres.rs:149`
  describes; the scope's quota is exact in both.
* `RowMatchesJournal`, `OutcomesAreFinal`: whatever order operators, stale jobs
  and newer generations write in, the proxy's row is the newest operation's, and
  a terminal outcome is not taken back.
* `CommandsFollowFences`: the identities by which the agent orders commands grow
  with the fence although they are taken from clocks that may be behind.
* `EvidenceReachesOutbox`: each intent is in the outbox in the end, whatever
  happened between submitting and marking.
* `CreatedOnce`, `ContainersAreRecorded`, `ReportedIsSettled`: the three promises
  of the agent's record, with a stop after every step and an engine that may
  finish a create nobody waits for.
* `OneServes`, `HeldIsValid`, `StopsInTime`: exclusion and bounded stopping by
  grants that are durations, without a common clock being read.
* `LimitHolds`: counter, reservations and calls upstream agree.
* `TokensUsedOnce`, `LiveRowsOpen`, `NeverResurrected`, `AdmissionRate`: the
  session table under concurrent pages, logouts and abandoned requests. The rate
  is checked over every interval of the admissions so far.
* `ForceStopsAccountedFor`, `DeliveredAsOrdered`; `CompleteMeansPublished`,
  `QuarantineIsEarned`, `LateWritesIgnored`, `EventuallyDecided`: see section 5.

### Bounds

* `command_inbox`: four identities in three scopes compete for a quota of one
  and a capacity of two, so each limit is met alone and together with the other;
  two attempts let redelivery and exhaustion happen; time covers recording,
  settling, a late sweep, expiry and reuse (retention 1, clock 1 to 4).
* `file_inbox`: two identities, one failed write and one crash in each
  behaviour, in any order with everything else. Two attempts, a clock of three
  values. `file_inbox_replay` needs two restarts and a quota of one.
* `control_gateway`: two identities, the first submitted with two different
  contents; a repair pass that reads one row of each kind, so that a second row is
  a backlog; one fault (a restart or a failing worker statement). A restart that
  is refused needs two faults and a clock one tick longer, which was only looked
  at apart; the proofs cover it. The clock has
  two values one retention window apart: a cancelled or completed identity
  expires within the run, an acknowledged one is retired and its tombstone is
  still there at the end (`command_inbox` goes on from there).
* `force_stop`: one identity, two operators, a reason with the marker and one
  without, so four commands, two calls at a time, bulk calls with either action, an
  approval that lives one tick and a clock that outlives it; calls, restarts
  and storage errors are unlimited. Operators are symmetric. `force_stop_bulk` has no
  reason with a marker, so that the bulk path alone is to blame.
* `fanout_worker`: two replicas, two rows of which one is malformed, a batch of
  both, a lease as long as a publish may take (which stands for the publishes of the
  events before it in a batch of 256), three replays, two faults (failing
  statements or restarts) and two requeues; time is unbounded. As the batch takes all
  rows, starvation by a backlog is not checked; the proofs of safety are for any.
* `postgres_inbox`: two connections, four identities in three scopes against a
  quota and a capacity of one, a scan of one row at a time so that a claim spans
  several statements, a clock that may be read one tick early. With a clock one
  tick longer the run also passes (1.5 million states).
* `proxy_operations`: three generations (deploy, change, retire), two revisions,
  two leases, clocks of two values.
* `runtime_agent`: three generations and three leases, a record that keeps two
  commands, so that the floor moves; steps and stops are unlimited.
* `call_admission`: two generations, two calls against a limit of one, renewals
  as in `MCCallAdmission!Renewals`, a grant of two ticks and a clock that reaches
  its end, so that a renewal can bridge a tick and race a pause. A process that
  served and then acknowledges a closed grant needs one renewal more; the proofs
  cover it.
* `browser_sessions`: two logins, two requests at a time, room for one session,
  lifetimes such that an access token, a claim, an idle session and a refresh
  token all expire before the clock ends. A larger variant passed as well (4.2
  million states).

`MaxNow`, `MaxTime`, `MaxFaults`, `MaxRestarts`, `MaxCalls` (of `ForceStop`),
`MaxRequeues`, `MaxGen`, `MaxRevisions`, `MaxFence`, `MaxClock`, `MaxSequence` (of
`PostgresInbox`), `MaxMarks`, `Budgets`,
`MaxAdmitted` and `MaxTokens` are the only bounds that are not in the code.
Deadlock is checked for `fanout_worker`. Elsewhere a behaviour may end: when the
clock has reached its bound and nobody calls, nothing has to happen.

### Fairness

* `CommandInbox`: an agent whose poll could return something polls in the end
  (the SDK and the supervisor poll in a loop). Nothing is assumed of operators,
  of acknowledgements or of the clock.
* `ControlGateway`: weak fairness of the repair worker, which runs in an endless
  timer loop. Nothing is assumed of the sweep, submissions, fan-out, agents or
  the clock. Faults are finite in number.
* `FanoutWorker`: weak fairness of each replica's pass, a timer loop around
  publishes that time out, and of the clock. Nothing is assumed of the broker's
  answers, of operators or of crashes, whose number is finite.
* `ProxyOperations`: weak fairness of the relay, which sweeps in an endless loop
  and submits again what an outbox refused. Nothing is assumed of operators and
  controllers.

The other modules are checked for safety only.

## 4. Correspondence worth a remark

* `Settle` in `FanoutWorker` treats a failing `mark_complete_many` as a success,
  because `settle_result.is_err()` (`replay.rs`) looks at the lock's `Result` and
  not at the statement's. The row is then claimed again after its lease, which
  `EventuallyDecided` shows to be enough.
* A claimed row that the replica itself still backs off from is dropped from the
  batch although the claim has counted an attempt and started a lease.
* In `FileInbox`, `order` may list a key that is no longer live until the next
  compaction, as in the code; `OrderMatchesSequence` is about live commands.
* A failed cancellation whose record reached the file leaves a command that is
  live until the next restart and cancelled after it. The model contains this;
  no property takes a side.
* `StopsInTime` is checked against a renewal that does not look at the proxy's row
  (`RenewNextUnaware`): the two checks of `renew` are what bounds the stop.
* `Batches` lets a limited read return any rows: the file outbox iterates a hash
  map. Postgres, oldest first, is one of these choices.

## 5. Proofs

The theorems hold for any sets of keys, scopes, agents, operators, connections,
replicas, calls, logins and requests and for any values of the limits. They rest
on the assumptions named in the modules (limits are natural numbers, most of them
positive; maps have the right type), which TLC evaluates on each run. Some theorems
state a further hypothesis, and each needs it: `AuditCorrect`, `RepairCorrect`, and those about what a journal replays to (`DiskCorrect`,
`HandedCorrect` and the three `...WithRoom`), below.

Most properties are not inductive. The strengthening each proof uses was checked
by TLC on the instance of the run of the property before it was proved; it stands
at the head of its part of the module, and its proof has one step per action.

*InboxProofs, of `CommandInbox`.*
`TypeCorrect`, `ExclusiveCorrect` (`CancelledMeansUndelivered`),
`AccountingCorrect` (`ScopeAccounting`), `WindowCorrect` (`IdempotencyWindow`),
`ContractCorrect` (`ImplementsContract`) and `OrderCorrect`
(`OrderMatchesSequence`). The first three are inductive given
`TypeOK`; accounting needs that a step moves a key between `entries` and `retired`
or changes the tracked set by keys of known scope, and the cardinality facts of
the library. The window needs `WindowInv`: an identity no longer tracked was
settled a window ago, a tombstone is not older than the report, and a
cancellation's own time is the report. The refinement maps the inbox to `Known`,
its commands as the contract sees them, and shows each action to be the contract's
step of the same meaning; that a record is within quota and capacity is
`ScopeAccounting` again, and no slack is needed. The order needs to know what
`Retain`, a recursive function, computes for every sequence: `RetainEmbeds` says that
the result is the subsequence of the elements kept, by an increasing map of
positions. It is an induction, which the module makes from the library's fact that
`<` on the natural numbers is well founded (`Least`, `SetInduction`: an induction over
a set instead of a predicate, which the provers can instantiate).

*InboxProofs, of `FileInbox`.*
`SettledCorrect` (`SettledStaysSettled`), `DiskCorrect` (`DiskAheadOfMemory`),
`HandedCorrect` (`HandedOutIsDurable`), for any number of failed appends, failed
compactions and crashes. All three rest on what `load` makes of the journals the code
writes, for every state and every length of the journal:

* `ReplayConcat`: loading a journal that was appended to continues from where loading
  the old one ended. With one lemma for each kind of record this says what a
  successful append, a phantom, a torn record or a prefix of a batch adds.
* The replay of a snapshot: up to `order` and the counters it is the state the snapshot
  was made from (`Same`), or it is refused (`SnapshotReplay`). By `RetainEmbeds` the
  snapshot holds every live command; that a stale place in `order` may write one twice
  does no harm, since loading the second copy changes nothing.

`FileInv` puts them together. It has one part for each place that remembers:
`Memory` (the process is up: its state is well formed, no command was handed out more
often than its attempts say, nothing untracked was handed out, and what was reported
settled is still kept), `Disk` (the same account of attempts and settled reports by the
replayed journal, up or down, unless it is refused) and `Shadow` (while the file is open the replay is `Ahead` of memory, and
`Same` if no append was a phantom). `Shadow` is needed for `Disk`: a rollback leaves
memory alone while the file may have grown. `Disk` is needed after a crash, when
nothing else is left. `Shadow` ends where the file cannot be reopened: from then on
memory may be ahead, and no append succeeds.

`SettledCorrect` needs nothing further. The other two speak of states in which `load`
has no reason to refuse a journal without a cut-off record (`Replayable`). The
hypothesis cannot be dropped: the run `file_inbox_replay` reaches a state without it,
since `load` does not count a tombstone that comes without its command, so that after a
restart a scope takes more than its quota and the next replay refuses what it took. `DiskCorrectWithRoom` and `HandedCorrectWithRoom` replace it by a hypothesis
on the constants, `RoomForAll`: as many commands as there are fit into capacity and
quota, so that the ceilings never decide. The instance of the run `file_inbox`
satisfies it. `ReplayableWithRoom` is `JournalReplayable` under the same hypothesis:
the quota is the only way to the finding.

*PostgresInboxProofs.*
`ContractCorrect`: the same contract, by transactions of several statements whose
callers run side by side. `TableInv` says what a connection may rely on between
two of its statements: the rows a claim has locked are still the agent's and still
due (`SessionInv`), no row is locked twice (`LockInv`), and a connection about to
insert holds its scope alone, so the count it made still holds (`QuotaInv`). The
count over all scopes is protected by nothing: `CapacityInv` bounds rows and
pending inserts together, and gives the slack of one command per further
connection.

*ControlGatewayProofs.*
A step of the gateway is, to its inbox, a step of `CommandInbox` or a reload
(`NextIsInboxStep`; `Reopen` of `InboxProofs`). The parts of the inbox's invariant
that do not speak of the scopes' counts survive both (`InboxParts`: types, order,
capacity, exclusive outcomes, the window), since a reload keeps entries and
tombstones and numbers the commands in their order (`ReopenKeeps`).
`InboxPromises` states what follows for the gateway itself; exact scope accounts are
not among it, because a reload loses them. `ContractCorrect` (`ContractKept`) shows
each step, reloads included, to be a step of the contract. `AnsweredCorrect`
(`AnsweredIsKept`) needs `KeptInv`, that nothing leaves the inbox unreported.
`AuditCorrect` (`AuditMatchesDelivery`) has the hypothesis that an identity is
accepted for less time than it is retained. `ContentInv` says why: all traces of
an identity (running calls, rows, events a pass has read, deliveries) name one
content, and once its audit row has expired the identity is too old for another.
With a shorter retention the theorem is false (section 6).
`RepairCorrect` (`PassRepairs`) has the same hypothesis and none on the size of the
outbox: `owed` are the rows a pass cannot be hidden from. `OwedInv` says that such a
row, without a delivery when the pass began, is dealt with or still ahead of it,
although between its two reads and its records rows complete, expire and are
quarantined.

*ForceStopProofs.*
`TypeCorrect`, `DeliveredCorrect` (`DeliveredAsOrdered`) and `AccountedCorrect`
(`ForceStopsAccountedFor`), for any actions of the bulk path and reasons with any
number of markers. `DeliveredAsOrdered` rests on `AuditInv` (an audit event is the
one of the command ordered, a call about to record agrees with it) and on what
`CommandOf` makes of an `AuditEvent`: the command, or the `force_stop` a marked
`stop` reads as. `ForceStopsAccountedFor` rests on `GateInv` (an approval on the
table was asked for at the time it carries; a call past the gate is approved, a bulk
call, or names an identity already recorded) and on `AuditInv`. That nothing but two
approvals leads to a `force_stop` (`TwoApprovers`) is what the repository says and
is false: of the two other ways one is the run `force_stop_bulk`, the other is in
section 6.

*FanoutProofs.*
`TypeCorrect`, `PublishedCorrect` (`CompleteMeansPublished`), `LateWritesCorrect`
(`LateWritesIgnored`) and `QuarantineCorrect` (`QuarantineIsEarned`).
The second needs `DoneIsPublished`; the last needs `EarnedInv`, which bounds the row's
count by the claims since its last requeue and each replica's by these and what it
carried over, and says that an event in a worker's hands has a claim its failures do
not account for yet. Which rows are malformed, and how many, is arbitrary.

*ProxyProofs.*
Of the store: `TypeCorrect`, `RowCorrect` (`RowMatchesJournal`), `FencesCorrect`
(`CommandsFollowFences`) and `FinalCorrect` (`OutcomesAreFinal`). They need
`FenceInv`: fences above the lease's are unused, the attempt belongs to a job that
was prepared under a fence up to the lease's, and neither generations nor commands
go back as fences grow.
Of the agent: `CreatedCorrect` (`CreatedOnce`), `RecordedCorrect`
(`ContainersAreRecorded`), `ReportedCorrect` (`ReportedIsSettled`) and
`ComposedCorrect`, by which the composition takes only steps of `ProxyOperations`.
`AgentInv` says, for each phase of the record, what the engine may hold
(`PhaseInv`), which phase each step of the job has saved before it acts (`JobInv`),
and that no trace exists of an instance no slot names (`FreshInv`). What is
reported needs `SettledInv`: an answer that can still be observed, one to the
command of the newest lease, is true of the host already, and no job that could
change the host runs. Here the order of commands by fences is used, since it makes
the answers to all older commands unobservable.

*ServingGrantsProofs.*
`RevivedCorrect` (`NeverRevived`), `ServesCorrect` (`OneServes`), `ValidCorrect`
(`HeldIsValid`), `StopCorrect` (`StopsInTime`); for the calls `LimitCorrect`
(`LimitHolds`) and `CallsCorrect`, by which the composition takes only steps of
`ServingGrants`, so that the former four hold of it. Exclusion needs `WireInv`:
whoever holds a grant to serve, is being sent one or acknowledges one has a row
that says so, so the store's check of its rows (`OnlyInv`) speaks of the processes.
A process that acknowledged a closed grant may still have calls in progress; what it
acknowledged still bounds them, since it begins none under a closed grant.
The bounds in time need `TimeInv`: a grant on its way to a process, counted from
the process's own request, ends no later than the store's decision does. The limit
needs `CallInv`: a call that may still go upstream has a reservation of its epoch.

*BrowserSessionsProofs.*
`OpenCorrect` (`LiveRowsOpen`), `TokensCorrect` (`TokensUsedOnce`),
`ResurrectCorrect` (`NeverResurrected`) and `RateCorrect` (`AdmissionRate`).
`RowInv` relates the generation of a row, that of its bundle and the deadlines in
each state. `UseInv` says that what was not yet presented is in one place at most:
the attempt, a single request, or an active row. `RateInv` relates the quota's
theoretical arrival time to each admission made so far.

Left to TLC: the liveness properties (`LostRecordRepaired`, `EventuallyDecided`,
`EvidenceReachesOutbox`, `HandedOver`), since the prover does not reason about
fairness. Every other property of a passing run is stated by a theorem.

## 6. Observations

What the models showed about the code beside the two findings. Each was met as a
counterexample of a property that is stronger than what the code does.

* *A cancelled command may come back* (`workers.rs:103`). Its tombstone is dated at
  the cancellation, its outbox row at the completion of the fan-out, which may be
  later. In between the repair worker finds a row without a delivery and records
  it afresh. `contracts/proto/apex/v1/control.proto:217` calls CANCELLED durable
  and terminal. `AuditMatchesDelivery` shows only that it is the same command.
* *A stop whose reason is the marker* (`envelope.rs:153`). `SubmitCommand` takes a
  `stop` with the reason `apex.force_stop` from one operator. If its delivery is
  recorded by the repair worker, the agent gets a `force_stop` nobody approved,
  while `dual_approval.rs:47` says that none is recorded "on a single operator's
  say-so". The comment at `envelope.rs:36` knows of the coincidence of the strings.
  `AccountedCorrect` shows this and the bulk path to be the only ways.
* *A backlog can hide a lost record* (`workers.rs:135`). A repair pass reads at most
  256 pending and 256 completed rows, without a cursor; with more of a kind it may
  read others, each time. `RepairCorrect` shows that nothing else can make a pass
  miss a row as long as retention exceeds the acceptance window.
* *A restart forgets the share of tombstones* (`inbox/file.rs:183`). The finding of
  `file_inbox_replay`, seen from the gateway: the quota of a scope does not hold
  across restarts, and the gateway may fail to start on its own journal.
* *Short retention* (`envelope/time.rs:6`). Retention may be configured below the
  24 hours for which a command_id is accepted; a second content under the same id
  is then taken by the outbox and ignored by the inbox. `AuditCorrect` shows that
  this configuration is the only way to it.
* *The lease covers a publish, not a batch* (`postgres.rs:22` of the outbox). With
  slow sinks the last rows of a batch of 256 are claimed by another replica before
  the first one reaches them. `CompleteMeansPublished` and `LateWritesIgnored`
  hold nonetheless; events are published twice.
* *Failures outlive a quarantine* (`replay.rs:242`). A worker's in-memory count is
  not cleared when the row is quarantined by the statement's own ceiling or by
  another replica; a requeued row is then given fewer attempts, although a requeue is
  to start a fresh replay window (`DUR/memory.rs:29`). `QuarantineCorrect` shows that
  such a count is the only thing that can shorten it, and by how much.
* *Postgres inbox.* A command recorded between `cancel`'s update and its select is
  classified as already delivered or acknowledged (`inbox_postgres.rs:499`). There
  are no tombstones, so a command acknowledged late is forgotten as soon as its
  last delivery is a retention window old. A stale `now` can move the time of the
  last delivery back, which only brings a redelivery forward.
* *Browser.* A logout that overtakes a refresh revokes the old token at the
  provider; the new one is never stored and stays valid there until it expires
  (`refresh.rs:91`). A page past `touch` may still be forwarded after a logout.
* *Calls.* A reservation whose answer was lost is given back only when the process
  has been terminated.

## 7. Not modelled, and the plan

Not modelled: authentication, cryptography, TLS, admission limits and metrics
(they refuse a call or observe it), field validation, governance decisions,
listing and status, the in-memory proxy store and the older lifecycle operations
that bypass the journal, the agent's path with a network catalogue and paired
containers (which never answers), health probing, the queue of the browser's
session worker (a call is atomic once it runs), the outbox journal, event ingest,
supervisor, UI, SDK and deployment. A poisoned lock is left out of `FanoutWorker`,
the in-memory inbox across a restart out of `ControlGateway`. A large part of the repository is of these kinds,
tests and presentation included, so the map covers the files that decide
something and few of the others.

In order of importance:

1. `FileOutbox`: the outbox journal in the shape of `FileInbox`, with replay of
   attempts and quarantine, shown to keep the rows of `EventOutbox`.
2. Ingest idempotency ahead of the shared outbox.
3. Listing with cursors over `InboxState`, and what a restart does to a cursor.
4. The answers operators get (retry after approval, duplicate flags).
5. Supervisor as a client: at-least-once enactment of `force_stop`.
