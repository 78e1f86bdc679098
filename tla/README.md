# A TLA+ model of SentinelFlow

SentinelFlow watches the traffic of a demonstration application, correlates it
into incidents, lets a language model propose a temporary block, validates the
proposal, asks an administrator to approve it, and only then lets an isolated
executor put one IPv4 address with a timeout into an nftables set. This
directory holds TLA+ modules that model the parts of the system where
concurrency, crashes and time decide whether it is correct, the TLC
configurations that check them, and TLAPS proofs about the executor.

All paths below are relative to `src/`. `PROJECT.json` maps every definition to
the lines it models, lists the runs, the hazards and the theorems, and gives for
every property a plausible mistake in the code (a definition marked *Mutant* in
the modules) that the property detects.

## 1. The system and its parts

| Part | State | Operations | What makes it hard |
|---|---|---|---|
| Executor service `internal/enforcement/executor` | one-place gate, calls in progress | `HandlePayload`, `Process`, `ProcessRecovery`, `execute`, `recover`, `finish` | concurrent connections, a deadline that runs while a call waits, death between any two steps |
| Journal `internal/enforcement/journal` | append-only file, in-memory index, `poisoned` | `Open`, `Lookup`, `Begin`, `Complete`, `appendLocked` | a frame may be written and not durable; fsync may fail; the file has a size limit |
| nft runner `internal/enforcement/nftrunner` | the owned set in the kernel | `Mutate`, `Inspect` | exit status and effect may disagree; elements expire on their own |
| Capabilities `internal/enforcement/capability` | none | `CheckResult`, `checkOutcome`, `SignFor` | the tables of permitted outcomes are repeated in Go and in SQL |
| Dispatcher `internal/dispatchruntime`, `internal/dispatchstore`, migrations 10, 11, 25, 26 | outbox jobs with leases, capability and result rows, the action | claim, recover, issue, store, exchange, store the result, finish | leases lapse mid-step, a commit may succeed and report an error, requests outlive their sender |
| Lifecycle worker `internal/lifecycleruntime`, `internal/lifecyclestore`, migrations 26, 27, 29 | inspection schedules, the action's state, version and expected end | claim a schedule, authorize an inspection, record its result | inspections, expiry and revocation race for one action |
| Gateway event sender `internal/eventsender` | queue, pending records, health flags, coverage segment, checkpoint file | `TryEnqueue`, `run`, `flush`, `deliver`, `Close`, `New` | handlers and the sending goroutine share atomics; retries; restarts |
| Ingestion `internal/repository`, `internal/api/ingest.go`, migrations 5, 15 | batches, sequence gaps, health intervals, coverage attestations | `StoreBatch` | duplicates, late copies, gaps, epochs |
| Auth event sender `internal/authsender` | as the gateway's | as the gateway's | halts where the other continues |
| Detection, analysis, validation workers, migrations 6 to 9, 16 to 19, 33 | outbox jobs, incidents and their evidence version, AI budget, policy and validation snapshots | lease, prepare, finalize | new evidence arrives between two steps of a worker |
| Approval `internal/hil`, `internal/hilstore`, `internal/adminauth`, migrations 10, 12, 14, 19, 27 | sessions, challenges, decisions, authorizations | issue a challenge, commit a decision, rotate the session | two tabs, replays, evidence that moves under a decision |
| Retention, notifications, backup and restore, exports, demonstration history | retained rows, SSE ledger and client leases, bundles | prune, page, fence, import | deletion against live references; an old database beside a newer journal |
| Configuration, queries, metrics, web console, process assembly | | | no concurrency of their own |

The parts interact in one direction. Senders post signed batches to ingestion;
detection reads what is stored *and attested to be complete*; an incident with
an evidence version goes through analysis and validation to an administrator; an
approval creates an action and an outbox job; a dispatcher turns the job into
one signed capability, the executor into one signed result; the result moves the
action and schedules inspections until the block has ended.

Correctness, part by part: the executor runs nft at most once per capability,
only inside its validity and behind a durable record, and says nothing untrue
about the set; a job reaches the executor through one capability, and what the
database records is what the executor attested; a block is followed to its end,
which is never moved back; a policy is decided once, by a session that the
decision spends, on evidence that is still current; telemetry is stored once, and an interval reported as
covered has no hole.

## 2. Modules

| Module | Models | Notes |
|---|---|---|
| `Capability` | result tables of `capability/result.go` and `Recovery.SignResult` | operators only |
| `Journal` | `journal/journal.go` and its frames | a frame is its kind, capability and result; `synced` frames survive anything, later ones survive a process crash and may be lost or torn by a power loss |
| `Executor` | `executor/service.go`, `result.go`, the server and the runner | extends `Journal`; a worker is one connection, its `pc` the next blocking step |
| `SingleUse` | what the executor promises | fresh, spent, settled; used at most once; one verdict, which is every answer |
| `Dispatch` | dispatcher processes, the store and the dispatch SQL, for adds | composed with the executor through `INSTANCE SingleUse` |
| `Lifecycle` | one action from its capability to its end | schedules, inspections, revocation, results |
| `Ingest` | `StoreBatch` and the SQL it calls | a store is one value, an operation maps a store and a batch to the next |
| `EventSender` | the sender, its process and the network | extends `Ingest` |
| `Approval` | sessions, challenges and decisions: the handlers of `adminapi`, the session store and the coordinators of migrations 10, 12, 19 | a request is one handler, its `pc` the next transaction |
| `MCExecutor`, `MCDispatch`, `MCLifecycle`, `MCApproval`, `MCEventSender` | values and symmetry for TLC | |
| `ExecutorTypeProofs`, `ExecutorSafetyProofs` | proofs about `Executor` | |

### Executor, Journal, SingleUse

`worker[w].pc` names the next step that can block or fail, so that the clock,
other connections, a crash or a power loss come between any two: `acquire`
(the gate), `lookup`, `preflight` (read-back), `begin` and `begin_sync` (write
and fsync of the started frame), `execute`, `mutate`, `readback`, `recover`,
`finish` and `end_sync` (write and fsync of the terminal frame). A write may
fail, an fsync may fail with the frame durable or not, and both poison the
journal until it is reopened. nft may exit with an error with or without its
effect. `invoked` and `replies` are history variables.

`SingleUse` is the contract. `KeepsContract` states that the executor implements
it under process crashes, with the journal file as the phase and the verdict,
and `Dispatch` uses the contract in place of the executor.

### Dispatch

A job row carries state, holder, remaining lease, attempts and back-off; the
lease token is the identity of the last claimant, since a dispatcher drops a
claim before it makes another. Every instant is kept as the time left to it, so
that behaviours can run for ever in finitely many states. A commit of unknown
outcome is its effect together with an error to the caller; faults of all kinds
draw on one budget, `MaxFaults`. A request at the socket keeps its sender; when
the sender gives up or dies it becomes an orphan the executor may still read.

### Lifecycle

`action` has state, version and the time left to `expected_expires_at`
(`Unknown` when it is NULL). A schedule whose life is over is reset so that its
row may stand for a later one. Each slot of a schedule owns the inspection job
that the schedule dispatches. `InspectedState`, `RevokedState`, `AddedState`,
`NextExpires` and `NextSchedule` are the branches of `record_execution_result`,
and `Accepts` is what it requires before it stores anything.

### Approval

One administrator's browser has several requests in flight that share a cookie.
`request[r].pc` names the next transaction of a handler: load the session, touch
it, then log out, step up, issue a challenge, or look up and commit a decision.
A commit of a decision stores the decision, moves the policy, queues the job of
an approval and rotates the session at once; it may do so and report an error,
after which the handler looks again (`Recheck`). `exact` says whether the copy
of the session a handler holds still equals the row, which the SQL compares
column by column. A revoked parent may be used once more, to be told of the
decision that revoked it (`LoadParent`, `Replay`). Deadlines are facts that
become true: `over`, `stale`, `lapsed`; new evidence is `moved`.

### EventSender and Ingest

A dropping `TryEnqueue` holds the mutex over three separately visible writes
(`dropped`, `degraded`, the health generation). `Cut` is the critical section of
`flush`; delivery is attempt, response, checkpoint; what follows delivery is in
three steps because handlers can degrade the sender between them. `net` holds
the requests under way, of earlier boots too; `offered` records every event with
its boot and time. The receiver's `Overlaps` works on half-open intervals with
whole-millisecond bounds, as `tstzrange` does.

## 3. Runs

| Run | Instance | What it shows |
|---|---|---|
| `executor_crash` | two adds of one address, two connections, 3 frames, 2 boots | one nft run per capability, one answer, no refreshed timeout, `SingleUse` is implemented |
| `executor_power` | an add and a revoke of one address, one connection, power loss, 3 boots, a two-tick window | nft runs behind a durable frame and inside the validity; verdicts are well formed and true of the kernel; the file always reopens |
| `executor_live` | an add and an inspection, two connections | every call leaves the service |
| `dispatch_race` | one job, two dispatchers, 2 attempts, 2 faults | one capability and one result per job under lapsed leases, unknown commits and late requests |
| `dispatch_live` | one job, one dispatcher, 1 attempt, 2 faults | what the executor journalled is completed |
| `lifecycle_follow` | two workers, two administrators, a fault, a block of 4 instants | one inspection at a time, current, always recordable; revocation is exclusive; ends are honest and never extended; a block is followed to its end |
| `lifecycle_revoke` | one worker, one administrator | *violated*: an indeterminate revocation is never resolved |
| `approval_tabs` | one policy, two tabs, 4 requests, 2 logins, 2 challenges, one lapse | sessions form chains with one live end, a decision is stored once, spends its session and is reported only if stored, and rests on current evidence, validation and password; a session that ended stays so |
| `telemetry_refusal` | one boot, two copies of each request, refusals | gaps are exactly the missing sequences, attested intervals have no hole |
| `telemetry_restart` | two boots, late requests of the first | coverage and single storage survive a restart |
| `telemetry_live` | one boot, overflow, outage, failing checkpoint | a degraded sender recovers, every overflow is reported, and a clean mark means that every event is stored or counted as lost |
| `telemetry_gap` | one refused batch | *violated*: the receiver refuses later batches with a marker |

Bounds. Two actors of each kind are enough for every race between equals in this
code, because all of them meet in one row, one gate or one file: a third can
only repeat the role of the second. Two attempts and two tries separate "first",
"last" and "one too many". `MaxFaults` is the number of independent failures a
behaviour may contain; each run has at least as many as the deepest scenario in
the list of hazards needs. Clocks are short but longer than the sum of the
windows that must be told apart (for example a capability window and a lease in
`dispatch_race`, an interval and a TTL in `lifecycle_follow`). In `approval_tabs`
four requests over two tabs let two decisions, or a decision and a logout or
step-up, overlap after their challenges; one lapse at a time is enough because
each deadline is tested on its own. The executor's
runs bound time and boots and so check safety and the return of calls within
those bounds; the proofs in section 4 have none.

Deadlock is checked where the system has no final state (`lifecycle_*`). The
other configurations say `CHECK_DEADLOCK FALSE`: a bounded clock, a spent budget
of requests, a stopped sender or a completed job is a proper end.

Fairness. Executor: a call's steps are finite work under a context deadline
(weak fairness per connection), and a Go channel serves waiting goroutines in
turn (strong fairness of `Acquire`). Dispatch: processes poll, are restarted by
`restart: unless-stopped` in `deployments/compose.yaml`, and time passes; a step
under a lease is short against the lease, so one that again and again finds its
lease live is sooner or later taken while it is (strong fairness of those
steps). Lifecycle: workers, the dispatcher and the executor poll, and time
passes; nobody is obliged to revoke. EventSender: the goroutine runs while the
process does and a request that is not lost is processed; strong fairness of
`Drain` because Go's `select` chooses at random among ready cases. Nothing is
assumed about faults except their number.

## 4. Proofs

For every set of connections, capabilities and targets, every validity and
timeout, and any number of crashes, failed writes and power losses, TLAPS checks
that the executor keeps

- `TypeOK` (`ExecutorTypeProofs!TypeCorrect`),
- `AtMostOnce` (`ExecutorSafetyProofs!MutatesAtMostOnce`),
- `WriteAhead` (`StartsAreDurable`) and
- `ReopenAccepts` (`JournalReopens`).

The only assumption is `ConstantsAssumption` in `Executor`, which types the
constants. The inductive invariant is `TypeInv /\ SafeInv`. `TypeInv` adds to
the types that a call about to write a terminal frame has a result, and that
frames hold results of the right kind. None of the three safety properties is
inductive alone. `SafeInv` adds

- `Guarded`: only the holder of the gate is past `acquire`, so that two calls
  never stand between lookup and mutation together;
- `IndexFollows`: while no append is in progress a healthy process knows the
  whole file, so that `Lookup` = unseen means the file holds no started frame;
- `Unspent`: a call on its way to nft holds a capability that never ran, whose
  started frame is in the file and, once the permit was given, durable.

The argument: nft runs only from `mutate`, where `Unspent` gives `invoked = 0`
and a durable start; running it leaves a state in which the capability is
started for good, because a power loss keeps the synced prefix; every later
lookup therefore finds it started, and `Resume` never goes to `execute`. The
proofs have a lemma per kind of step (`QuietMove`, one per action) and combine
them in the theorems.

Liveness, refinement (`KeepsContract`), and everything about `Dispatch`,
`Lifecycle`, `Approval`, `Ingest` and `EventSender` is model-checked only. Liveness under
fairness is out of the prover's reach and stays so.

## 5. What does not hold

Two documented claims are violated by the code, each shown by a run:

- `telemetry_gap`. `docs/TDD.md:490` says that after a permanently lost batch
  later traffic proceeds. The sender reports the loss as `rejected_batch`, the
  receiver closes a gap only for `permanent_loss`, and refuses every later batch
  with a coverage marker until the next boot.
- `lifecycle_revoke`. `docs/TDD.md:445` says that a newly authorized inspection
  resolves an indeterminate action. After an indeterminate *revocation* none is
  scheduled.

Other limits met while modelling, which the properties above leave out
explicitly and a reader should know:

- After a power loss the executor may answer a capability differently from an
  answer given before: a terminal frame read back by a restart is served without
  a new fsync (`journal.go:125` syncs only a created file). `KeepsContract` is
  therefore checked for process crashes.
- A capability that was stored but did not reach the executor in time leaves its
  job leased and its action queued for ever, since recovery of an unseen
  capability is refused; so does a dispatcher that dies on the last attempt
  before storing a capability.
- The lifecycle stops following a block (`Abandoned`) when a job can no longer
  be delivered, when a schedule has spent its attempts, or after an
  indeterminate revocation. A revocation whose authorization lapses undelivered
  leaves the action active beyond its end, with its schedules dead.
- An inspection that saw the element just before its end and completed after it
  is recorded as failed.
- A second crash before the `unclean_restart` report is delivered loses that
  report (`sender.go:162` overwrites the checkpoint first; compare
  `docs/TDD.md:158`). A refused batch that carries a health report loses the
  count in it (`sender.go:380`; compare `docs/TDD.md:160`).
- A batch of an older epoch of which the receiver has no row yet moves the
  receiver's checkpoint back to that epoch (migration 5, line 163).

## 6. Not modelled

- Cryptography and canonical encoding: signatures and digests bind what they
  cover. Parsing of nft output, of HTTP and of configuration.
- Authentication of batches and their replay nonces; peer credentials of the
  executor's socket.
- Passwords, origins, CSRF tokens and rate limits of the administrator's API; the
  revocation twins of the decision handlers, whose database side is in
  `Lifecycle`; deletion of expired sessions, which only tests call.
- The roles and grants of the database, metrics, read-only queries, exports, the
  web console, the simulator and the demonstration application.
- Failures of a projection or contract check in the lifecycle worker: rows the
  database produced always pass them.
- An event's time is taken when it is enqueued; the code takes it just before.

## 7. Plan

Order by importance; each item names what it composes with.

1. `Pipeline` (migrations 6 to 9, 16 to 19, 33; the detection, analysis and
   validation workers): jobs with leases, evidence versions, interruption by new
   evidence, AI budget. Properties: no validation of superseded evidence becomes
   approvable, a budget is never overdrawn, every open incident is analysed or
   escalated. One safety run and one for liveness, with `Ingest`'s attested
   interval as input of detection.
2. `AuthSender`, against the same `Ingest`, as a second specification with the
   halt on refusal.
3. `Recovery` (`internal/recoverybundle`, `scripts/restore-state.sh`): an old
   database beside a newer journal, with `SingleUse` as the executor.
4. `Notifications` and `Retention`: ledger window, paging and pruning; deletion
   against live references.
5. Algorithms: correlation windows, policy validation, record validation, each
   against a reference definition over small inputs, in one run.

Proofs, in this order: `Dispatch` (`OnlyStoredAuthority`, `JobAppliedOnce`,
`GivenUpIsUnused`), `Lifecycle` (`OneLiveSchedule`,
`RevocationIsExclusive`), `Approval` (`ChainsAreLinear`, `DecidedOnce`,
`DecidedSessionIsSpent`), the step simulation behind `KeepsContract`,
`MutatesWhileFresh` and `NeverRefreshes`, and `Ingest`'s gap arithmetic
(`GapsAreExact`). To keep the set of runs small, `dispatch_live` will be joined
with `dispatch_race` when the new runs come; `telemetry_refusal` and
`telemetry_restart` stay apart, since refusals, late copies and two boots in one
instance are too many states.
