----------------------------- MODULE Lifecycle -----------------------------
(***************************************************************************)
(* The life of one enforcement action after its add capability is issued:    *)
(* lifecycle workers (src/internal/lifecycleruntime over lifecyclestore)     *)
(* schedule signed inspections, administrators revoke, a dispatcher carries  *)
(* the jobs to the executor, and record_execution_result (migrations 000026  *)
(* and 000027) turns each signed result into the action's next state and,    *)
(* while the block may still stand, its next inspection.                     *)
(*                                                                           *)
(* Every instant is kept as the time left until it, so that behaviours run   *)
(* for ever in finitely many states; an instant already past is 0.  A lease  *)
(* token is the identity of the last claimant: a worker drops its claim      *)
(* before it claims again.  The dispatcher's own lease fence and the         *)
(* executor's journal are the subject of Dispatch and Executor: here a job   *)
(* may be handed back or given up before its capability, and a started       *)
(* operation may be cut short and resolved by read-back.                     *)
(***************************************************************************)
EXTENDS Naturals, FiniteSets

CONSTANTS
    Workers,            \* lifecycle worker processes
    Admins,             \* administrators with a revocation challenge each
    Slots,              \* rows for schedules; one that is over is reused
    AddJob, RevokeJob,  \* the dispatch_add and dispatch_revoke jobs
    NoOne, NoSlot,
    TTL,                \* enforcement_actions.ttl_seconds
    Interval,           \* the 30 seconds between reconciliations
    Soon,               \* the second after an indeterminate result
    Lease,              \* Config.LeaseDuration of the lifecycle worker
    Backoff,            \* Config.RetryBackoff
    Authority,          \* the five minutes of an authorization or a challenge
    CapabilityTTL,
    MaxAttempts,        \* max_attempts of schedules and of jobs
    MaxFaults           \* bound: crashes, failures and lost kernel elements

ASSUME LifecycleAssumption ==
    /\ {TTL, Interval, Soon, Lease, Backoff, Authority, CapabilityTTL, MaxAttempts}
          \subseteq Nat \ {0}
    /\ Lease < Authority
    /\ MaxFaults \in Nat
    /\ NoOne \notin Workers
    /\ NoSlot \notin Slots
    /\ AddJob # RevokeJob
    /\ {AddJob, RevokeJob} \cap Slots = {}

Jobs == Slots \cup {AddJob, RevokeJob}

VARIABLES
    element,    \* time left to the kernel element, 0 when it is absent
    action,     \* enforcement_actions, with the policy that follows it
    sched,      \* lifecycle_inspection_schedules_000026
    job,        \* outbox_jobs, dispatch_operations, capability and result
    revoke,     \* revocation_operations
    challenge,  \* decision_challenges for the revocation
    proc,       \* the schedule each worker believes it leases
    faults

vars == <<element, action, sched, job, revoke, challenge, proc, faults>>

Min2(a, b) == IF a < b THEN a ELSE b
Dec(t) == IF t = 0 THEN 0 ELSE t - 1

NoSchedule ==
    [state |-> "none", version |-> 0, due |-> 0, attempts |-> 0,
     holder |-> NoOne, lease |-> 0]

NoJob ==
    [state |-> "none", version |-> 0, valid |-> 0, attempts |-> 0, run |-> "none",
     window |-> 0, recovered |-> FALSE, exit |-> "success", seen |-> "unavailable",
     left |-> 0, span |-> 0, again |-> 0, late |-> FALSE, class |-> "none"]

StoredJob == [NoJob EXCEPT !.state = "completed", !.run = "stored"]

\* time left to expected_expires_at when it is NULL
Unknown == TTL + 1

\* record_execution_capability has queued the action under a fresh add.
Init ==
    /\ element = 0
    /\ action = [state |-> "queued", version |-> 2, expires |-> Unknown]
    /\ sched = [s \in Slots |-> NoSchedule]
    /\ job = [j \in Jobs |->
                 IF j = AddJob
                 THEN [NoJob EXCEPT !.state = "leased", !.version = 2, !.run = "issued",
                                    !.window = CapabilityTTL]
                 ELSE NoJob]
    /\ revoke = [state |-> "none", version |-> 0]
    /\ challenge = [a \in Admins |-> [version |-> 0, until |-> 0]]
    /\ proc = [w \in Workers |-> NoSlot]
    /\ faults = MaxFaults

Fault == faults > 0 /\ faults' = faults - 1
NoFault == UNCHANGED faults

Terminal == {"expired", "failed", "revoked"}
Standing == {"active", "indeterminate"}
LiveStates == {"pending", "leased", "retry", "dispatched"}

Live(s) == sched[s].state \in LiveStates

Bound(s) == sched[s].version = action.version /\ action.state \in Standing

----------------------------------------------------------------------------
(* The lifecycle worker *)

\* The two sweeps of claim_lifecycle_inspection_schedule: a lease that ran out
\* on the last attempt, and a schedule whose action has moved on.
Swept(s) ==
    \/ /\ sched[s].state = "leased" /\ sched[s].lease = 0
       /\ sched[s].attempts >= MaxAttempts
    \/ sched[s].state \in {"pending", "retry", "leased"} /\ ~ Bound(s)

Sweep ==
    [s \in Slots |-> IF Swept(s) THEN [sched[s] EXCEPT !.state = "dead"] ELSE sched[s]]

Claimable(s) ==
    /\ ~ Swept(s)
    /\ Bound(s)
    /\ sched[s].attempts < MaxAttempts
    /\ sched[s].due = 0
    /\ \/ sched[s].state \in {"pending", "retry"}
       \/ sched[s].state = "leased" /\ sched[s].lease = 0

\* ClaimDue: the worker holds the schedule, or sees an error and is restarted.
Claim(w, s) ==
    /\ proc[w] = NoSlot
    /\ Claimable(s)
    /\ sched' = [Sweep EXCEPT ![s] = [@ EXCEPT !.state = "leased", !.holder = w,
                                               !.lease = Lease, !.attempts = @ + 1]]
    /\ \/ proc' = [proc EXCEPT ![w] = s] /\ NoFault
       \/ UNCHANGED proc /\ Fault
    /\ UNCHANGED <<element, action, job, revoke, challenge>>

\* A claim that finds nothing due still commits its sweeps.
ClaimNothing(w) ==
    /\ proc[w] = NoSlot
    /\ ~ \E s \in Slots : Claimable(s)
    /\ \E s \in Slots : Swept(s)
    /\ sched' = Sweep
    /\ UNCHANGED <<element, action, job, revoke, challenge, proc, faults>>

Held(w, s) ==
    sched[s].state = "leased" /\ sched[s].holder = w /\ sched[s].lease > 0

\* commit_lifecycle_inspection: the authorization runs from the claim, and the
\* worker is done with the schedule whether it sees the commit or an error.
CommitInspection(w, s) ==
    /\ proc[w] = s
    /\ proc' = [proc EXCEPT ![w] = NoSlot]
    /\ IF Held(w, s) /\ Bound(s)
       THEN /\ sched' = [sched EXCEPT ![s].state = "dispatched"]
            /\ job' = [job EXCEPT ![s] = [NoJob EXCEPT !.state = "pending",
                          !.version = sched[s].version,
                          !.valid = Authority - (Lease - sched[s].lease)]]
       ELSE UNCHANGED <<sched, job>>
    /\ UNCHANGED <<element, action, revoke, challenge, faults>>

\* The worker is told to stop: finishFailure(context_cancelled).
FinishFailure(w, s) ==
    /\ proc[w] = s
    /\ Fault
    /\ proc' = [proc EXCEPT ![w] = NoSlot]
    /\ sched' = [sched EXCEPT ![s] =
                    IF ~ Held(w, s) THEN @
                    ELSE IF @.attempts >= MaxAttempts THEN [@ EXCEPT !.state = "dead"]
                    ELSE [@ EXCEPT !.state = "retry", !.due = Backoff]]
    /\ UNCHANGED <<element, action, job, revoke, challenge>>

CrashWorker(w) ==
    /\ proc[w] # NoSlot
    /\ Fault
    /\ proc' = [proc EXCEPT ![w] = NoSlot]
    /\ UNCHANGED <<element, action, sched, job, revoke, challenge>>

----------------------------------------------------------------------------
(* Administrators *)

\* No second revocation of one version: revocation_operations_action_version.
Revocable ==
    /\ action.state = "active"
    /\ action.expires > 0
    /\ revoke.version # action.version

\* issue_hil_revocation_challenge
IssueChallenge(a) ==
    /\ Revocable
    /\ challenge' = [challenge EXCEPT ![a] = [version |-> action.version,
                                              until |-> Min2(Authority, action.expires)]]
    /\ UNCHANGED <<element, action, sched, job, revoke, proc, faults>>

\* Mutant: schedules with a capability are killed like the others.
NoInspectionStarted == TRUE

\* A capability in flight makes the commit a conflict.
NoInspectionInFlight == \A s \in Slots : Live(s) => job[s].run = "none"

\* Mutant: the revocation leaves the schedules alone.
KeepSchedules == sched

\* revoke_superseded
KillSchedules ==
    [s \in Slots |-> IF Live(s) THEN [sched[s] EXCEPT !.state = "dead", !.holder = NoOne,
                                                      !.lease = 0]
                     ELSE sched[s]]

\* commit_hil_revocation_with_session_rotation: an exact replay changes nothing.
CommitRevocation(a) ==
    /\ challenge[a].until > 0
    /\ challenge[a].version = action.version
    /\ Revocable
    /\ NoInspectionInFlight
    /\ sched' = KillSchedules
    /\ job' = [j \in Jobs |->
                  IF j = RevokeJob
                  THEN [NoJob EXCEPT !.state = "pending", !.version = action.version,
                                     !.valid = challenge[a].until + 1]
                  ELSE IF j \in Slots /\ Live(j) /\ job[j].state # "none"
                  THEN [job[j] EXCEPT !.state = "dead", !.valid = 0]
                  ELSE job[j]]
    /\ revoke' = [state |-> "authorized", version |-> action.version]
    /\ challenge' = [challenge EXCEPT ![a].until = 0]
    /\ UNCHANGED <<element, action, proc, faults>>

----------------------------------------------------------------------------
(* The dispatcher, up to the capability *)

\* Mutant: no bound on attempts.
ClaimJobForEver(j) ==
    /\ job[j].state = "pending"
    /\ job[j].valid > 0
    /\ job[j].version = action.version
    /\ action.state \in Standing \cup {"expired", "failed"}
    /\ job' = [job EXCEPT ![j].state = "leased", ![j].attempts = @ + 1]
    /\ UNCHANGED <<element, action, sched, revoke, challenge, proc, faults>>

\* dispatcher_approved_outbox
ClaimJob(j) ==
    /\ job[j].state = "pending"
    /\ job[j].attempts < MaxAttempts
    /\ job[j].valid > 0
    /\ job[j].version = action.version
    /\ action.state \in Standing \cup {"expired", "failed"}
    /\ job' = [job EXCEPT ![j].state = "leased", ![j].attempts = @ + 1]
    /\ UNCHANGED <<element, action, sched, revoke, challenge, proc, faults>>

\* The window is not empty and, for a revocation, the block is still its own.
Issuable(j) ==
    /\ job[j].valid > 1
    /\ j = RevokeJob => /\ revoke.version = action.version
                        /\ revoke.state \in {"authorized", "queued"}
                        /\ action.state = "active"
                        /\ action.expires > 0

\* record_execution_capability
RecordCapability(j) ==
    /\ job[j].state = "leased" /\ job[j].run = "none"
    /\ Issuable(j)
    /\ job' = [job EXCEPT ![j].run = "issued",
                          ![j].window = Min2(CapabilityTTL, job[j].valid - 1)]
    /\ revoke' = IF j = RevokeJob THEN [revoke EXCEPT !.state = "queued"] ELSE revoke
    /\ UNCHANGED <<element, action, sched, challenge, proc, faults>>

\* The capability is refused, or the dispatcher fails before storing it.
HandBack(j) ==
    /\ job[j].state = "leased" /\ job[j].run = "none"
    /\ \/ ~ Issuable(j) /\ NoFault
       \/ Issuable(j) /\ Fault
    /\ \E state \in {"pending", "dead"} : job' = [job EXCEPT ![j].state = state]
    /\ UNCHANGED <<element, action, sched, revoke, challenge, proc>>

----------------------------------------------------------------------------
(* The executor *)

\* The element once the mutation of j has run.
Mutated(j) == CASE j = AddJob -> TTL [] j = RevokeJob -> 0 [] OTHER -> element

Seen(e) == IF e > 0 THEN "active" ELSE "absent"

Observed(j, exit, seen, e, recovered) ==
    job' = [job EXCEPT ![j] = [@ EXCEPT !.run = "observed", !.recovered = recovered,
                                        !.exit = exit, !.seen = seen,
                                        !.left = e, !.span = TTL]]

\* processUnseen and execute: mutate, then read back.
Execute(j) ==
    /\ job[j].run = "issued" /\ job[j].window > 0
    /\ NoFault
    /\ element' = Mutated(j)
    /\ Observed(j, "success", Seen(element'), element', FALSE)
    /\ UNCHANGED <<action, sched, revoke, challenge, proc>>

\* nft fails, with or without its effect, or its result cannot be read back.
\* A revocation that finds the element absent does not invoke nft.
ExecuteBadly(j) ==
    /\ job[j].run = "issued" /\ job[j].window > 0
    /\ Fault
    /\ \E done \in BOOLEAN, exit \in {"success", "nonzero"}, readable \in BOOLEAN :
          /\ exit = "success" => done
          /\ exit = "nonzero" => ~ (j = RevokeJob /\ element = 0)
          /\ element' = IF done THEN Mutated(j) ELSE element
          /\ Observed(j, exit, IF readable THEN Seen(element') ELSE "unavailable",
                      element', FALSE)
    /\ UNCHANGED <<action, sched, revoke, challenge, proc>>

\* The executor dies with the operation journalled as started.
CrashExecutor(j) ==
    /\ \/ /\ job[j].run = "issued" /\ job[j].window > 0
          /\ element' \in {element, Mutated(j)}
       \/ job[j].run = "observed" /\ UNCHANGED element
    /\ Fault
    /\ job' = [job EXCEPT ![j].run = "started"]
    /\ UNCHANGED <<action, sched, revoke, challenge, proc>>

\* recover: read-back only, attesting its own window.
Recover(j) ==
    /\ job[j].run = "started"
    /\ \/ Observed(j, "not_invoked", Seen(element), element, TRUE) /\ NoFault
       \/ Observed(j, "not_invoked", "unavailable", element, TRUE) /\ Fault
    /\ UNCHANGED <<element, action, sched, revoke, challenge, proc>>

AddClass(r) ==
    CASE r.recovered -> IF r.seen = "active" THEN "recovered_active" ELSE "indeterminate"
      [] r.exit = "success" /\ r.seen = "active" -> "applied"
      [] r.seen # "absent" -> "indeterminate"
      [] OTHER -> "failed"

RevokeClass(r) ==
    CASE r.recovered -> IF r.seen = "absent" THEN "revoked" ELSE "indeterminate"
      [] r.exit = "success" /\ r.seen = "absent" -> "revoked"
      [] r.seen # "active" -> "indeterminate"
      [] OTHER -> "failed"

InspectClass(r) ==
    CASE r.seen = "active" -> "inspect_active"
      [] r.seen = "absent" -> "inspect_absent"
      [] OTHER -> "indeterminate"

Class(j) ==
    CASE j = AddJob -> AddClass(job[j])
      [] j = RevokeJob -> RevokeClass(job[j])
      [] OTHER -> InspectClass(job[j])

\* finishPrepared signs the result.  Its completed_at is now: from here on the
\* end of the block that it reports (the earlier of completed_at plus what was
\* left and started_at plus the TTL) and the next inspection draw nearer.
Complete(j) ==
    LET r == job[j]
    IN  /\ r.run = "observed"
        /\ job' = [job EXCEPT ![j] =
                      [r EXCEPT !.run = "done", !.class = Class(j),
                                !.left = Min2(r.left, r.span),
                                !.again = IF Class(j) = "indeterminate" THEN Soon
                                          ELSE Interval,
                                !.late = action.expires = 0]]
        /\ UNCHANGED <<element, action, sched, revoke, challenge, proc, faults>>

----------------------------------------------------------------------------
(* record_execution_result *)

\* A result that fails this raises an exception and is never stored.
Accepts(j) ==
    CASE j = AddJob -> action.state = "queued"
      [] j = RevokeJob ->
            /\ revoke.state = "queued"
            /\ \/ action.state \in Standing
               \/ action.state = "expired" /\ job[j].class = "revoked"
      [] OTHER -> sched[j].state = "dispatched" /\ Bound(j)

\* Mutant: a block seen after its recorded end is taken for expired.
InspectedStateOptimistic(class, late) ==
    CASE class = "indeterminate" -> "indeterminate"
      [] late -> "expired"
      [] class = "inspect_active" -> "active"
      [] OTHER -> "failed"

\* What an inspection makes of the action; late: completed at or after the
\* expected end, which nobody knows while an add is unresolved.
InspectedState(class, late) ==
    CASE class = "indeterminate" -> "indeterminate"
      [] class = "inspect_active" -> IF late THEN "failed" ELSE "active"
      [] class = "inspect_absent" ->
            IF action.state = "active" /\ late THEN "expired" ELSE "failed"

RevokedState(class, late) ==
    CASE class = "revoked" ->
            IF late \/ action.state = "expired" THEN "expired" ELSE "revoked"
      [] OTHER -> class

AddedState(class) ==
    IF class \in {"applied", "recovered_active"} THEN "active" ELSE class

NextState(j) ==
    CASE j = AddJob -> AddedState(job[j].class)
      [] j = RevokeJob -> RevokedState(job[j].class, job[j].late)
      [] OTHER -> InspectedState(job[j].class, job[j].late)

\* Mutant: every active read-back renews the expected end.
NextExpiresRenewed(j) ==
    IF NextState(j) = "active" THEN job[j].left ELSE action.expires

\* A known end is never moved back; an unresolved add that is gone has none.
NextExpires(j) ==
    CASE NextState(j) = "active" /\ action.state # "active" ->
            Min2(job[j].left, action.expires)
      [] job[j].class = "inspect_absent" /\ action.state = "indeterminate" -> Unknown
      [] OTHER -> action.expires

NextAction(j) ==
    IF NextState(j) = action.state THEN action
    ELSE [state |-> NextState(j), version |-> action.version + 1,
          expires |-> NextExpires(j)]

\* Mutant: an indeterminate result is not followed up.
ReschedulesActive(j) == j # RevokeJob /\ NextState(j) = "active"

\* The block may still stand and nobody has been told to remove it.
Reschedules(j) == j # RevokeJob /\ NextState(j) \in Standing

\* Mutant: the inspection just done is left dispatched.
LeaveOpen(j) == sched

\* The schedule behind an inspection is over.
Settle(j) ==
    IF j \notin Slots THEN sched
    ELSE [sched EXCEPT ![j] =
             [NoSchedule EXCEPT !.state =
                 IF job[j].class = "inspect_active" /\ job[j].late THEN "dead"
                 ELSE "completed"]]

NextSchedule(j) ==
    [NoSchedule EXCEPT
        !.state = "pending",
        !.version = NextAction(j).version,
        !.due = IF NextState(j) = "active" THEN Min2(NextExpires(j), job[j].again)
                ELSE job[j].again]

\* One transaction; a replay of a stored result changes nothing.
RecordResult(j) ==
    /\ job[j].run = "done"
    /\ Accepts(j)
    /\ action' = NextAction(j)
    /\ revoke' = IF j = RevokeJob THEN [revoke EXCEPT !.state = job[j].class] ELSE revoke
    /\ IF Reschedules(j)
       THEN \E s \in Slots \ {j} :
               /\ ~ Live(s)
               /\ sched' = [Settle(j) EXCEPT ![s] = NextSchedule(j)]
               /\ job' = [job EXCEPT ![j] = StoredJob, ![s] = NoJob]
       ELSE /\ sched' = Settle(j)
            /\ job' = [job EXCEPT ![j] = StoredJob]
    /\ UNCHANGED <<element, challenge, proc, faults>>

----------------------------------------------------------------------------
(* The kernel and the clock *)

\* The owned set is flushed from outside.
LoseElement ==
    /\ element > 0 /\ Fault
    /\ element' = 0
    /\ UNCHANGED <<action, sched, job, revoke, challenge, proc>>

\* An operation is over within MaxOperationDuration, one instant here.
Overrun == \E j \in Jobs : job[j].run = "observed" /\ job[j].span < TTL

JobLater(r) ==
    [r EXCEPT !.valid = Dec(@), !.window = Dec(@), !.span = Dec(@),
              !.left = IF r.run = "done" THEN Dec(@) ELSE @, !.again = Dec(@)]

Tick ==
    /\ ~ Overrun
    /\ element' = Dec(element)
    /\ action' = [action EXCEPT !.expires = IF @ = Unknown THEN @ ELSE Dec(@)]
    /\ sched' = [s \in Slots |-> [sched[s] EXCEPT !.due = Dec(@), !.lease = Dec(@)]]
    /\ job' = [j \in Jobs |-> JobLater(job[j])]
    /\ challenge' = [a \in Admins |-> [challenge[a] EXCEPT !.until = Dec(@)]]
    /\ UNCHANGED <<revoke, proc, faults>>

Dispatching(j) ==
    \/ ClaimJob(j) \/ RecordCapability(j) \/ HandBack(j)
    \/ Execute(j) \/ ExecuteBadly(j) \/ CrashExecutor(j) \/ Recover(j)
    \/ Complete(j) \/ RecordResult(j)

Next ==
    \/ \E w \in Workers : ClaimNothing(w) \/ CrashWorker(w)
    \/ \E w \in Workers, s \in Slots :
          Claim(w, s) \/ CommitInspection(w, s) \/ FinishFailure(w, s)
    \/ \E a \in Admins : IssueChallenge(a) \/ CommitRevocation(a)
    \/ \E j \in Jobs : Dispatching(j)
    \/ LoseElement
    \/ Tick

Spec == Init /\ [][Next]_vars

\* Workers, the dispatcher and the executor poll and are restarted when they
\* die; time passes.  Nobody is obliged to revoke.
Fairness ==
    /\ WF_vars(Tick)
    /\ WF_vars(\E w \in Workers : ClaimNothing(w))
    /\ WF_vars(\E w \in Workers, s \in Slots : Claim(w, s))
    /\ \A w \in Workers, s \in Slots : WF_vars(CommitInspection(w, s))
    /\ \A j \in Jobs : WF_vars(Dispatching(j))

FairSpec == Spec /\ Fairness

----------------------------------------------------------------------------
(* Properties *)

Times == 0 .. (TTL + Interval + Soon + Authority + CapabilityTTL + Lease + Backoff + 1)

\* Every variable keeps its type, and neither a schedule nor a job is claimed more
\* often than its attempts allow.
TypeOK ==
    /\ element \in 0 .. TTL
    /\ action \in [state : {"queued"} \cup Standing \cup Terminal, version : Nat,
                   expires : 0 .. Unknown]
    /\ sched \in [Slots -> [state : LiveStates \cup {"none", "completed", "dead"},
                            version : Nat, due : Times, attempts : 0 .. MaxAttempts,
                            holder : Workers \cup {NoOne}, lease : 0 .. Lease]]
    /\ DOMAIN job = Jobs
    /\ \A j \in Jobs : job[j].attempts \in 0 .. MaxAttempts
    /\ revoke.state \in {"none", "authorized", "queued", "revoked", "failed",
                         "indeterminate"}
    /\ proc \in [Workers -> Slots \cup {NoSlot}]
    /\ faults \in 0 .. MaxFaults

\* At any time at most one inspection of the action is scheduled, claimed or
\* dispatched: record_execution_result closes one in the transaction that opens
\* the next, whatever workers claim, lose or commit in between.  It is bound to the
\* current version of an action that may still stand: the sweep for stale bindings,
\* and the exception for an inspection that crosses an action version, are never
\* needed.
OneLiveSchedule ==
    /\ \A s, t \in Slots : Live(s) /\ Live(t) => s = t
    /\ \A s \in Slots : Live(s) => Bound(s)

\* Every result that the executor has signed is accepted by the database: no
\* transition of the action, and no revocation committed while the operation
\* was in flight, makes a signed result impossible to record.
ResultsAreAccepted == \A j \in Jobs : job[j].run = "done" => Accepts(j)

\* Between the commit of a revocation and its result nothing else can move the
\* action: no inspection is live, and the action keeps the version revoked.
RevocationIsExclusive ==
    revoke.state \in {"authorized", "queued"} =>
        /\ action.version = revoke.version
        /\ \A s \in Slots : ~ Live(s)

\* An action recorded as expired or revoked has no element in the kernel, an
\* expired one has passed its expected end, and a revoked one was removed by
\* the result of its own revocation.
EndsAreHonest ==
    /\ action.state \in {"expired", "revoked"} => element = 0
    /\ action.state = "expired" => action.expires = 0
    /\ action.state = "revoked" => revoke.state = "revoked"

\* No step moves the expected end of a block further away, and a state of the
\* end of the action's life is never left.
NeverExtended ==
    [][/\ action.expires # Unknown =>
             action'.expires <= action.expires \/ action'.state = "failed"
       /\ action.state \in Terminal => action'.state = action.state]_vars

\* A job that will never be handed to the executor: given up, its authority
\* over, its attempts spent, or its capability never delivered in time.
Undeliverable(j) ==
    \/ /\ job[j].run = "none"
       /\ \/ job[j].state = "dead"
          \/ job[j].state = "pending" /\ (job[j].valid = 0 \/ job[j].attempts = MaxAttempts)
    \/ job[j].run = "issued" /\ job[j].window = 0

\* The three ways in which the code stops looking at a block: its job cannot be
\* delivered any more, its schedule has spent its attempts, or its revocation
\* ended without an answer.
Abandoned ==
    \/ \E j \in {AddJob, RevokeJob} : Undeliverable(j)
    \/ \E s \in Slots : sched[s].state = "dispatched" /\ Undeliverable(s)
    \/ \E s \in Slots : sched[s].state = "dead" /\ sched[s].attempts = MaxAttempts
    \/ revoke.state = "indeterminate"

\* An action that stands is followed until it is expired, failed or revoked,
\* unless one of the three known reasons stops the inspections.
StandingSettles ==
    [](action.state \in Standing => <>(action.state \in Terminal \/ Abandoned))

\* docs/TDD.md:445: a newly authorized signed inspect lifecycle resolves an
\* indeterminate state.  record_execution_result schedules no inspection for
\* the indeterminate result of a revocation.
RevocationIsResolved ==
    [](revoke.state = "indeterminate" => <>(action.state # "indeterminate"))
=============================================================================
