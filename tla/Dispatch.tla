------------------------------ MODULE Dispatch ------------------------------
(***************************************************************************)
(* Dispatchers (src/internal/dispatchruntime over dispatchstore and the      *)
(* dispatch functions of src/db/migrations) moving approved adds from the    *)
(* outbox to the executor.  A dispatcher leases a job, mints one signed      *)
(* capability, stores it, exchanges it over a Unix socket and stores the     *)
(* executor's signed result.  Every step may be the last before the process  *)
(* dies, every commit may succeed and report an error, and a request may     *)
(* reach the executor long after its sender gave up.                         *)
(*                                                                           *)
(* The executor is its contract, SingleUse, which Executor implements.       *)
(* Time is kept as time left: a lease, a capability, a back-off and an       *)
(* approval each count down, so that behaviours may run for ever in finitely *)
(* many states.  The lease token is the identity of the last claimant: a     *)
(* dispatcher drops its claim before it claims again.                        *)
(***************************************************************************)
EXTENDS Capability, FiniteSets

CONSTANTS
    Jobs,                   \* approved dispatch_add rows
    Dispatchers,
    NoJob, NoCap, NoResult, NoOne,
    Lease,                  \* Config.LeaseDuration
    CapabilityTTL,          \* Config.CapabilityTTL
    RetryBackoff,           \* retryDelay
    Validity,               \* instants at which the approval may be dispatched
    MaxAttempts,            \* outbox_jobs.max_attempts
    SameLeaseAttempts,      \* Config.SameLeaseAttempts
    PersistenceTries,       \* Config.ResultPersistenceTries
    MaxFaults               \* bound: crashes, lost messages and failed commits

ASSUME DispatchAssumption ==
    /\ {Lease, CapabilityTTL, MaxAttempts, SameLeaseAttempts, PersistenceTries}
          \subseteq Nat \ {0}
    /\ {RetryBackoff, Validity, MaxFaults} \subseteq Nat
    /\ NoOne \notin Dispatchers
    /\ NoJob \notin Jobs
    /\ NoCap \notin Jobs \X Nat
    /\ NoResult \notin Result

\* An ordinary claim mints at most one capability, named by its attempt.
Caps == Jobs \X (1 .. MaxAttempts)

JobOf(c) == c[1]

AttemptOf(c) == c[2]

VARIABLES
    job,        \* outbox_jobs
    capOf,      \* execution_capabilities: the row of the job, or NoCap
    resultOf,   \* execution_results: the row of the job, or NoResult
    action,     \* enforcement_actions.state
    evidence,   \* policy_evidence_is_current for the job's policy
    valid,      \* instants left to operation.valid_until, this one included
    left,       \* left[c]: ticks left to the end of the capability's window
    late,       \* capabilities whose verdict says it started after expiry
    proc,       \* the dispatcher processes
    requests,   \* requests at the executor's socket
    running,    \* capabilities with an executor call in progress
    faults,     \* faults still to come
    phase, used, verdict, answers

EX == INSTANCE SingleUse

dbVars == <<job, capOf, resultOf, action>>
clockVars == <<evidence, valid, left>>
exVars == <<phase, used, verdict, answers>>
vars == <<dbVars, clockVars, late, proc, requests, running, faults, exVars>>

Min2(a, b) == IF a < b THEN a ELSE b

IdleProc ==
    [pc |-> "idle", job |-> NoJob, attempt |-> 0, window |-> 0, cap |-> NoCap,
     recovery |-> FALSE, retry |-> FALSE, tries |-> 0, result |-> NoResult]

Init ==
    /\ job = [j \in Jobs |-> [state |-> "pending", holder |-> NoOne, lease |-> 0,
                              attempts |-> 0, wait |-> 0]]
    /\ capOf = [j \in Jobs |-> NoCap]
    /\ resultOf = [j \in Jobs |-> NoResult]
    /\ action = [j \in Jobs |-> "approved"]
    /\ evidence = [j \in Jobs |-> TRUE]
    /\ valid = [j \in Jobs |-> Validity]
    /\ left = [c \in Caps |-> 0]
    /\ late = {}
    /\ proc = [d \in Dispatchers |-> IdleProc]
    /\ requests = {}
    /\ running = {}
    /\ faults = MaxFaults
    /\ EX!ContractInit

\* The process continues, or ends its attempt.
Goto(d, pc) == proc' = [proc EXCEPT ![d] = [@ EXCEPT !.pc = pc, !.tries = 0]]
Release(d) == proc' = [proc EXCEPT ![d] = IdleProc]
\* ErrRecoverRequired: Run returns and the process exits.
Stop(d) == proc' = [proc EXCEPT ![d] = [IdleProc EXCEPT !.pc = "stopped"]]
Fail(d, retry) ==
    proc' = [proc EXCEPT ![d] = [@ EXCEPT !.pc = "fail", !.retry = retry]]

Fault == faults > 0 /\ faults' = faults - 1
NoFault == UNCHANGED faults

\* The database still fences the job for this claim: token and strict expiry.
Live(d) ==
    LET row == job[proc[d].job]
    IN  row.state = "leased" /\ row.holder = d /\ row.lease > 0

----------------------------------------------------------------------------
(* Claims *)

LapsedLease(j) == job[j].state = "leased" /\ job[j].lease = 0

\* Mutant: recovery drawn from the ordinary attempt budget.
RecoveryWithinAttempts(j) ==
    /\ capOf[j] # NoCap /\ left[capOf[j]] = 0 /\ LapsedLease(j)
    /\ job[j].attempts < MaxAttempts

\* dispatcher_recovery_outbox
RecoveryEligible(j) ==
    capOf[j] # NoCap /\ left[capOf[j]] = 0 /\ LapsedLease(j)

\* Mutant: no bound on attempts.
EligibleForEver(j) ==
    /\ capOf[j] = NoCap
    /\ \/ job[j].state \in {"pending", "retry"} /\ job[j].wait = 0
       \/ LapsedLease(j)
    /\ valid[j] > 0
    /\ evidence[j]
    /\ action[j] \in {"approved", "queued"}

\* dispatcher_approved_outbox and claim_dispatch_job
Eligible(j) ==
    /\ capOf[j] = NoCap
    /\ \/ job[j].state \in {"pending", "retry"} /\ job[j].wait = 0
       \/ LapsedLease(j)
    /\ job[j].attempts < MaxAttempts
    /\ valid[j] > 0
    /\ evidence[j]
    /\ action[j] \in {"approved", "queued"}

\* The claim commits; its process learns so, or sees an error and idles.
Claimed(d, claim) ==
    \/ proc' = [proc EXCEPT ![d] = claim] /\ NoFault
    \/ Release(d) /\ Fault

ClaimRecovery(d, j) ==
    /\ proc[d].pc = "idle"
    /\ RecoveryEligible(j)
    /\ job' = [job EXCEPT ![j].holder = d, ![j].lease = Lease]
    /\ Claimed(d, [IdleProc EXCEPT !.pc = "recover", !.job = j, !.recovery = TRUE])
    /\ UNCHANGED <<capOf, resultOf, action, clockVars, late, requests, running, exVars>>

NoRecovery(d) ==
    /\ proc[d].pc = "idle"
    /\ ~ \E j \in Jobs : RecoveryEligible(j)
    /\ \E j \in Jobs : Eligible(j)
    /\ Goto(d, "claim")
    /\ UNCHANGED <<dbVars, clockVars, late, requests, running, faults, exVars>>

\* Mutant: the window ignores the lease and the TTL.
WindowOfApproval(j) == valid[j] - 1

\* capabilityWindow: counted from the claim, within its lease and the approval.
\* At the last instant of the approval it is empty.
Window(j) == Min2(CapabilityTTL, Min2(Lease, valid[j] - 1))

Claim(d, j) ==
    LET attempt == job[j].attempts + 1
    IN  /\ proc[d].pc = "claim"
        /\ Eligible(j)
        /\ job' = [job EXCEPT ![j] = [@ EXCEPT !.state = "leased", !.holder = d,
                                               !.lease = Lease, !.attempts = attempt]]
        /\ left' = [left EXCEPT ![<<j, attempt>>] = Window(j)]
        /\ Claimed(d, [IdleProc EXCEPT !.pc = "recover", !.job = j,
                                       !.attempt = attempt, !.window = Window(j)])
        /\ UNCHANGED <<capOf, resultOf, action, evidence, valid, late, requests,
                       running, exVars>>

\* ClaimNext finds nothing: another dispatcher was faster, or time passed.
NoWork(d) ==
    /\ proc[d].pc = "claim"
    /\ ~ \E j \in Jobs : Eligible(j)
    /\ Release(d)
    /\ UNCHANGED <<dbVars, clockVars, late, requests, running, faults, exVars>>

----------------------------------------------------------------------------
(* From a claim to a stored capability *)

\* validPostExpiryResult: a result started after expiry attests no mutation.
ValidPostExpiry(c, r) ==
    c \in late => /\ r.exit = "not_invoked"
                  /\ r.class \in {"recovered_active", "failed", "indeterminate"}

\* ProcessNext after Store.Recover: what the stored artifacts leave to do.
Resume(d) ==
    LET p == proc[d]
        c == capOf[p.job]
        r == resultOf[p.job]
        To(pc, recovery) ==
            proc' = [proc EXCEPT ![d] = [p EXCEPT !.pc = pc, !.cap = c,
                                         !.result = r, !.recovery = recovery]]
    IN  IF r # NoResult
        THEN IF ValidPostExpiry(c, r) THEN To("finish", p.recovery) ELSE Stop(d)
        ELSE IF c # NoCap THEN To("exchange", p.recovery \/ left[c] = 0)
        ELSE IF p.recovery THEN Stop(d) ELSE To("issue", FALSE)

Recover(d) ==
    /\ proc[d].pc = "recover"
    /\ \/ Live(d) /\ Resume(d) /\ NoFault
       \/ ~Live(d) /\ Stop(d) /\ NoFault
       \/ Stop(d) /\ Fault
    /\ UNCHANGED <<dbVars, clockVars, late, requests, running, exVars>>

\* Mutant: the capability is sent without being stored.
IssueAndSend(d) ==
    LET p == proc[d]
    IN  /\ p.pc = "issue"
        /\ \/ /\ p.window > 0
              /\ proc' = [proc EXCEPT ![d].pc = "exchange", ![d].cap = <<p.job, p.attempt>>]
              /\ NoFault
           \/ p.window = 0 /\ Fail(d, FALSE) /\ NoFault
        /\ UNCHANGED <<dbVars, clockVars, late, requests, running, exVars>>

Issue(d) ==
    LET p == proc[d]
    IN  /\ p.pc = "issue"
        /\ \/ /\ p.window > 0
              /\ proc' = [proc EXCEPT ![d].pc = "store", ![d].cap = <<p.job, p.attempt>>]
              /\ NoFault
           \* ProcessNext takes an empty window for a broken contract
           \/ p.window = 0 /\ Fail(d, FALSE) /\ NoFault
           \* no entropy, or shutdown before the capability is stored
           \/ Fail(d, TRUE) /\ Fault
        /\ UNCHANGED <<dbVars, clockVars, late, requests, running, exVars>>

\* record_execution_capability: the row, and the add's action queued with it.
RecordCapability(j, c) ==
    /\ capOf' = [capOf EXCEPT ![j] = c]
    /\ action' = [action EXCEPT ![j] = "queued"]
    /\ UNCHANGED <<job, resultOf>>

\* Mutant: a failed commit is taken for a stored capability.
PersistOptimistically(d) ==
    LET p == proc[d]
    IN  /\ p.pc = "store" /\ Live(d)
        /\ \/ /\ capOf[p.job] = NoCap /\ RecordCapability(p.job, p.cap)
              /\ Goto(d, "exchange") /\ NoFault
           \/ Goto(d, "exchange") /\ Fault /\ UNCHANGED dbVars
        /\ UNCHANGED <<clockVars, late, requests, running, exVars>>

\* Mutant: a commit of unknown outcome is taken for a failure to retry.
PersistOrRetry(d) ==
    LET p == proc[d]
    IN  /\ p.pc = "store" /\ Live(d)
        /\ capOf[p.job] = NoCap /\ RecordCapability(p.job, p.cap)
        /\ ((Goto(d, "exchange") /\ NoFault) \/ (Fail(d, TRUE) /\ Fault))
        /\ UNCHANGED <<clockVars, late, requests, running, exVars>>

PersistCapability(d) ==
    LET p == proc[d]
        fresh == capOf[p.job] = NoCap
    IN  /\ p.pc = "store"
        /\ \/ /\ Live(d) /\ fresh /\ evidence[p.job]
              /\ RecordCapability(p.job, p.cap)
              /\ ((Goto(d, "exchange") /\ NoFault) \/ (Stop(d) /\ Fault))
           \/ /\ Live(d) /\ ~(fresh /\ evidence[p.job])
              /\ IF fresh THEN Fail(d, FALSE) ELSE Stop(d)
              /\ NoFault /\ UNCHANGED dbVars
           \/ ~Live(d) /\ Release(d) /\ NoFault /\ UNCHANGED dbVars
           \/ Stop(d) /\ Fault /\ UNCHANGED dbVars
        /\ UNCHANGED <<clockVars, late, requests, running, exVars>>

\* finishFailure: retry while attempts remain, else dead; an error idles.
FinishFailure(d) ==
    LET p == proc[d]
        again == p.retry /\ p.attempt < MaxAttempts
        finished == [job EXCEPT ![p.job] = [@ EXCEPT
                        !.state = IF again THEN "retry" ELSE "dead",
                        !.holder = NoOne, !.lease = 0,
                        !.wait = IF again THEN RetryBackoff ELSE @]]
    IN  /\ p.pc = "fail"
        /\ Release(d)
        /\ \/ Live(d) /\ job' = finished /\ NoFault
           \/ Live(d) /\ job' = finished /\ Fault
           \/ ~Live(d) /\ UNCHANGED job /\ NoFault
           \/ UNCHANGED job /\ Fault
        /\ UNCHANGED <<capOf, resultOf, action, clockVars, late, requests, running, exVars>>

----------------------------------------------------------------------------
(* The exchange *)

\* exchangeSameLease and exchangeRecoverySameLease
Exchange(d) ==
    LET p == proc[d]
    IN  /\ p.pc = "exchange"
        /\ IF Live(d) /\ (p.recovery \/ left[p.cap] > 0)
           THEN /\ proc' = [proc EXCEPT ![d].pc = "await", ![d].tries = @ + 1]
                /\ requests' = requests \union
                      {[from |-> d, cap |-> p.cap, recovery |-> p.recovery]}
           ELSE Stop(d) /\ UNCHANGED requests
        /\ UNCHANGED <<dbVars, clockVars, late, running, faults, exVars>>

RequestsOf(d) == {q \in requests : q.from = d}

\* The sender is gone; what it wrote may still be read.
Orphaned(d) ==
    (requests \ RequestsOf(d)) \union {[q EXCEPT !.from = NoOne] : q \in RequestsOf(d)}

\* ErrTransport: a refusal closes the connection, a deadline abandons it.
TransportError(d) ==
    LET p == proc[d]
    IN  /\ p.pc = "await"
        /\ \/ RequestsOf(d) = {} /\ UNCHANGED <<requests, faults>>
           \/ RequestsOf(d) # {} /\ requests' = Orphaned(d) /\ Fault
        /\ IF p.tries < SameLeaseAttempts
           THEN proc' = [proc EXCEPT ![d].pc = "exchange"]
           ELSE Stop(d)
        /\ UNCHANGED <<dbVars, clockVars, late, running, exVars>>

----------------------------------------------------------------------------
(* From a result to a finished job *)

\* record_execution_result for an add, when the row is new
NextActionState(r) ==
    CASE r.class \in {"applied", "recovered_active"} -> "active"
      [] r.class = "failed" -> "failed"
      [] r.class = "indeterminate" -> "indeterminate"

\* Mutant: the result is stored without applying it to the action.
RecordResultOnly(j, r) ==
    /\ resultOf' = [resultOf EXCEPT ![j] = r]
    /\ UNCHANGED <<job, capOf, action>>

RecordResult(j, r) ==
    /\ resultOf' = [resultOf EXCEPT ![j] = r]
    /\ action' = [action EXCEPT ![j] = NextActionState(r)]
    /\ UNCHANGED <<job, capOf>>

\* ErrUnavailable: the same signed bytes are offered again.
PersistAgain(d) ==
    IF proc[d].tries + 1 < PersistenceTries
    THEN proc' = [proc EXCEPT ![d].tries = @ + 1]
    ELSE Stop(d)

PersistResult(d) ==
    LET p == proc[d]
        Store == IF resultOf[p.job] = p.result
                 THEN UNCHANGED dbVars
                 ELSE RecordResult(p.job, p.result)
        conflict == resultOf[p.job] \notin {NoResult, p.result}
    IN  /\ p.pc = "persist"
        /\ \/ /\ Live(d) /\ ~conflict
              /\ Store
              /\ ((Goto(d, "finish") /\ NoFault) \/ (PersistAgain(d) /\ Fault))
           \/ (~Live(d) \/ conflict) /\ Stop(d) /\ NoFault /\ UNCHANGED dbVars
           \/ PersistAgain(d) /\ Fault /\ UNCHANGED dbVars
        /\ UNCHANGED <<clockVars, late, requests, running, exVars>>

\* Finish(FinishCompleted): the result row must be there.
FinishCompleted(d) ==
    LET j == proc[d].job
        completed == [job EXCEPT ![j] = [@ EXCEPT !.state = "completed",
                                                  !.holder = NoOne, !.lease = 0]]
    IN  /\ proc[d].pc = "finish"
        /\ \/ /\ Live(d) /\ resultOf[j] # NoResult
              /\ job' = completed
              /\ ((Release(d) /\ NoFault) \/ (Stop(d) /\ Fault))
           \/ ~Live(d) /\ Stop(d) /\ NoFault /\ UNCHANGED job
           \/ Stop(d) /\ Fault /\ UNCHANGED job
        /\ UNCHANGED <<capOf, resultOf, action, clockVars, late, requests, running, exVars>>

----------------------------------------------------------------------------
(* The executor, through its contract *)

\* Results the executor attests for an add; boots are told apart elsewhere.
Attested(class, exit) ==
    [class |-> class, exit |-> exit, boot |-> 1,
     readback |-> CASE class \in {"applied", "recovered_active"} -> "active"
                    [] class = "failed" -> "absent"
                    [] class = "indeterminate" -> "unavailable"]

\* addResult, by whether nft changed the set
CallVerdicts(c) ==
    IF used[c] = 1
    THEN {Attested("applied", "success"), Attested("indeterminate", "timeout")}
    ELSE {Attested("failed", "not_invoked"), Attested("failed", "nonzero"),
          Attested("indeterminate", "not_invoked")}

\* Mutant: recovery attests the mutation the lost call may have made.
RecoverAsApplied ==
    {Attested("applied", "success"), Attested("indeterminate", "not_invoked")}

\* recoveredAddResult
RecoverVerdicts ==
    {Attested("recovered_active", "not_invoked"),
     Attested("indeterminate", "not_invoked")}

\* Process reaches journal.Begin for an unseen, unexpired capability.
ExecutorStart(q) ==
    /\ ~q.recovery /\ left[q.cap] > 0
    /\ EX!Spend(q.cap)
    /\ running' = running \union {q.cap}
    /\ UNCHANGED <<dbVars, clockVars, late, proc, requests, faults>>

\* nft runs within operationDeadline, which never exceeds the expiry.
ExecutorMutate(c) ==
    /\ c \in running /\ left[c] > 0
    /\ EX!Use(c)
    /\ UNCHANGED <<dbVars, clockVars, late, proc, requests, running, faults>>

\* The call completes; its result says it started when the call did.
ExecutorComplete(c) ==
    /\ c \in running
    /\ \E r \in CallVerdicts(c) : verdict' = [verdict EXCEPT ![c] = r]
    /\ EX!Settle(c)
    /\ running' = running \ {c}
    /\ UNCHANGED <<dbVars, clockVars, late, proc, requests, faults>>

\* A capability only ever started, seen again: read-back, never a mutation.
ExecutorRecover(q) ==
    /\ q.cap \notin running
    /\ \E r \in RecoverVerdicts : verdict' = [verdict EXCEPT ![q.cap] = r]
    /\ EX!Settle(q.cap)
    /\ late' = IF left[q.cap] = 0 THEN late \union {q.cap} ELSE late
    /\ UNCHANGED <<dbVars, clockVars, proc, requests, running, faults>>

\* The stored result goes back; its sender verifies it and goes on to store it.
ExecutorAnswer(q) ==
    LET r == verdict[q.cap]
        d == q.from
    IN  /\ EX!Answer(q.cap)
        /\ requests' = requests \ {q}
        /\ IF d = NoOne THEN UNCHANGED proc
           ELSE IF ValidPostExpiry(q.cap, r)
           THEN proc' = [proc EXCEPT ![d].pc = "persist", ![d].result = r, ![d].tries = 0]
           ELSE Stop(d)
        /\ UNCHANGED <<dbVars, clockVars, late, running, faults>>

\* An unseen capability that lapsed, or that came over the recovery route, is
\* refused without a journal record; so is anything while the answer is lost.
ExecutorRefuse(q) ==
    /\ \/ phase[q.cap] = "fresh" /\ (q.recovery \/ left[q.cap] = 0) /\ NoFault
       \/ Fault
    /\ requests' = requests \ {q}
    /\ UNCHANGED <<dbVars, clockVars, late, proc, running, exVars>>

ExecutorCrash ==
    /\ running # {}
    /\ Fault
    /\ running' = {}
    /\ UNCHANGED <<dbVars, clockVars, late, proc, requests, exVars>>

----------------------------------------------------------------------------
(* The environment *)

Crash(d) ==
    /\ proc[d].pc # "stopped"
    /\ Fault
    /\ Stop(d)
    /\ requests' = Orphaned(d)
    /\ UNCHANGED <<dbVars, clockVars, late, running, exVars>>

\* restart: unless-stopped
Restart(d) ==
    /\ proc[d].pc = "stopped"
    /\ Release(d)
    /\ UNCHANGED <<dbVars, clockVars, late, requests, running, faults, exVars>>

\* New evidence supersedes the policy's snapshot.
EvidenceMoves(j) ==
    /\ evidence[j]
    /\ evidence' = [evidence EXCEPT ![j] = FALSE]
    /\ UNCHANGED <<dbVars, valid, left, late, proc, requests, running, faults, exVars>>

Less(n) == IF n = 0 THEN 0 ELSE n - 1

Tick ==
    /\ \/ \E j \in Jobs : job[j].lease > 0 \/ job[j].wait > 0 \/ valid[j] > 0
       \/ \E c \in Caps : left[c] > 0
    /\ job' = [j \in Jobs |-> [job[j] EXCEPT !.lease = Less(@), !.wait = Less(@)]]
    /\ valid' = [j \in Jobs |-> Less(valid[j])]
    /\ left' = [c \in Caps |-> Less(left[c])]
    /\ UNCHANGED <<capOf, resultOf, action, evidence, late, proc, requests, running,
                   faults, exVars>>

Step(d) ==
    \/ \E j \in Jobs : ClaimRecovery(d, j) \/ Claim(d, j)
    \/ NoRecovery(d) \/ NoWork(d)
    \/ Recover(d) \/ Issue(d) \/ PersistCapability(d) \/ FinishFailure(d)
    \/ Exchange(d) \/ TransportError(d)
    \/ PersistResult(d) \/ FinishCompleted(d)
    \/ Restart(d)

ExecutorStep ==
    \/ \E q \in requests :
          ExecutorStart(q) \/ ExecutorRecover(q) \/ ExecutorAnswer(q) \/ ExecutorRefuse(q)
    \/ \E c \in running : ExecutorMutate(c) \/ ExecutorComplete(c)

Next ==
    \/ \E d \in Dispatchers : Step(d) \/ Crash(d)
    \/ ExecutorStep \/ ExecutorCrash
    \/ \E j \in Jobs : EvidenceMoves(j)
    \/ Tick

Spec == Init /\ [][Next]_vars

\* Processes and the executor keep running, the restart policy brings a stopped
\* dispatcher back, and time passes; nothing is assumed of faults.  A lease is
\* long (60 s) against a step taken under it, so a step that finds the lease
\* live again and again is sooner or later taken while it is.
Fairness ==
    /\ WF_vars(Tick)
    /\ WF_vars(ExecutorStep)
    /\ \A d \in Dispatchers :
          /\ WF_vars(Step(d))
          /\ SF_vars(Recover(d) /\ Live(d))
          /\ SF_vars(Exchange(d) /\ Live(d))
          /\ SF_vars(\E q \in RequestsOf(d) : ExecutorAnswer(q) /\ Live(d))
          /\ SF_vars(PersistResult(d) /\ Live(d))
          /\ SF_vars(FinishCompleted(d) /\ Live(d))

FairSpec == Spec /\ Fairness

----------------------------------------------------------------------------
(* Properties *)

Procs ==
    [pc : {"idle", "claim", "recover", "issue", "store", "fail", "exchange",
           "await", "persist", "finish", "stopped"},
     job : Jobs \union {NoJob}, attempt : 0 .. MaxAttempts, window : Nat,
     cap : Caps \union {NoCap}, recovery : BOOLEAN, retry : BOOLEAN,
     tries : Nat, result : Result \union {NoResult}]

\* Every variable of the dispatch path keeps its type.
TypeOK ==
    /\ job \in [Jobs -> [state : {"pending", "leased", "retry", "completed", "dead"},
                         holder : Dispatchers \union {NoOne}, lease : 0 .. Lease,
                         attempts : 0 .. MaxAttempts, wait : 0 .. RetryBackoff]]
    /\ capOf \in [Jobs -> Caps \union {NoCap}]
    /\ resultOf \in [Jobs -> Result \union {NoResult}]
    /\ action \in [Jobs -> {"approved", "queued", "active", "failed", "indeterminate"}]
    /\ evidence \in [Jobs -> BOOLEAN]
    /\ valid \in [Jobs -> 0 .. Validity]
    /\ left \in [Caps -> Nat]
    /\ late \subseteq Caps
    /\ proc \in [Dispatchers -> Procs]
    /\ requests \subseteq [from : Dispatchers \union {NoOne}, cap : Caps, recovery : BOOLEAN]
    /\ running \subseteq Caps
    /\ faults \in 0 .. MaxFaults
    /\ phase \in [Caps -> {"fresh", "spent", "settled"}]
    /\ used \in [Caps -> 0 .. 1]
    /\ verdict \in [Caps -> Result \union {NoResult}]

\* However many dispatchers mint a capability for a job, the executor only ever
\* meets the one whose row was stored first: a capability at the socket or in
\* the journal is the row of its job.
OnlyStoredAuthority ==
    \A c \in Caps :
        ((\E q \in requests : q.cap = c) \/ phase[c] # "fresh") => capOf[JobOf(c)] = c

\* An approved job changes the firewall at most once, over all its attempts,
\* dispatchers, recoveries and late requests.
JobAppliedOnce ==
    \A j \in Jobs : Cardinality({c \in Caps : JobOf(c) = j /\ used[c] = 1}) <= 1

\* A job given up (dead) or given back (retry) has no capability out: not in
\* its row, not at the socket, not in the executor, and never will.
GivenUpIsUnused ==
    \A j \in Jobs :
        job[j].state \in {"pending", "retry", "dead"} =>
            /\ capOf[j] = NoCap
            /\ \A c \in Caps : JobOf(c) = j => phase[c] = "fresh"
            /\ \A q \in requests : JobOf(q.cap) # j

\* What the database says happened is what the executor attested, and the
\* action's state follows it; a completed job has such a result.
StoredIsAttested ==
    \A j \in Jobs :
        /\ resultOf[j] # NoResult =>
              /\ capOf[j] # NoCap
              /\ resultOf[j] = verdict[capOf[j]]
              /\ action[j] = NextActionState(resultOf[j])
        /\ job[j].state = "completed" => resultOf[j] # NoResult

\* record_execution_result (mutation_invoked) repeats the dispatcher's check on
\* late results in its own words.
RecordableResult(c, r) ==
    LET invoked == \/ r.class = "applied"
                   \/ r.class \in {"failed", "indeterminate"} /\ r.exit # "not_invoked"
    IN  c \in late => ~invoked

\* Every verdict the executor may settle on passes the dispatcher's check and
\* the database's: a job is never left with a result nobody will store.
VerdictsAreStorable ==
    \A c \in Caps : phase[c] = "settled" =>
        ValidPostExpiry(c, verdict[c]) /\ RecordableResult(c, verdict[c])

\* nft changes the set only under the very lease that minted the capability:
\* never once the job may be claimed again, never under a recovery claim.
MutatesUnderItsLease ==
    [][\A c \in Caps : used'[c] # used[c] =>
          /\ job[JobOf(c)].state = "leased"
          /\ job[JobOf(c)].lease > 0
          /\ job[JobOf(c)].attempts = AttemptOf(c)
          /\ \A d \in Dispatchers :
                (proc[d].job = JobOf(c) /\ Live(d)) => ~proc[d].recovery]_vars

\* Once the executor has journalled a capability, its job completes, with a
\* finite number of faults: the restarted dispatchers recover the answer.
StartedCompletes ==
    \A j \in Jobs :
        (capOf[j] # NoCap /\ phase[capOf[j]] # "fresh") ~> job[j].state = "completed"
=============================================================================
