------------------------------ MODULE Executor ------------------------------
(***************************************************************************)
(* The isolated executor (src/internal/enforcement/executor): connections    *)
(* served by executorserver deliver signed capabilities, a one-token gate     *)
(* serialises the service, the journal decides whether a capability may       *)
(* still mutate, and nft is invoked and read back.  A worker is one           *)
(* connection; its program counter names the next blocking step, so the       *)
(* clock, other connections, a crash or a power loss may come between.        *)
(***************************************************************************)
EXTENDS Journal

CONSTANTS
    Workers,        \* concurrent connections
    NoWorker,       \* the gate's token is in the channel
    NoCap,          \* the capability of an idle worker; owner of no element
    Targets,        \* IPv4 addresses
    Op,             \* Op[c]: operation of capability c
    Target,         \* Target[c]: its target address
    TTL,            \* TTL[c]: timeout an add gives its element
    NotBefore,      \* NotBefore[c]: start of its validity
    ExpiresAt,      \* ExpiresAt[c]: end of its validity
    MaxOperation,   \* MaxOperationDuration and the exchange timeout: 2 seconds
    PowerFails,     \* whether the machine may lose power
    MaxTime,        \* bound on the clock
    MaxBoots        \* bound on process starts

ASSUME ConstantsAssumption ==
    /\ NoWorker \notin Workers
    /\ NoCap \notin Caps
    /\ Op \in [Caps -> Operations]
    /\ Target \in [Caps -> Targets]
    /\ TTL \in [Caps -> Nat \ {0}]
    /\ NotBefore \in [Caps -> Nat]
    /\ ExpiresAt \in [Caps -> Nat]
    /\ MaxOperation \in Nat \ {0}
    /\ PowerFails \in BOOLEAN
    /\ MaxTime \in Nat
    /\ MaxBoots \in Nat \ {0}

VARIABLES
    now,        \* the clock, in units of which MaxOperation is a few
    boot,       \* how many times the process started
    gate,       \* the worker holding Service.gate, or NoWorker
    worker,     \* worker[w]: the call in progress on connection w
    nft,        \* nft[t]: expiry of t's element in the owned set, and who added it
    invoked,    \* invoked[c]: times nft was run to mutate for c (history)
    replies     \* replies[c]: results ever sent for c (history)

execVars == <<now, boot, gate, worker, nft, invoked, replies>>

vars == <<frames, synced, torn, up, poisoned, indexed,
          now, boot, gate, worker, nft, invoked, replies>>

(***************************************************************************)
(* Calls.                                                                  *)
(***************************************************************************)

Waiting == {"idle", "acquire"}

Holding == {"lookup", "preflight", "begin", "begin_sync", "execute", "mutate",
            "readback", "recover", "finish", "end_sync"}

\* deadline is the context's; started is StartedAt of the result to assess.
Call == [pc : Waiting \union Holding, cap : Caps \union {NoCap},
         recoveryOnly : BOOLEAN, deadline : Nat, started : Nat,
         preflight : ReadbackStates, exit : ExitClasses,
         result : Result \union {NoResult}]

IdleCall == [pc |-> "idle", cap |-> NoCap, recoveryOnly |-> FALSE, deadline |-> 0,
             started |-> 0, preflight |-> "unavailable", exit |-> "not_invoked",
             result |-> NoResult]

Goto(w, label) == worker' = [worker EXCEPT ![w].pc = label]

Release == gate' = NoWorker

\* Mutant: an error path forgets the token.
RejectKeepsGate(w) ==
    /\ worker' = [worker EXCEPT ![w] = IdleCall]
    /\ UNCHANGED <<now, boot, gate, nft, invoked, replies>>

\* The handler returns an error: the connection closes without a response.
Reject(w) ==
    /\ worker' = [worker EXCEPT ![w] = IdleCall]
    /\ Release
    /\ UNCHANGED <<now, boot, nft, invoked, replies>>

Reply(w, r) ==
    /\ worker' = [worker EXCEPT ![w] = IdleCall]
    /\ replies' = [replies EXCEPT ![worker[w].cap] = @ \union {r}]
    /\ Release
    /\ UNCHANGED <<now, boot, nft, invoked>>

Min2(a, b) == IF a <= b THEN a ELSE b

\* checkFreshValue
Fresh(c) == NotBefore[c] <= now /\ now < ExpiresAt[c]

\* A context whose deadline has passed is done.
Expired(w) == now >= worker[w].deadline

\* Mutant: the capability's expiry does not bound the operation.
OperationDeadlineUnbounded(w, c) == Min2(now + MaxOperation, worker[w].deadline)

\* operationDeadline
OperationDeadline(w, c) ==
    Min2(Min2(now + MaxOperation, ExpiresAt[c]), worker[w].deadline)

(***************************************************************************)
(* The owned nftables set and the runner (external: the kernel and nft).    *)
(***************************************************************************)

Absent == [exp |-> 0, by |-> NoCap]

InSet(t) == nft[t].exp > now

\* validateObservation on the set as it is: an element that outlives the
\* expected timeout is a mismatch.
SetAsSeen(t, maxTTL) ==
    IF ~InSet(t) THEN [state |-> "absent", err |-> FALSE]
    ELSE IF maxTTL # 0 /\ nft[t].exp - now > maxTTL
    THEN [state |-> "mismatch", err |-> TRUE]
    ELSE [state |-> "active", err |-> FALSE]

\* What Service.inspect may return: the set as it is, a set whose declaration
\* drifted, or an error, the only answer once the context is done.
Observations(w, maxTTL) ==
    {[state |-> "unavailable", err |-> TRUE]} \union
    (IF Expired(w) THEN {}
     ELSE {[state |-> "mismatch", err |-> FALSE],
           SetAsSeen(Target[worker[w].cap], maxTTL)})

\* The effect of one committed nft transaction for c.
Committed(c) ==
    [nft EXCEPT ![Target[c]] =
        IF Op[c] = "add" THEN [exp |-> now + TTL[c], by |-> c] ELSE Absent]

(***************************************************************************)
(* Results.  failed and indeterminate are the only classes with an error.   *)
(***************************************************************************)

ResultOf(class, exit, readback) ==
    [class |-> class, exit |-> exit, readback |-> readback, boot |-> boot]

\* Mutant: success by exit class alone.
MutationClassByExit(exit, obs, wanted, success) ==
    IF exit = "success" THEN success
    ELSE IF obs.err \/ obs.state \in {"mismatch", "unavailable", wanted}
    THEN "indeterminate"
    ELSE "failed"

\* Mutant: a read-back that could not be taken counts as a failure.
MutationClassBlind(exit, obs, wanted, success) ==
    IF exit = "success" /\ ~obs.err /\ obs.state = wanted THEN success
    ELSE IF obs.state \in {"mismatch", wanted} THEN "indeterminate"
    ELSE "failed"

\* addResult and revokeResult: success needs both a clean exit and the wanted
\* read-back; a read-back that contradicts the exit decides nothing.
MutationClass(exit, obs, wanted, success) ==
    IF exit = "success" /\ ~obs.err /\ obs.state = wanted THEN success
    ELSE IF obs.err \/ obs.state \in {"mismatch", "unavailable", wanted}
    THEN "indeterminate"
    ELSE "failed"

AddResult(exit, obs) ==
    ResultOf(MutationClass(exit, obs, "active", "applied"), exit, obs.state)

RevokeResult(exit, obs) ==
    ResultOf(MutationClass(exit, obs, "absent", "revoked"), exit, obs.state)

InspectResult(w, obs) ==
    LET exit == IF ~obs.err THEN "success" ELSE IF Expired(w) THEN "timeout" ELSE "nonzero"
        class == IF obs.err \/ obs.state = "unavailable" THEN "indeterminate"
                 ELSE CASE obs.state = "active"   -> "inspect_active"
                        [] obs.state = "absent"   -> "inspect_absent"
                        [] obs.state = "mismatch" -> "inspect_mismatch"
    IN ResultOf(class, exit, obs.state)

\* recoveredAddResult, recoveredRevokeResult and inspectResult in recover.
RecoveredResult(w, obs) ==
    CASE Op[worker[w].cap] = "add" ->
            ResultOf(IF ~obs.err /\ obs.state = "active" THEN "recovered_active"
                     ELSE "indeterminate", "not_invoked", obs.state)
      [] Op[worker[w].cap] = "revoke" ->
            ResultOf(IF ~obs.err /\ obs.state = "absent" THEN "revoked"
                     ELSE "indeterminate", "not_invoked", obs.state)
      [] Op[worker[w].cap] = "inspect" -> InspectResult(w, obs)

(***************************************************************************)
(* One call, step by step.                                                 *)
(***************************************************************************)

\* A connection is accepted and its frame decoded; the exchange deadline runs
\* from here.  recoveryOnly is the envelope's flag.
Receive(w, c, rec) ==
    /\ up
    /\ worker[w].pc = "idle"
    /\ worker' = [worker EXCEPT ![w] =
                    [IdleCall EXCEPT !.pc = "acquire", !.cap = c,
                                     !.recoveryOnly = rec,
                                     !.deadline = now + MaxOperation]]
    /\ UNCHANGED <<now, boot, gate, nft, invoked, replies>>
    /\ UNCHANGED journalVars

\* acquire: the token, unless the context is done first.
Acquire(w) ==
    /\ worker[w].pc = "acquire"
    /\ \/ /\ ~Expired(w)
          /\ gate = NoWorker
          /\ gate' = w
          /\ Goto(w, "lookup")
          /\ UNCHANGED <<now, boot, nft, invoked, replies>>
       \/ /\ Expired(w)
          /\ worker' = [worker EXCEPT ![w] = IdleCall]
          /\ UNCHANGED <<now, boot, gate, nft, invoked, replies>>
    /\ UNCHANGED journalVars

\* A capability the journal knows: a terminal one is answered with its stored
\* result, a started-only one enters recover, which starts its own window.
Resume(w) ==
    LET c == worker[w].cap
    IN \/ /\ LookupState(c) = "terminal"
          /\ Reply(w, TerminalOf(c))
       \/ /\ LookupState(c) = "started_only"
          /\ ~Expired(w)
          /\ worker' = [worker EXCEPT ![w].pc = "recover", ![w].started = now,
                          ![w].recoveryOnly = FALSE, ![w].deadline = Min2(now + MaxOperation, @)]
          /\ UNCHANGED <<now, boot, gate, nft, invoked, replies>>
       \/ /\ LookupState(c) = "started_only"
          /\ Expired(w)
          /\ Reject(w)

\* Lookup, then processUnseen up to its operation deadline.  ProcessRecovery
\* refuses an unseen capability outright.
Lookup(w) ==
    LET c == worker[w].cap
    IN /\ worker[w].pc = "lookup"
       /\ \/ /\ Ready
             /\ Resume(w)
          \/ /\ \/ ~Ready
                \/ /\ LookupState(c) = "unseen"
                   /\ worker[w].recoveryOnly \/ ~Fresh(c) \/ Expired(w)
             /\ Reject(w)
          \/ /\ Ready
             /\ LookupState(c) = "unseen"
             /\ ~worker[w].recoveryOnly /\ Fresh(c) /\ ~Expired(w)
             /\ worker' = [worker EXCEPT
                    ![w].pc = IF Op[c] = "inspect" THEN "begin" ELSE "preflight",
                    ![w].deadline = OperationDeadline(w, c)]
             /\ UNCHANGED <<now, boot, gate, nft, invoked, replies>>
       /\ UNCHANGED journalVars

\* The read-back before a mutation.
Preflight(w) ==
    /\ worker[w].pc = "preflight"
    /\ \E obs \in Observations(w, 0) :
          IF obs.err \/ obs.state \in {"mismatch", "unavailable"}
          THEN Reject(w)
          ELSE /\ worker' = [worker EXCEPT ![w].pc = "begin",
                                           ![w].preflight = obs.state]
               /\ UNCHANGED <<now, boot, gate, nft, invoked, replies>>
    /\ UNCHANGED journalVars

\* Freshness again, then Begin: replay state first, else the started frame is
\* written.  Nothing but this call can have started c since its Lookup.
Begin(w) ==
    LET c == worker[w].cap
        timely == Fresh(c) /\ ~Expired(w)
    IN /\ worker[w].pc = "begin"
       /\ \/ /\ ~timely \/ ~Ready \/ (LookupState(c) = "unseen" /\ Full)
             /\ Reject(w)
             /\ UNCHANGED journalVars
          \/ /\ timely /\ Ready
             /\ IF LookupState(c) # "unseen"
                THEN Resume(w) /\ UNCHANGED journalVars
                ELSE /\ AppendWrites(StartedFrame(c))
                     /\ worker' = [worker EXCEPT ![w].pc = "begin_sync",
                                                 ![w].started = now]
                     /\ UNCHANGED <<now, boot, gate, nft, invoked, replies>>
          \/ /\ timely /\ Ready
             /\ LookupState(c) = "unseen"
             /\ AppendFails
             /\ Reject(w)

\* Mutant: an fsync error still yields a permit.
BeginSyncUnchecked(w) ==
    /\ worker[w].pc = "begin_sync"
    /\ AppendSyncs \/ AppendSyncFails
    /\ Goto(w, "execute")
    /\ UNCHANGED <<now, boot, gate, nft, invoked, replies>>

BeginSync(w) ==
    /\ worker[w].pc = "begin_sync"
    /\ \/ /\ AppendSyncs
          /\ Goto(w, "execute")
          /\ UNCHANGED <<now, boot, gate, nft, invoked, replies>>
       \/ /\ AppendSyncFails
          /\ Reject(w)

\* The assessed result goes to finish; what it was assessed from is done with.
Assess(w, r) ==
    /\ worker' = [worker EXCEPT ![w].pc = "finish", ![w].result = r,
                    ![w].preflight = IdleCall.preflight, ![w].exit = IdleCall.exit]
    /\ UNCHANGED <<now, boot, gate, nft, invoked, replies>>

\* Mutant: add does not look at the preflight.
InPlaceRevokeOnly(op, pre) == op = "revoke" /\ pre = "absent"

\* The target is already in the wanted state, and nft is not to be run.
InPlace(op, pre) ==
    \/ op = "add" /\ pre = "active"
    \/ op = "revoke" /\ pre = "absent"

\* execute up to the subprocess: the permit is taken, and a target already in
\* the wanted state is left alone.
Execute(w) ==
    LET c == worker[w].cap
        op == Op[c]
        pre == worker[w].preflight
    IN /\ worker[w].pc = "execute"
       /\ \/ /\ Expired(w)
             /\ Assess(w, ResultOf("failed", "not_invoked", pre))
          \/ /\ ~Expired(w) /\ InPlace(op, pre)
             /\ Assess(w, ResultOf(IF op = "add" THEN "failed" ELSE "revoked",
                                   "not_invoked", pre))
          \/ /\ ~Expired(w) /\ ~InPlace(op, pre)
             /\ Goto(w, IF op = "inspect" THEN "readback" ELSE "mutate")
             /\ UNCHANGED <<now, boot, gate, nft, invoked, replies>>
       /\ UNCHANGED journalVars

\* Runner.Mutate and classifyMutation.  Nothing runs when the context is done
\* or the live schema check fails; otherwise nft runs once.  Only a clean exit
\* tells whether the transaction was committed.
Mutate(w) ==
    LET c == worker[w].cap
    IN /\ worker[w].pc = "mutate"
       /\ \/ /\ worker' = [worker EXCEPT ![w].pc = "readback",
                          ![w].exit = IF Expired(w) THEN "timeout" ELSE "nonzero"]
             /\ UNCHANGED <<nft, invoked>>
          \/ /\ ~Expired(w)
             /\ invoked' = [invoked EXCEPT ![c] = @ + 1]
             /\ \E exit \in ExitClasses \ {"not_invoked"} :
                   /\ worker' = [worker EXCEPT ![w].pc = "readback", ![w].exit = exit]
                   /\ nft' \in {Committed(c)} \union
                              (IF exit = "success" THEN {} ELSE {nft})
       /\ UNCHANGED <<now, boot, gate, replies>>
       /\ UNCHANGED journalVars

\* The read-back after the operation, bounded by the approved timeout for add.
Readback(w) ==
    LET c == worker[w].cap
    IN /\ worker[w].pc = "readback"
       /\ \E obs \in Observations(w, IF Op[c] = "add" THEN TTL[c] ELSE 0) :
             Assess(w, CASE Op[c] = "add"     -> AddResult(worker[w].exit, obs)
                         [] Op[c] = "revoke"  -> RevokeResult(worker[w].exit, obs)
                         [] Op[c] = "inspect" -> InspectResult(w, obs))
       /\ UNCHANGED journalVars

\* Mutant: the recovered result is returned without being journaled.
RecoverUnjournaled(w) ==
    /\ worker[w].pc = "recover"
    /\ \E obs \in Observations(w, 0) : Reply(w, RecoveredResult(w, obs))
    /\ UNCHANGED journalVars

\* recover: read-back only; Recovery.SignResult attests nothing else.
Recover(w) ==
    LET c == worker[w].cap
    IN /\ worker[w].pc = "recover"
       /\ \E obs \in Observations(w, IF Op[c] = "add" THEN TTL[c] ELSE 0) :
             LET r == RecoveredResult(w, obs)
             IN IF RecoverySignable(Op[c], r) THEN Assess(w, r) ELSE Reject(w)
       /\ UNCHANGED journalVars

\* finish: an outcome past its deadline is attested as indeterminate.
Finished(w) ==
    IF Expired(w) THEN [worker[w].result EXCEPT !.class = "indeterminate"]
    ELSE worker[w].result

\* finishPrepared up to the write of the terminal frame.  CheckResult refuses an
\* assessment longer than MaxOperation: the capability stays started-only.
Finish(w) ==
    LET c == worker[w].cap
        r == Finished(w)
        completable == /\ now - worker[w].started <= MaxOperation
                       /\ ResultChecked(Op[c], r)
                       /\ Ready
                       /\ LookupState(c) = "started_only"
    IN /\ worker[w].pc = "finish"
       /\ \/ /\ ~completable \/ Full
             /\ Reject(w)
             /\ UNCHANGED journalVars
          \/ /\ completable
             /\ AppendWrites(TerminalFrame(c, r))
             /\ worker' = [worker EXCEPT ![w].pc = "end_sync", ![w].result = r]
             /\ UNCHANGED <<now, boot, gate, nft, invoked, replies>>
          \/ /\ completable
             /\ AppendFails
             /\ Reject(w)

EndSync(w) ==
    /\ worker[w].pc = "end_sync"
    /\ \/ /\ AppendSyncs
          /\ Reply(w, worker[w].result)
       \/ /\ AppendSyncFails
          /\ Reject(w)

(***************************************************************************)
(* The environment.                                                        *)
(***************************************************************************)

\* Time passes; the kernel drops the elements whose timeout is over.
Tick ==
    /\ now < MaxTime
    /\ now' = now + 1
    /\ nft' = [t \in Targets |-> IF nft[t].exp > now + 1 THEN nft[t] ELSE Absent]
    /\ UNCHANGED <<boot, gate, worker, invoked, replies>>
    /\ UNCHANGED journalVars

\* Calls die with the process.
Forget ==
    /\ boot < MaxBoots
    /\ worker' = [w \in Workers |-> IdleCall]
    /\ gate' = NoWorker
    /\ UNCHANGED <<now, boot, invoked, replies>>

Crash ==
    /\ ProcessCrash
    /\ Forget
    /\ UNCHANGED nft

\* The namespace and its owned set go with the machine.
LosePower ==
    /\ PowerFails
    /\ PowerLoss
    /\ Forget
    /\ nft' = [t \in Targets |-> Absent]

Restart ==
    /\ Open
    /\ boot' = boot + 1
    /\ UNCHANGED <<now, gate, worker, nft, invoked, replies>>

Init ==
    /\ JournalInit
    /\ now = 0
    /\ boot = 1
    /\ gate = NoWorker
    /\ worker = [w \in Workers |-> IdleCall]
    /\ nft = [t \in Targets |-> Absent]
    /\ invoked = [c \in Caps |-> 0]
    /\ replies = [c \in Caps |-> {}]

\* The steps a call takes by itself once it was received.
Step(w) ==
    \/ Acquire(w) \/ Lookup(w) \/ Preflight(w) \/ Begin(w) \/ BeginSync(w)
    \/ Execute(w) \/ Mutate(w) \/ Readback(w) \/ Recover(w) \/ Finish(w)
    \/ EndSync(w)

Next ==
    \/ \E w \in Workers : \E c \in Caps : \E rec \in BOOLEAN : Receive(w, c, rec)
    \/ \E w \in Workers : Step(w)
    \/ Tick
    \/ Crash
    \/ LosePower
    \/ Restart

Spec == Init /\ [][Next]_vars

\* Every step of a call is finite work under a context deadline, and a channel
\* hands its token to waiting goroutines in turn: no waiter starves.
Fairness ==
    \A w \in Workers : WF_vars(Step(w)) /\ SF_vars(Acquire(w))

FairSpec == Spec /\ Fairness

(***************************************************************************)
(* Properties.                                                             *)
(***************************************************************************)

\* The variables have the types of the Service, Journal and Runner values they
\* stand for, and the index never runs ahead of the file.
TypeOK ==
    /\ JournalTypeOK
    /\ now \in Nat
    /\ boot \in Nat
    /\ gate \in Workers \union {NoWorker}
    /\ worker \in [Workers -> Call]
    /\ \A w \in Workers : worker[w].pc # "idle" => worker[w].cap \in Caps
    /\ nft \in [Targets -> [exp : Nat, by : Caps \union {NoCap}]]
    /\ invoked \in [Caps -> Nat]
    /\ replies \in [Caps -> SUBSET Result]

\* nft is run to mutate at most once for a capability, over every interleaving
\* of connections, retries, crashes, failed fsyncs and power losses
\* (README: "An add artifact is applied at most once").
AtMostOnce == \A c \in Caps : invoked[c] <= 1

\* Before nft runs for a capability its started frame has crossed the fsync
\* barriers, so that no later loss can make the capability look unseen again
\* (Begin returns a Permit only after appendLocked).
WriteAhead == \A c \in Caps : invoked[c] > 0 => StartedIn(c, synced)

\* Whatever Begin and Complete wrote, in whichever order calls, failures and
\* losses came, the next Open accepts the file unless its tail is torn.
ReopenAccepts == ScanAccepts

\* Every result execute or recover assembles passes the outcome tables of
\* Recovery.SignResult and CheckResult, for every exit and read-back: only the
\* two-second bound can leave an attempt without a terminal frame.
AssessmentsWellFormed ==
    \A w \in Workers :
        LET c == worker[w].cap
        IN /\ worker[w].pc = "finish" => ResultChecked(Op[c], Finished(w))
           /\ worker[w].pc = "recover" =>
                 \A obs \in Observations(w, 0) : RecoverySignable(Op[c], RecoveredResult(w, obs))

\* The verdict about to be journaled is true of the kernel while the gate is
\* held: `applied' means this capability's one run put the element there, a
\* `failed' add left none of its own, `revoked' means the target is gone.
HonestResults ==
    \A w \in Workers :
        LET c == worker[w].cap
            t == Target[c]
            class == worker[w].result.class
        IN worker[w].pc \in {"finish", "end_sync"} =>
              /\ class = "applied" => invoked[c] = 1 /\ (InSet(t) => nft[t].by = c)
              /\ class = "failed" /\ Op[c] = "add" => nft[t].by # c
              /\ class = "revoked" => ~InSet(t)

\* An element only ever enters the set where none is live: no step refreshes or
\* replaces a timeout, however capabilities for one target interleave (the gate
\* is held from the preflight read-back to the mutation).
NeverRefreshes ==
    [][\A t \in Targets : nft'[t] # nft[t] /\ nft'[t] # Absent => ~InSet(t)]_vars

\* nft is run for a capability only inside its validity, however long the call
\* waited for the gate, the preflight or the fsyncs (operationDeadline).
MutatesWhileFresh ==
    [][\A c \in Caps : invoked'[c] # invoked[c] => Fresh(c)]_vars

\* The executor keeps the contract of SingleUse when only processes crash: the
\* journal file is the phase and the verdict, nft the use.
Contract ==
    INSTANCE SingleUse WITH
        phase <- [c \in Caps |-> IF TerminalIn(c, Len(frames)) THEN "settled"
                                ELSE IF StartedIn(c, Len(frames)) THEN "spent"
                                ELSE "fresh"],
        used <- invoked,
        verdict <- [c \in Caps |-> StoredResult(c)],
        answers <- replies

\* Every behaviour of the executor is one of the contract: a capability is used
\* once and behind its record, and any two answers to it are the same signed
\* result ("an exact matching `terminal` duplicate returns its byte-identical
\* stored signed result", docs/TDD.md), whatever was interrupted between the two.
KeepsContract == Contract!ContractSpec

\* Every call that entered the service leaves it: the gate is returned on every
\* path, so no connection waits for ever.
CallsReturn == \A w \in Workers : worker[w].pc # "idle" ~> worker[w].pc = "idle"
=============================================================================
