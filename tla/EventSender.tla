----------------------------- MODULE EventSender -----------------------------
(***************************************************************************)
(* The Gateway's asynchronous event sender (internal/eventsender) with the *)
(* network and the receiver of module Ingest.                              *)
(*                                                                         *)
(* Two threads share the sender: request handlers call TryEnqueue under    *)
(* enqueueMu, and one goroutine (run) cuts batches, delivers each until it *)
(* is acknowledged or refused, and reports losses as source-health         *)
(* records.  The process may crash and boot again; only its checkpoint     *)
(* file survives.  A request may be lost, answered too late to be heard,   *)
(* or reach the receiver long after the sender gave up on it.              *)
(*                                                                         *)
(* Abstractions: a record's bytes never exceed the batch limit; the sender *)
(* and the receiver read one clock, inside a millisecond (see Overlaps);   *)
(* the health generation is compared only with the value the current batch *)
(* took, so it is the flag "moved since the cut".                          *)
(***************************************************************************)
EXTENDS Ingest

CONSTANTS
    NoBatch,
    QueueCapacity, BatchSize,
    Heartbeat,          \* coverageHeartbeat
    Copies,             \* requests of one batch under way at once
    MayRefuse,          \* whether the receiver may refuse for its own reasons
    MaxEvents, MaxEpochs, MaxTime, MaxFaults

ASSUME SenderAssumption ==
    /\ QueueCapacity \in Nat \ {0} /\ BatchSize \in 1..QueueCapacity
    /\ Heartbeat \in Nat \ {0} /\ Copies \in Nat \ {0}
    /\ MayRefuse \in BOOLEAN
    /\ {MaxEvents, MaxEpochs, MaxTime, MaxFaults} \subseteq Nat

VARIABLES
    now,        \* the clock
    up,         \* the process runs
    epoch,      \* its sender epoch; boots so far
    ckpt,       \* the checkpoint file; epoch 0 when there is none
    closing,    \* "no", "asked" (Close called) or "draining"
    expired,    \* the shutdown deadline has passed
    mutex,      \* "free", or how far a dropping TryEnqueue has got
    queue, pending, seq,
    phase,      \* the step of flush
    cur,        \* the batch flush delivers
    moved,      \* healthGeneration has moved since cur was cut
    degraded, dropped, outage,
    cov,        \* coverageSegmentID, coverageStart, coveragePreviousDigest
    net,        \* requests under way: <<batch, copy>>
    live,       \* the copy whose response the sender awaits
    reply,      \* the response on its way
    offered,    \* history: every event handed to TryEnqueue
    faults      \* faults still to come

procVars == <<queue, pending, seq, phase, cur, moved, degraded, dropped, outage, cov>>
lifeVars == <<up, epoch, ckpt, closing, expired>>
netVars == <<net, live, reply>>
vars == <<store, now, lifeVars, mutex, procVars, netVars, offered, faults>>

Fault == faults > 0 /\ faults' = faults - 1
NoFault == UNCHANGED faults

\* coverageStartTime: the first whole millisecond after a clock reading.
CoverageStartTime(t) == t + 1

Event(n) == [kind |-> "event", id |-> n]

\* sourceHealth.  Without an interval the boundary is the report's own time.
Health(cause, e, lost, span, from, to, range) ==
    [kind |-> cause, epoch |-> e, lost |-> lost, span |-> span, from |-> from,
     to |-> to, range |-> range]

ContainsHealth(records) == \E r \in Range(records) : IsHealth(r)

Idle == phase = "idle" /\ up

Init ==
    /\ store = EmptyStore
    /\ now = 1 /\ up = FALSE /\ epoch = 0
    /\ ckpt = [epoch |-> 0, clean |-> FALSE]
    /\ closing = "no" /\ expired = FALSE /\ mutex = "free"
    /\ queue = <<>> /\ pending = <<>> /\ seq = 1
    /\ phase = "idle" /\ cur = NoBatch /\ moved = FALSE
    /\ degraded = FALSE /\ dropped = 0 /\ outage = 0
    /\ cov = [segment |-> 0, from |-> 0, previous |-> 0]
    /\ net = {} /\ live = 0 /\ reply = "none"
    /\ offered = <<>>
    /\ faults = MaxFaults

----------------------------------------------------------------------------
(* Boot, crash and Close *)

\* What the process held in memory is gone.
LoseMemory ==
    /\ up' = FALSE /\ closing' = "no" /\ expired' = FALSE /\ mutex' = "free"
    /\ queue' = <<>> /\ pending' = <<>> /\ seq' = 1
    /\ phase' = "idle" /\ cur' = NoBatch /\ moved' = FALSE
    /\ degraded' = FALSE /\ dropped' = 0 /\ outage' = 0
    /\ cov' = [segment |-> 0, from |-> 0, previous |-> 0]
    /\ live' = 0 /\ reply' = "none"


\* New: the previous boot's loss is reported first when it did not end clean.
Start ==
    LET lost == ckpt.epoch # 0 /\ ~ckpt.clean
    IN  /\ ~up /\ epoch < MaxEpochs
        /\ up' = TRUE /\ epoch' = epoch + 1
        /\ ckpt' = [epoch |-> epoch + 1, clean |-> FALSE]
        /\ degraded' = lost
        /\ queue' = IF lost
                      THEN <<Health("unclean_restart", ckpt.epoch, 0, "none", now, now, <<>>)>>
                      ELSE <<>>
        /\ cov' = [segment |-> 0, from |-> CoverageStartTime(now), previous |-> 0]
        /\ NoFault
        /\ UNCHANGED <<store, now, closing, expired, mutex, pending, seq, phase, cur, moved,
                       dropped, outage, netVars, offered>>

Crash ==
    /\ up /\ Fault
    /\ LoseMemory
    /\ UNCHANGED <<store, now, epoch, ckpt, net, offered>>

Close ==
    /\ up /\ closing = "no" /\ mutex = "free"
    /\ closing' = "asked"
    /\ NoFault
    /\ UNCHANGED <<store, now, up, epoch, ckpt, expired, mutex, procVars, netVars, offered>>

\* run takes the stop signal and drains the queue.
Drain ==
    /\ Idle /\ closing = "asked"
    /\ closing' = "draining"
    /\ pending' = pending \o queue /\ queue' = <<>>
    /\ NoFault
    /\ UNCHANGED <<store, now, up, epoch, ckpt, expired, mutex, seq, phase, cur, moved, degraded,
                   dropped, outage, cov, netVars, offered>>

\* The shutdown deadline passes.
Expire ==
    /\ up /\ closing # "no" /\ ~expired
    /\ expired' = TRUE
    /\ NoFault
    /\ UNCHANGED <<store, now, up, epoch, ckpt, closing, mutex, procVars, netVars, offered>>


MayMarkClean == pending = <<>> /\ ~degraded

\* run returns; the checkpoint is marked clean if nothing is outstanding.
Finish ==
    /\ Idle /\ closing = "draining"
    /\ pending = <<>> \/ expired
    /\ \/ MayMarkClean /\ ckpt' = [ckpt EXCEPT !.clean = TRUE] /\ NoFault
       \/ MayMarkClean /\ UNCHANGED ckpt /\ Fault
       \/ ~MayMarkClean /\ UNCHANGED ckpt /\ NoFault
    /\ LoseMemory
    /\ UNCHANGED <<store, now, epoch, net, offered>>

----------------------------------------------------------------------------
(* TryEnqueue *)

MayOffer == up /\ closing = "no" /\ mutex = "free" /\ Len(offered) < MaxEvents

\* Mutant: one more record than the channel holds.
EnqueueOneMore ==
    /\ MayOffer /\ Len(queue) <= QueueCapacity
    /\ queue' = Append(queue, Event(Len(offered) + 1))
    /\ offered' = Append(offered, [epoch |-> epoch, at |-> now, dropped |-> FALSE])
    /\ NoFault
    /\ UNCHANGED <<store, now, lifeVars, mutex, pending, seq, phase, cur, moved, degraded,
                   dropped, outage, cov, netVars>>

Enqueue ==
    /\ MayOffer /\ Len(queue) < QueueCapacity
    /\ queue' = Append(queue, Event(Len(offered) + 1))
    /\ offered' = Append(offered, [epoch |-> epoch, at |-> now, dropped |-> FALSE])
    /\ NoFault
    /\ UNCHANGED <<store, now, lifeVars, mutex, pending, seq, phase, cur, moved, degraded,
                   dropped, outage, cov, netVars>>

\* A full queue: dropped.Add, then degraded.Store, then healthGeneration.Add,
\* each visible to the sender goroutine before the next.
Overflow ==
    /\ MayOffer /\ Len(queue) >= QueueCapacity
    /\ offered' = Append(offered, [epoch |-> epoch, at |-> now, dropped |-> TRUE])
    /\ dropped' = dropped + 1 /\ mutex' = "counted"
    /\ NoFault
    /\ UNCHANGED <<store, now, lifeVars, queue, pending, seq, phase, cur, moved, degraded,
                   outage, cov, netVars>>

MarkOverflow ==
    /\ \/ /\ mutex = "counted" /\ mutex' = "marked"
          /\ degraded' = TRUE /\ UNCHANGED moved
       \/ /\ mutex = "marked" /\ mutex' = "free"
          /\ moved' = TRUE /\ UNCHANGED degraded
    /\ NoFault
    /\ UNCHANGED <<store, now, lifeVars, queue, pending, seq, phase, cur, dropped, outage,
                   cov, netVars, offered>>

----------------------------------------------------------------------------
(* flush: the cut *)

\* run moves one record; a full batch is flushed in the same step (Cut).
Take ==
    /\ Idle /\ closing # "draining"
    /\ queue # <<>> /\ Len(pending) + 1 < BatchSize
    /\ pending' = Append(pending, Head(queue)) /\ queue' = Tail(queue)
    /\ NoFault
    /\ UNCHANGED <<store, now, lifeVars, mutex, seq, phase, cur, moved, degraded, dropped,
                   outage, cov, netVars, offered>>

CanAttachCoverage(records) ==
    /\ ~degraded /\ ~ContainsHealth(records)
    /\ Len(records) <= BatchSize - 1
    /\ cov.from <= now
    /\ \/ cov.previous = 0
       \/ /\ cov.from < now
          /\ records # <<>> \/ cov.from + Heartbeat <= now

\* buildEnvelope: the marker runs from coverageStart to this cut.
Envelope(records, withCoverage) ==
    [epoch |-> epoch, seq |-> seq, records |-> records,
     coverage |-> IF ~withCoverage THEN NoCoverage
                  ELSE [segment |-> cov.segment, previous |-> cov.previous,
                        from |-> cov.from, to |-> now]]

\* Everything queued is taken under enqueueMu; a marker attests a whole cut.
Cut ==
    LET all == pending \o queue
        want == CanAttachCoverage(all)
        count == IF want THEN Len(all) ELSE Min({Len(all), BatchSize})
    IN  /\ Idle /\ mutex = "free"
        /\ closing = "draining" => pending # <<>> /\ ~expired
        /\ all # <<>> \/ want
        /\ pending' = all /\ queue' = <<>>
        /\ cur' = Envelope(SubSeq(all, 1, count), want)
        /\ moved' = FALSE /\ phase' = "attempt"
        /\ NoFault
        /\ UNCHANGED <<store, now, lifeVars, mutex, seq, degraded, dropped, outage, cov,
                       netVars, offered>>

----------------------------------------------------------------------------
(* deliver *)

\* markOutage
MarkOutage ==
    /\ outage' = IF outage = 0 THEN now ELSE outage
    /\ degraded' = TRUE /\ moved' = TRUE

Attempt ==
    /\ phase = "attempt" /\ ~expired
    /\ \E copy \in 1..Copies :
        /\ <<cur, copy>> \notin net
        /\ net' = net \cup {<<cur, copy>>} /\ live' = copy
    /\ reply' = "none" /\ phase' = "waiting"
    /\ NoFault
    /\ UNCHANGED <<store, now, lifeVars, mutex, queue, pending, seq, cur, moved, degraded,
                   dropped, outage, cov, offered>>

\* The deadline passed: deliver returns with the batch neither delivered nor
\* refused, and its records stay pending.
Abandon ==
    /\ phase = "attempt" /\ expired
    /\ phase' = "idle" /\ cur' = NoBatch
    /\ NoFault
    /\ UNCHANGED <<store, now, lifeVars, mutex, queue, pending, seq, moved, degraded,
                   dropped, outage, cov, netVars, offered>>

\* Mutant: the retry goes out under a new sequence.
TimeoutRenumbers ==
    /\ phase = "waiting" /\ reply = "none"
    /\ IF <<cur, live>> \in net THEN Fault ELSE NoFault
    /\ MarkOutage
    /\ seq' = seq + 1 /\ cur' = [cur EXCEPT !.seq = seq + 1]
    /\ phase' = "attempt" /\ live' = 0
    /\ UNCHANGED <<store, now, lifeVars, mutex, queue, pending, dropped, cov, net, reply,
                   offered>>

\* No response is heard: the request or the response was lost, or is too late.
Timeout ==
    /\ phase = "waiting" /\ reply = "none"
    /\ IF <<cur, live>> \in net THEN Fault ELSE NoFault
    /\ MarkOutage
    /\ phase' = "attempt" /\ live' = 0
    /\ UNCHANGED <<store, now, lifeVars, mutex, queue, pending, seq, cur, dropped, cov, net,
                   reply, offered>>

\* A 5xx, or an acknowledgement whose checkpoint could not be written.
RetryLater ==
    /\ phase = "waiting"
    /\ \/ reply = "unavailable" /\ NoFault
       \/ reply \in {"accepted", "duplicate"} /\ Fault
    /\ MarkOutage
    /\ phase' = "attempt" /\ live' = 0 /\ reply' = "none"
    /\ UNCHANGED <<store, now, lifeVars, mutex, queue, pending, seq, cur, dropped, cov, net,
                   offered>>

Acknowledge ==
    /\ phase = "waiting" /\ reply \in {"accepted", "duplicate"}
    /\ ckpt' = [epoch |-> epoch, clean |-> FALSE]
    /\ phase' = "delivered" /\ live' = 0 /\ reply' = "none"
    /\ NoFault
    /\ UNCHANGED <<store, now, up, epoch, closing, expired, mutex, queue, pending, seq, cur,
                   moved, degraded, dropped, outage, cov, net, offered>>

----------------------------------------------------------------------------
(* flush: after delivery *)

Remaining == SubSeq(pending, Len(cur.records) + 1, Len(pending))

\* sequence++, commitCoverage, and the first read of healthGeneration.
Delivered ==
    /\ phase = "delivered"
    /\ seq' = seq + 1 /\ pending' = Remaining
    /\ cov' = IF cur.coverage = NoCoverage THEN cov
              ELSE [cov EXCEPT !.from = cur.coverage.to, !.previous = cur.seq]
    /\ phase' = IF ContainsHealth(cur.records) /\ ~moved THEN "clear" ELSE "take"
    /\ NoFault
    /\ UNCHANGED <<store, now, lifeVars, mutex, queue, cur, moved, degraded, dropped,
                   outage, netVars, offered>>

\* healthRecoveryBoundary: the latest end among reports about this epoch.
Boundaries(records) ==
    {r.to : r \in {r \in Range(records) : IsHealth(r) /\ r.epoch = epoch}}

\* setDegraded(false) and resetCoverageAfterHealth.
Clear ==
    /\ phase = "clear" /\ phase' = "take"
    /\ degraded' = FALSE
    /\ cov' = IF Boundaries(cur.records) = {} THEN cov
              ELSE [segment |-> cur.seq, previous |-> 0,
                    from |-> CoverageStartTime(Max(Boundaries(cur.records)))]
    /\ NoFault
    /\ UNCHANGED <<store, now, lifeVars, mutex, queue, pending, seq, cur, moved, dropped,
                   outage, netVars, offered>>

\* takeHealthEvent: an overflow, or the end of an outage, is reported next.
HealthEvent ==
    Health(IF dropped > 0 THEN "queue_overflow" ELSE "recovered", epoch, dropped,
           IF outage = 0 THEN "point" ELSE "range",
           IF outage = 0 THEN now ELSE outage, now, <<>>)



TakeHealth ==
    /\ phase = "take" /\ phase' = "idle" /\ cur' = NoBatch
    /\ pending' = IF dropped = 0 /\ outage = 0 THEN pending ELSE <<HealthEvent>> \o pending
    /\ dropped' = 0 /\ outage' = 0
    /\ NoFault
    /\ UNCHANGED <<store, now, lifeVars, mutex, queue, seq, moved, degraded, cov, netVars,
                   offered>>


\* A 4xx: the batch is given up, and reported unless it held a report itself.
Rejected ==
    LET report == Health("rejected_batch", epoch, Len(cur.records), "none", now, now,
                         <<cur.seq, cur.seq>>)
    IN  /\ phase = "waiting" /\ reply \in {"rejected", "refused"}
        /\ MarkOutage
        /\ seq' = seq + 1
        /\ pending' = IF ContainsHealth(cur.records) THEN Remaining ELSE <<report>> \o Remaining
        /\ phase' = "idle" /\ cur' = NoBatch /\ live' = 0 /\ reply' = "none"
        /\ NoFault
        /\ UNCHANGED <<store, now, lifeVars, mutex, queue, dropped, cov, net, offered>>

----------------------------------------------------------------------------
(* The network and the receiver *)

Answer(m, r) ==
    reply' = IF phase = "waiting" /\ m = <<cur, live>> THEN r ELSE reply

Receive ==
    \E m \in net :
        /\ store' = StoreBatch(store, m[1], now)
        /\ Answer(m, StoreOutcome(store, m[1], now))
        /\ net' = net \ {m}
        /\ NoFault
        /\ UNCHANGED <<now, lifeVars, mutex, procVars, live, offered>>

\* Nothing is stored: 503 from the database or the proxy, or a 4xx that is not
\* about the store (an unread body, a skewed clock, an unknown key).
TurnAway ==
    \E m \in net, r \in {"unavailable"} \cup (IF MayRefuse THEN {"refused"} ELSE {}) :
        /\ Answer(m, r)
        /\ net' = net \ {m}
        /\ Fault
        /\ UNCHANGED <<store, now, lifeVars, mutex, procVars, live, offered>>

\* A request or a response is lost.
Lose ==
    /\ \/ \E m \in net : net' = net \ {m} /\ UNCHANGED reply
       \/ reply # "none" /\ reply' = "none" /\ UNCHANGED net
    /\ Fault
    /\ UNCHANGED <<store, now, lifeVars, mutex, procVars, live, offered>>

Tick ==
    /\ now < MaxTime /\ now' = now + 1
    /\ NoFault
    /\ UNCHANGED <<store, lifeVars, mutex, procVars, netVars, offered>>

Next ==
    \/ Start \/ Crash \/ Close \/ Drain \/ Expire \/ Finish
    \/ Enqueue \/ Overflow \/ MarkOverflow
    \/ Take \/ Cut \/ Attempt \/ Abandon \/ Timeout \/ RetryLater \/ Acknowledge
    \/ Delivered \/ Clear \/ TakeHealth \/ Rejected
    \/ Receive \/ TurnAway \/ Lose \/ Tick

Spec == Init /\ [][Next]_vars
----------------------------------------------------------------------------
(* Properties *)

\* A record of the queue, of pending or of a batch.
IsRecord(r) ==
    \/ r.kind = "event" /\ r.id \in DOMAIN offered
    \/ /\ r.kind \in {"unclean_restart", "queue_overflow", "recovered", "rejected_batch"}
       /\ r.epoch \in 1..epoch
       /\ r.from \in 1..r.to /\ r.to <= now

\* The types, the bound on the channel, and that a batch under delivery is the
\* front of pending under the next sequence.
TypeOK ==
    /\ now \in 1..MaxTime \cup {1} /\ faults \in 0..MaxFaults
    /\ up \in BOOLEAN /\ expired \in BOOLEAN /\ degraded \in BOOLEAN /\ moved \in BOOLEAN
    /\ epoch \in 0..MaxEpochs
    /\ ckpt.epoch \in {0, epoch} /\ ckpt.clean \in BOOLEAN
    /\ closing \in {"no", "asked", "draining"}
    /\ mutex \in {"free", "counted", "marked"}
    /\ phase \in {"idle", "attempt", "waiting", "delivered", "clear", "take"}
    /\ reply \in {"none", "accepted", "duplicate", "rejected", "refused", "unavailable"}
    /\ Len(queue) <= QueueCapacity
    /\ \A r \in Range(queue) \cup Range(pending) : IsRecord(r)
    /\ dropped \in 0..MaxEvents /\ outage \in 0..now
    /\ phase \in {"attempt", "waiting", "delivered"} =>
         /\ cur.epoch = epoch /\ cur.seq = seq
         /\ cur.records = SubSeq(pending, 1, Len(cur.records))

Holding(n) == {r \in store.rows : Event(n) \in Range(r.batch.records)}

\* The markers of one segment, and the interval the detector takes them to cover:
\* detection_coverage_start joins min(coverage_start) to max(coverage_end).
MarkersOf(e, k) == {r.batch.coverage : r \in {r \in Attested(store, e) : r.batch.coverage.segment = k}}


\* GapsAreExact: in every epoch the unresolved gaps are the sequences below the
\* highest stored one that are not stored, and no sequence is in two ranges,
\* whatever was given up, retried or arrived late (register_ingest_sequence).
GapsAreExact ==
    \A e \in 1..epoch :
        LET seqs == {r.batch.seq : r \in RowsOf(store, e)}
            gaps == {g \in store.gaps : g.epoch = e}
        IN  /\ UNION {g.from..g.to : g \in gaps} = (1..Max(seqs \cup {0})) \ seqs
            /\ \A g, h \in gaps : g # h => (g.from..g.to) \cap (h.from..h.to) = {}

\* StoredOnce: a retry after a lost response, a late copy or a restart never
\* stores an event a second time.
StoredOnce == \A n \in DOMAIN offered : Cardinality(Holding(n)) <= 1

\* The events the queue turned away, and those the stored reports count.
Dropped(e) == Cardinality({n \in DOMAIN offered : offered[n].epoch = e /\ offered[n].dropped})
Reported(e) ==
    MapThenSumSet(LAMBDA h : h.health.lost,
                  {h \in HealthAbout(store, e) : h.health.kind = "queue_overflow"})


\* LaterTrafficProceeds: the store refuses no batch of the running sender: what
\* went wrong earlier does not cost the records that follow.
LaterTrafficProceeds == reply # "rejected"

----------------------------------------------------------------------------
(* Liveness *)

\* The goroutine and a TryEnqueue in progress keep running while the process does,
\* and a request that is not lost is processed.
Fairness ==
    /\ WF_vars(MarkOverflow)
    /\ WF_vars(Cut) /\ WF_vars(Attempt) /\ WF_vars(Abandon) /\ WF_vars(Timeout)
    /\ WF_vars(RetryLater) /\ WF_vars(Acknowledge) /\ WF_vars(Rejected)
    /\ WF_vars(Delivered) /\ WF_vars(Clear) /\ WF_vars(TakeHealth)
    /\ SF_vars(Drain) /\ WF_vars(Finish)
    /\ WF_vars(Receive)

FairSpec == Spec /\ Fairness


=============================================================================
