------------------------------- MODULE Ingest -------------------------------
(***************************************************************************)
(* The receiver of authenticated event batches, for one sender and one     *)
(* endpoint: StoreBatch of internal/repository/store.go and the SQL it     *)
(* calls (register_ingest_sequence, resolve_ingest_gap_as_lost and         *)
(* append_source_coverage_attestation).  A batch is stored whole or not at *)
(* all, in one transaction under the sender's advisory lock, so a store is *)
(* one value and an operation maps a store and a batch to the next store.  *)
(*                                                                         *)
(* Sender epochs are numbered in the order of the sender's boots; 0 is "no *)
(* checkpoint row yet".  A batch is identified by its epoch and sequence   *)
(* (the sender draws one batch ID for each), a coverage marker by the      *)
(* sequence of the batch that carries it.  Instants are milliseconds.      *)
(***************************************************************************)
EXTENDS Integers, Sequences, FiniteSets, FiniteSetsExt

CONSTANT NoCoverage         \* a batch that carries no coverage marker

VARIABLE store              \* what the receiver has committed

EmptyStore == [epoch |-> 0, high |-> 0, rows |-> {}, gaps |-> {}]

IsHealth(r) == r.kind # "event"

\* ensureSenderCheckpointSQL: the first batch ever creates the checkpoint row.
EnsureCheckpoint(s, b) == IF s.epoch = 0 THEN [s EXCEPT !.epoch = b.epoch] ELSE s

RowsOf(s, e) == {r \in s.rows : r.batch.epoch = e}

ExistingBatch(s, b) == {r \in RowsOf(s, b.epoch) : r.batch.seq = b.seq}

(***************************************************************************)
(* register_ingest_sequence.  Unresolved gaps are ranges of sequences.     *)
(***************************************************************************)
GapRange(e, from, to) ==
    IF from > to THEN {} ELSE {[epoch |-> e, from |-> from, to |-> to]}

GapsAround(s, b) ==
    {g \in s.gaps : g.epoch = b.epoch /\ g.from <= b.seq /\ b.seq <= g.to}

\* Above the high-water mark of the current epoch.
IsAhead(s, b) == s.epoch = b.epoch /\ b.seq > s.high

\* The first batch the receiver has ever seen of another epoch.
IsNewEpoch(s, b) == s.epoch # b.epoch /\ RowsOf(s, b.epoch) = {}

MayRegister(s, b) == IsAhead(s, b) \/ GapsAround(s, b) # {} \/ IsNewEpoch(s, b)

\* Mutant: the range opened starts at the high-water mark.
RegisterFromHighWater(s, b) ==
    IF IsAhead(s, b)
      THEN [s EXCEPT !.high = b.seq,
                     !.gaps = @ \cup GapRange(b.epoch, s.high, b.seq - 1)]
    ELSE IF GapsAround(s, b) # {}
      THEN [s EXCEPT !.gaps = @ \ GapsAround(s, b)]
    ELSE [s EXCEPT !.epoch = b.epoch, !.high = b.seq,
                   !.gaps = @ \cup GapRange(b.epoch, 1, b.seq - 1)]

RegisterIngestSequence(s, b) ==
    IF IsAhead(s, b)
      THEN [s EXCEPT !.high = b.seq,
                     !.gaps = @ \cup GapRange(b.epoch, s.high + 1, b.seq - 1)]
    ELSE IF GapsAround(s, b) # {}
      THEN [s EXCEPT !.gaps = (@ \ GapsAround(s, b)) \cup
                 UNION {GapRange(g.epoch, g.from, b.seq - 1) \cup
                        GapRange(g.epoch, b.seq + 1, g.to) : g \in GapsAround(s, b)}]
    ELSE [s EXCEPT !.epoch = b.epoch, !.high = b.seq,
                   !.gaps = @ \cup GapRange(b.epoch, 1, b.seq - 1)]

(***************************************************************************)
(* append_source_coverage_attestation: a marker continues the last one of  *)
(* its epoch or starts anew on authenticated health evidence, and overlaps *)
(* neither an unresolved gap nor a reported health interval.               *)
(***************************************************************************)
Attested(s, e) == {r \in RowsOf(s, e) : r.batch.coverage # NoCoverage}

\* The markers stored before this batch's own, and the latest of them.
Prior(s, b) == {r \in Attested(s, b.epoch) : r.batch # b}

LastPrior(s, b) ==
    (CHOOSE r \in Prior(s, b) : \A q \in Prior(s, b) : q.batch.seq <= r.batch.seq).batch

\* The stored health records about epoch e, each with the row that carries it.
HealthAbout(s, e) ==
    UNION {{[health |-> h, row |-> r] :
               h \in {h \in Range(r.batch.records) : IsHealth(h) /\ h.epoch = e}} :
           r \in s.rows}

\* A marker with no predecessor needs health evidence since the last marker.
MayRestart(s, b) ==
    Prior(s, b) # {} =>
        \E h \in HealthAbout(s, b.epoch) :
            /\ h.row.batch.epoch = b.epoch
            /\ LastPrior(s, b).seq < h.row.batch.seq
            /\ h.row.batch.seq <= b.seq

\* prior.coverage_digest, segment_id and coverage_end against the new marker.
Continues(s, b) ==
    /\ Prior(s, b) # {}
    /\ LET last == LastPrior(s, b)
       IN  /\ last.seq = b.coverage.previous
           /\ last.coverage.segment = b.coverage.segment
           /\ last.coverage.to = b.coverage.from
    /\ b.coverage.previous < b.seq
    /\ b.coverage.from < b.coverage.to

(***************************************************************************)
(* The overlap test on half-open ranges.  A coverage marker is cut at whole *)
(* milliseconds and every other clock reading lies strictly inside one, so *)
(* a health interval that ended in millisecond t ends after t.  An interval *)
(* whose two ends are one reading ("point") is the empty range; a report   *)
(* without an interval ("none") is placed at its arrival.                  *)
(***************************************************************************)
Overlaps(h, c) ==
    /\ c.from < c.to
    /\ \/ /\ h.health.span = "range"
          /\ h.health.from < c.to
          /\ c.from <= h.health.to
       \/ /\ h.health.span = "none"
          /\ c.from <= h.row.at
          /\ h.row.at < c.to

MayAttest(s, b) ==
    b.coverage = NoCoverage \/
        /\ IF b.coverage.previous = 0 THEN MayRestart(s, b) ELSE Continues(s, b)
        /\ \A g \in s.gaps : g.epoch = b.epoch => b.seq < g.from
        /\ \A h \in HealthAbout(s, b.epoch) : ~Overlaps(h, b.coverage)

(***************************************************************************)
(* resolve_ingest_gap_as_lost: only a permanent_loss report whose range is *)
(* exactly one unresolved gap closes it.                                   *)
(***************************************************************************)
ResolveLosses(s, b) ==
    [s EXCEPT !.gaps =
        {g \in @ : ~\E h \in Range(b.records) :
            /\ h.kind = "permanent_loss"
            /\ h.epoch = g.epoch
            /\ h.range = <<g.from, g.to>>
            /\ h.lost = g.to - g.from + 1}]

(***************************************************************************)
(* StoreBatch.                                                             *)
(***************************************************************************)
\* The store with the receipt and the sequence registered, before the markers
\* and reports in it are examined.
Registered(s, b, at) ==
    [RegisterIngestSequence(EnsureCheckpoint(s, b), b) EXCEPT
        !.rows = @ \cup {[batch |-> b, at |-> at]}]

StoreOutcome(s, b, at) ==
    IF ExistingBatch(s, b) # {}
      THEN IF \E r \in ExistingBatch(s, b) : r.batch = b THEN "duplicate" ELSE "rejected"
    ELSE IF /\ MayRegister(EnsureCheckpoint(s, b), b)
            /\ MayAttest(Registered(s, b, at), b)
      THEN "accepted" ELSE "rejected"

StoreBatch(s, b, at) ==
    IF StoreOutcome(s, b, at) = "accepted"
      THEN ResolveLosses(Registered(s, b, at), b) ELSE s
=============================================================================
