------------------------------ MODULE Journal ------------------------------
(***************************************************************************)
(* The executor's append-only replay journal                               *)
(* (src/internal/enforcement/journal).  The file is a sequence of frames;   *)
(* each capability owns at most one `started' frame and, after it, at most  *)
(* one `terminal' frame holding the signed result.                          *)
(*                                                                         *)
(* The file has two lives: what the operating system holds (`frames') and   *)
(* what an fsync made durable (its first `synced' frames).  A process crash *)
(* keeps the former, a power loss only promises the latter.  `indexed' is   *)
(* the part of the file the running process knows through its in-memory     *)
(* index.                                                                   *)
(***************************************************************************)
EXTENDS Capability, Sequences

CONSTANTS
    Caps,       \* the signed capabilities the dispatcher ever issued
    NoResult,   \* the result slot of a started frame
    MaxFrames   \* frames that fit in MaxJournalBytes

ASSUME NoResultAssumption == NoResult \notin Result

ASSUME MaxFramesAssumption == MaxFrames \in Nat

VARIABLES
    frames,     \* the journal file as the operating system serves it
    synced,     \* how many leading frames have crossed SyncFile
    torn,       \* the file ends in a partial frame
    up,         \* the executor process runs and holds the journal open
    poisoned,   \* an append failed: the process refuses every later call
    indexed     \* how many leading frames Journal.entries reflects

journalVars == <<frames, synced, torn, up, poisoned, indexed>>

Frame == [kind : {"started", "terminal"}, cap : Caps,
          res : Result \union {NoResult}]

StartedFrame(c) == [kind |-> "started", cap |-> c, res |-> NoResult]

TerminalFrame(c, r) == [kind |-> "terminal", cap |-> c, res |-> r]

(***************************************************************************)
(* The index: which frames exist among the first n.                        *)
(***************************************************************************)

StartedIn(c, n) == \E i \in 1..n : frames[i].kind = "started" /\ frames[i].cap = c

TerminalIn(c, n) == \E i \in 1..n : frames[i].kind = "terminal" /\ frames[i].cap = c

\* The stored result existingOutcome hands out.
TerminalOf(c) ==
    frames[CHOOSE i \in 1..indexed : frames[i].kind = "terminal" /\ frames[i].cap = c].res

\* The result the whole file holds for c.
StoredResult(c) ==
    IF TerminalIn(c, Len(frames))
    THEN frames[CHOOSE i \in 1..Len(frames) :
                   frames[i].kind = "terminal" /\ frames[i].cap = c].res
    ELSE NoResult

\* readyLocked: a closed or poisoned journal answers nothing.
Ready == up /\ ~poisoned

\* Mutant: the index only remembers finished attempts.
LookupStateTerminalOnly(c) == IF TerminalIn(c, indexed) THEN "terminal" ELSE "unseen"

\* The state Lookup (and Begin, before anything else) reports.
LookupState(c) ==
    IF TerminalIn(c, indexed) THEN "terminal"
    ELSE IF StartedIn(c, indexed) THEN "started_only"
    ELSE "unseen"

\* What scan and indexFrame accept: a started frame is the first of its
\* capability, a terminal frame follows its start and is the only one.
FrameAccepted(i) ==
    IF frames[i].kind = "started"
    THEN ~StartedIn(frames[i].cap, i - 1)
    ELSE StartedIn(frames[i].cap, i - 1) /\ ~TerminalIn(frames[i].cap, i - 1)

ScanAccepts == \A i \in 1..Len(frames) : FrameAccepted(i)

(***************************************************************************)
(* appendLocked, one step per barrier.  The caller holds the journal lock   *)
(* from the write to the end of the sync.                                   *)
(***************************************************************************)

Full == Len(frames) >= MaxFrames

\* The frame is handed to the operating system whole.
AppendWrites(f) ==
    /\ ~Full
    /\ frames' = Append(frames, f)
    /\ UNCHANGED <<synced, torn, up, poisoned, indexed>>

\* The file or its directory is not the one opened, or the write failed or came
\* up short; a short write leaves a partial frame at the end of the file.
AppendFails ==
    /\ poisoned' = TRUE
    /\ torn' \in {torn} \union (IF Full THEN {} ELSE {TRUE})
    /\ UNCHANGED <<frames, synced, up, indexed>>

\* Mutant: the index counts one frame too many.
AppendSyncsOffByOne ==
    /\ synced' = Len(frames)
    /\ indexed' = Len(frames) + 1
    /\ UNCHANGED <<frames, torn, up, poisoned>>

\* SyncFile and SyncDirectory both return; only now is the frame indexed.
AppendSyncs ==
    /\ synced' = Len(frames)
    /\ indexed' = Len(frames)
    /\ UNCHANGED <<frames, torn, up, poisoned>>

\* SyncFile fails (the frame may or may not be durable) or SyncDirectory does.
AppendSyncFails ==
    /\ poisoned' = TRUE
    /\ synced' \in {synced, Len(frames)}
    /\ UNCHANGED <<frames, torn, up, indexed>>

(***************************************************************************)
(* Life of the process.                                                    *)
(***************************************************************************)

JournalInit ==
    /\ frames = <<>>
    /\ synced = 0
    /\ torn = FALSE
    /\ up = TRUE
    /\ poisoned = FALSE
    /\ indexed = 0

\* Open: scan verifies every frame and refuses a torn or inconsistent file; it
\* repairs nothing, and it fsyncs a file only when it creates it.
Open ==
    /\ ~up
    /\ ~torn
    /\ ScanAccepts
    /\ up' = TRUE
    /\ indexed' = Len(frames)
    /\ UNCHANGED <<frames, synced, torn, poisoned>>

\* The process dies; the operating system keeps every byte it was given.
ProcessCrash ==
    /\ up
    /\ up' = FALSE
    /\ poisoned' = FALSE
    /\ indexed' = 0
    /\ UNCHANGED <<frames, synced, torn>>

\* The machine dies: frames after the last fsync survive in part, and the cut
\* may fall inside a frame.
PowerLoss ==
    /\ up' = FALSE
    /\ \E n \in synced..Len(frames) :
          /\ frames' = SubSeq(frames, 1, n)
          /\ synced' = n
          /\ torn' \in {b \in BOOLEAN : b => torn \/ n < Len(frames)}
    /\ poisoned' = FALSE
    /\ indexed' = 0

JournalTypeOK ==
    /\ frames \in Seq(Frame)
    /\ synced \in 0..Len(frames)
    /\ indexed \in 0..Len(frames)
    /\ torn \in BOOLEAN
    /\ up \in BOOLEAN
    /\ poisoned \in BOOLEAN
=============================================================================
