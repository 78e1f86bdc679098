------------------------ MODULE ExecutorSafetyProofs ------------------------
(***************************************************************************)
(* At-most-once mutation, write-ahead and a journal that always reopens,     *)
(* for any number of connections, capabilities, crashes and power losses.    *)
(***************************************************************************)
EXTENDS ExecutorTypeProofs

\* Only the holder of the gate is past acquire.
Guarded == \A w \in Workers : worker[w].pc \in Holding => gate = w

Syncing(w) == worker[w].pc \in {"begin_sync", "end_sync"}

\* Between appends a healthy process knows the whole file.
IndexFollows ==
    Ready /\ (\A w \in Workers : ~Syncing(w)) => indexed = Len(frames)

\* A call on its way to the mutation holds a capability never used, whose start
\* is in the file and, once the permit was returned, durable.
Unspent ==
    \A w \in Workers :
        LET c == worker[w].cap
        IN /\ worker[w].pc \in {"execute", "mutate"} => invoked[c] = 0 /\ StartedIn(c, synced)
           /\ worker[w].pc = "begin_sync" => invoked[c] = 0 /\ StartedIn(c, Len(frames))

SafeInv ==
    /\ Guarded
    /\ IndexFollows
    /\ Unspent
    /\ WriteAhead
    /\ AtMostOnce
    /\ ScanAccepts

(***************************************************************************)
(* The journal.                                                            *)
(***************************************************************************)

\* Appending keeps every frame in its place.
LEMMA AppendKeeps ==
    ASSUME JournalTyped, NEW f \in Frame, AppendWrites(f)
    PROVE  /\ Len(frames') = Len(frames) + 1
           /\ \A i \in 1..Len(frames) : frames'[i] = frames[i]
           /\ frames'[Len(frames) + 1] = f
           /\ synced' = synced /\ indexed' = indexed
BY DEF JournalTyped, JournalTypeOK, AppendWrites

\* The file stays acceptable when the appended frame is.
LEMMA AppendAccepted ==
    ASSUME JournalTyped, ScanAccepts, NEW f \in Frame, AppendWrites(f),
           IF f.kind = "started" THEN ~StartedIn(f.cap, Len(frames))
           ELSE StartedIn(f.cap, Len(frames)) /\ ~TerminalIn(f.cap, Len(frames))
    PROVE  ScanAccepts'
<1>1. /\ Len(frames') = Len(frames) + 1
      /\ \A i \in 1..Len(frames) : frames'[i] = frames[i]
      /\ frames'[Len(frames) + 1] = f
  BY AppendKeeps
<1>2. Len(frames) \in Nat
  BY DEF JournalTyped, JournalTypeOK
<1>3. ASSUME NEW i \in 1..Len(frames')
      PROVE  FrameAccepted(i)'
  <2>1. CASE i <= Len(frames)
    <3>1. FrameAccepted(i)
      BY <1>2, <1>3, <2>1, <1>1 DEF ScanAccepts
    <3> QED
      BY SMTT(40), <1>1, <1>2, <2>1, <3>1 DEF FrameAccepted, StartedIn, TerminalIn
  <2>2. CASE i = Len(frames) + 1
    BY <1>1, <1>2, <2>2 DEF FrameAccepted, StartedIn, TerminalIn
  <2> QED
    BY <1>1, <1>2, <2>1, <2>2
<1> QED
  BY <1>3 DEF ScanAccepts

\* A prefix of an acceptable file is acceptable.
LEMMA PowerLossKeeps ==
    ASSUME JournalTyped, PowerLoss
    PROVE  /\ Len(frames') <= Len(frames) /\ Len(frames') \in Nat
           /\ synced <= synced' /\ synced' = Len(frames')
           /\ \A i \in 1..Len(frames') : frames'[i] = frames[i]
<1> PICK n \in synced..Len(frames) : frames' = SubSeq(frames, 1, n) /\ synced' = n
  BY DEF PowerLoss
<1> QED
  BY DEF JournalTyped, JournalTypeOK

LEMMA PrefixAccepted ==
    ASSUME JournalTyped, ScanAccepts, PowerLoss
    PROVE  ScanAccepts'
<1>1. Len(frames) \in Nat
  BY DEF JournalTyped, JournalTypeOK
<1>2. ASSUME NEW i \in 1..Len(frames')
      PROVE  FrameAccepted(i)'
  <2>1. FrameAccepted(i)
    BY <1>1, PowerLossKeeps DEF ScanAccepts
  <2> QED
    BY <1>1, <2>1, PowerLossKeeps DEF FrameAccepted, StartedIn, TerminalIn
<1> QED
  BY <1>2 DEF ScanAccepts

(***************************************************************************)
(* The gate.                                                               *)
(***************************************************************************)

\* When the holder moves, no other call is inside.
LEMMA HolderMoves ==
    ASSUME Guarded, worker \in [Workers -> Call], NEW w \in Workers,
           worker[w].pc \in Holding, NEW call, worker' = [worker EXCEPT ![w] = call],
           call.pc \in Holding => gate' = w
    PROVE  /\ Guarded'
           /\ worker'[w] = call
           /\ \A v \in Workers \ {w} : worker'[v] = worker[v] /\ worker[v].pc \notin Holding
BY DEF Guarded

(***************************************************************************)
(* Steps.                                                                  *)
(***************************************************************************)

\* The holder moves away from the mutation: nothing is appended, at most an
\* fsync whose outcome is not known covers more of the file.
LEMMA QuietMove ==
    ASSUME TypeInv, SafeInv, NEW w \in Workers, worker[w].pc \in Holding,
           NEW call \in Call, worker' = [worker EXCEPT ![w] = call],
           call.pc \in Holding => gate' = w,
           call.pc \notin {"execute", "mutate", "begin_sync", "end_sync"},
           invoked' = invoked, frames' = frames, synced' \in synced..Len(frames),
           Ready' => Ready /\ indexed' = indexed /\ ~Syncing(w)
    PROVE  SafeInv'
<1>1. /\ Guarded'
      /\ worker'[w] = call
      /\ \A v \in Workers \ {w} : worker'[v] = worker[v] /\ worker[v].pc \notin Holding
  BY Zenon, HolderMoves DEF SafeInv, TypeInv, ExecTyped
<1>2. synced \in Nat /\ synced' \in Nat /\ synced <= synced' /\ Len(frames) \in Nat
  BY DEF TypeInv, JournalTyped, JournalTypeOK
<1>3. IndexFollows'
  BY <1>1 DEF SafeInv, IndexFollows, Syncing, Holding
<1>4. Unspent'
  BY <1>1 DEF Unspent, Holding
<1>5. WriteAhead'
  BY <1>2 DEF SafeInv, WriteAhead, StartedIn
<1>6. AtMostOnce' /\ ScanAccepts'
  BY DEF SafeInv, AtMostOnce, ScanAccepts, FrameAccepted, StartedIn, TerminalIn
<1> QED
  BY <1>1, <1>3, <1>4, <1>5, <1>6 DEF SafeInv

LEMMA HolderStays ==
    ASSUME TypeInv, SafeInv, NEW w \in Workers, worker[w].pc \in Holding, ~Syncing(w),
           NEW call \in Call, worker' = [worker EXCEPT ![w] = call],
           call.pc \notin {"execute", "mutate", "begin_sync", "end_sync"},
           gate' = gate, invoked' = invoked, UNCHANGED journalVars
    PROVE  SafeInv'
<1>1. gate' = w
  BY DEF SafeInv, Guarded
<1>2. /\ Ready' => Ready /\ indexed' = indexed /\ ~Syncing(w)
      /\ frames' = frames /\ synced' = synced
  BY Zenon DEF Ready, journalVars
<1>3. synced' \in synced..Len(frames)
  BY <1>2 DEF TypeInv, JournalTyped, JournalTypeOK
<1> QED
  BY Zenon, <1>1, <1>2, <1>3, QuietMove

LEMMA RejectSafe ==
    ASSUME TypeInv, SafeInv, NEW w \in Workers, worker[w].pc \in Holding, Reject(w),
           \/ UNCHANGED journalVars /\ ~Syncing(w)
           \/ AppendFails
           \/ AppendSyncFails
    PROVE  SafeInv'
<1>1. /\ worker' = [worker EXCEPT ![w] = IdleCall]
      /\ IdleCall.pc \notin Holding
      /\ IdleCall.pc \notin {"execute", "mutate", "begin_sync", "end_sync"}
      /\ invoked' = invoked
  BY DEF Reject, IdleCall, Holding
<1>2. synced \in 0..Len(frames) /\ Len(frames) \in Nat
  BY DEF TypeInv, JournalTyped, JournalTypeOK
<1>3. /\ Ready' => Ready /\ indexed' = indexed /\ ~Syncing(w)
      /\ frames' = frames
      /\ synced' = synced \/ synced' = Len(frames)
  <2>1. CASE UNCHANGED journalVars /\ ~Syncing(w)
    BY <2>1, Zenon DEF Ready, journalVars
  <2>2. CASE AppendFails
    BY <2>2, Zenon DEF AppendFails, Ready
  <2>3. CASE AppendSyncFails
    BY <2>3, Zenon DEF AppendSyncFails, Ready
  <2> QED
    BY <2>1, <2>2, <2>3
<1>4. synced' \in synced..Len(frames)
  BY <1>2, <1>3
<1> QED
  BY Zenon, <1>1, <1>3, <1>4, QuietMove, IdleCallType

LEMMA ReplySafe ==
    ASSUME TypeInv, SafeInv, NEW w \in Workers, worker[w].pc \in Holding, ~Syncing(w),
           NEW r, Reply(w, r), UNCHANGED journalVars
    PROVE  SafeInv'
<1>1. /\ worker' = [worker EXCEPT ![w] = IdleCall]
      /\ IdleCall.pc \notin Holding
      /\ IdleCall.pc \notin {"execute", "mutate", "begin_sync", "end_sync"}
      /\ invoked' = invoked
  BY DEF Reply, IdleCall, Holding
<1>2. synced \in 0..Len(frames) /\ Len(frames) \in Nat
  BY DEF TypeInv, JournalTyped, JournalTypeOK
<1>3. /\ Ready' => Ready /\ indexed' = indexed /\ ~Syncing(w)
      /\ frames' = frames /\ synced' = synced
  BY Zenon DEF Ready, journalVars
<1>4. synced' \in synced..Len(frames)
  BY <1>2, <1>3
<1> QED
  BY Zenon, <1>1, <1>3, <1>4, QuietMove, IdleCallType

LEMMA AssessSafe ==
    ASSUME TypeInv, SafeInv, NEW w \in Workers, worker[w].pc \in Holding, ~Syncing(w),
           worker[w].cap \in Caps, NEW r \in Result, Assess(w, r), UNCHANGED journalVars
    PROVE  SafeInv'
<1> DEFINE call == [worker[w] EXCEPT !.pc = "finish", !.result = r,
                        !.preflight = IdleCall.preflight, !.exit = IdleCall.exit]
<1>1. /\ worker' = [worker EXCEPT ![w] = call]
      /\ call.pc = "finish"
      /\ invoked' = invoked /\ gate' = gate
  BY Zenon DEF Assess, TypeInv, ExecTyped, Call
<1>2. call \in Call
  BY AssessTypes, <1>1 DEF TypeInv, ExecTyped
<1> HIDE DEF call
<1> QED
  BY Zenon, <1>1, <1>2, HolderStays

LEMMA ResumeSafe ==
    ASSUME TypeInv, SafeInv, NEW w \in Workers, worker[w].pc \in Holding, ~Syncing(w),
           worker[w].cap \in Caps, Resume(w), UNCHANGED journalVars
    PROVE  SafeInv'
<1>1. CASE Reply(w, TerminalOf(worker[w].cap))
  BY <1>1, ReplySafe
<1>2. CASE Reject(w)
  BY <1>2, RejectSafe
<1>3. CASE /\ worker' = [worker EXCEPT ![w].pc = "recover", ![w].started = now,
                  ![w].recoveryOnly = FALSE, ![w].deadline = Min2(now + MaxOperation, @)]
           /\ UNCHANGED <<now, boot, gate, nft, invoked, replies>>
  <2> DEFINE call == [worker[w] EXCEPT !.pc = "recover", !.started = now,
                  !.recoveryOnly = FALSE, !.deadline = Min2(now + MaxOperation, @)]
  <2>1. worker' = [worker EXCEPT ![w] = call] /\ call.pc = "recover"
    BY Zenon, <1>3 DEF TypeInv, ExecTyped, Call
  <2>2. call \in Call
    BY ResumeTypes, <2>1 DEF TypeInv, ExecTyped
  <2> HIDE DEF call
  <2> QED
    BY Zenon, <1>3, <2>1, <2>2, HolderStays
<1> QED
  BY <1>1, <1>2, <1>3 DEF Resume

LEMMA AcquireSafe ==
    ASSUME TypeInv, SafeInv, NEW w \in Workers, Acquire(w)
    PROVE  SafeInv'
<1>1. worker[w].pc = "acquire" /\ "acquire" \notin Holding
  BY DEF Acquire, Holding
<1>2. PICK call \in Call :
        /\ worker' = [worker EXCEPT ![w] = call]
        /\ \/ call.pc = "lookup" /\ gate = NoWorker /\ gate' = w
           \/ call.pc = "idle" /\ gate' = gate
  <2>1. CASE gate = NoWorker /\ gate' = w /\ Goto(w, "lookup")
    <3>1. [worker[w] EXCEPT !.pc = "lookup"] \in Call
      BY DEF TypeInv, ExecTyped, Call, Holding
    <3> QED
      BY Zenon, <2>1, <3>1 DEF Goto, TypeInv, ExecTyped, Call
  <2>2. CASE worker' = [worker EXCEPT ![w] = IdleCall] /\ gate' = gate
    BY Zenon, <2>2, IdleCallType
  <2> QED
    BY <2>1, <2>2 DEF Acquire
<1>3. /\ worker'[w] = call
      /\ \A v \in Workers \ {w} : worker'[v] = worker[v]
  BY <1>2 DEF TypeInv, ExecTyped
<1>4. Guarded'
  BY <1>1, <1>2, <1>3, ConstantsAssumption DEF SafeInv, Guarded, Holding
<1>5. /\ frames' = frames /\ synced' = synced /\ indexed' = indexed /\ invoked' = invoked
      /\ Ready' = Ready
  BY DEF Acquire, journalVars, Ready
<1>6. IndexFollows'
  BY <1>1, <1>2, <1>3, <1>5 DEF SafeInv, IndexFollows, Syncing
<1>7. Unspent'
  BY <1>2, <1>3, <1>5 DEF SafeInv, Unspent, StartedIn
<1>8. WriteAhead' /\ AtMostOnce' /\ ScanAccepts'
  BY <1>5 DEF SafeInv, WriteAhead, AtMostOnce, ScanAccepts, FrameAccepted, StartedIn, TerminalIn
<1> QED
  BY <1>4, <1>6, <1>7, <1>8 DEF SafeInv

\* Begin writes the start of a capability no frame knows.
LEMMA BeginSafe ==
    ASSUME TypeInv, SafeInv, NEW w \in Workers, Begin(w)
    PROVE  SafeInv'
<1> DEFINE c == worker[w].cap
<1>1. worker[w].pc = "begin" /\ worker[w].pc \in Holding /\ ~Syncing(w) /\ c \in Caps
  BY DEF Begin, Holding, Syncing, TypeInv, ExecTyped
<1>2. CASE Reject(w) /\ (UNCHANGED journalVars \/ AppendFails)
  BY <1>1, <1>2, RejectSafe
<1>3. CASE Resume(w) /\ UNCHANGED journalVars
  BY <1>1, <1>3, ResumeSafe
<1>4. CASE /\ Ready /\ LookupState(c) = "unseen"
           /\ AppendWrites(StartedFrame(c))
           /\ worker' = [worker EXCEPT ![w].pc = "begin_sync", ![w].started = now]
           /\ UNCHANGED <<now, boot, gate, nft, invoked, replies>>
  <2> DEFINE call == [worker[w] EXCEPT !.pc = "begin_sync", !.started = now]
  <2>1. /\ worker' = [worker EXCEPT ![w] = call]
        /\ call.pc = "begin_sync" /\ call.cap = c
        /\ gate = w /\ gate' = w
    BY ZenonT(60), <1>1, <1>4 DEF TypeInv, ExecTyped, Call, SafeInv, Guarded
  <2> HIDE DEF call
  <2>2. /\ Guarded'
        /\ worker'[w] = call
        /\ \A v \in Workers \ {w} : worker'[v] = worker[v] /\ worker[v].pc \notin Holding
    BY Zenon, <1>1, <2>1, HolderMoves DEF SafeInv, TypeInv, ExecTyped
  <2>3. indexed = Len(frames)
    BY <1>1, <1>4, <2>2 DEF SafeInv, IndexFollows, Syncing, Holding
  <2>4. ~StartedIn(c, Len(frames))
    BY <1>4, <2>3 DEF LookupState
  <2>5. StartedFrame(c) \in Frame /\ StartedFrame(c).kind = "started" /\ StartedFrame(c).cap = c
    BY <1>1, FrameTypes DEF StartedFrame
  <2>6. /\ Len(frames') = Len(frames) + 1
        /\ \A i \in 1..Len(frames) : frames'[i] = frames[i]
        /\ frames'[Len(frames) + 1] = StartedFrame(c)
        /\ synced' = synced
    BY <1>4, <2>5, AppendKeeps DEF TypeInv
  <2>7. Len(frames) \in Nat /\ synced \in 0..Len(frames) /\ invoked \in [Caps -> Nat]
    BY DEF TypeInv, JournalTyped, JournalTypeOK, ExecTyped
  <2>8. invoked[c] = 0
    BY <1>1, <2>4, <2>7 DEF SafeInv, WriteAhead, StartedIn
  <2>9. IndexFollows'
    BY <2>1, <2>2 DEF IndexFollows, Syncing
  <2>10. Unspent'
    <3>1. StartedIn(c, Len(frames))'
      BY <2>1, <2>2, <2>5, <2>6, <2>7 DEF StartedIn
    <3>2. \A v \in Workers : worker'[v].pc \in {"execute", "mutate", "begin_sync"} =>
              v = w /\ worker'[v].pc = "begin_sync" /\ worker'[v].cap = c
      BY <2>1, <2>2 DEF Holding
    <3> QED
      BY Zenon, <1>4, <2>2, <2>8, <3>1, <3>2 DEF Unspent
  <2>11. WriteAhead'
    BY <1>4, <2>6, <2>7 DEF SafeInv, WriteAhead, StartedIn
  <2>12. AtMostOnce'
    BY <1>4 DEF SafeInv, AtMostOnce
  <2>13. ScanAccepts'
    BY <1>4, <2>4, <2>5, AppendAccepted DEF SafeInv, TypeInv
  <2> QED
    BY <2>2, <2>9, <2>10, <2>11, <2>12, <2>13 DEF SafeInv
<1> QED
  BY <1>2, <1>3, <1>4 DEF Begin

\* The permit is returned once the start is durable.
LEMMA BeginSyncSafe ==
    ASSUME TypeInv, SafeInv, NEW w \in Workers, BeginSync(w)
    PROVE  SafeInv'
<1> DEFINE c == worker[w].cap
<1>1. worker[w].pc = "begin_sync" /\ worker[w].pc \in Holding /\ c \in Caps
  BY DEF BeginSync, Holding, TypeInv, ExecTyped
<1>2. CASE AppendSyncFails /\ Reject(w)
  BY <1>1, <1>2, RejectSafe
<1>3. CASE /\ AppendSyncs
           /\ Goto(w, "execute")
           /\ UNCHANGED <<now, boot, gate, nft, invoked, replies>>
  <2> DEFINE call == [worker[w] EXCEPT !.pc = "execute"]
  <2>1. /\ worker' = [worker EXCEPT ![w] = call]
        /\ call.pc = "execute" /\ call.cap = c
        /\ gate = w /\ gate' = w
    BY <1>1, <1>3 DEF Goto, TypeInv, ExecTyped, Call, SafeInv, Guarded
  <2> HIDE DEF call
  <2>2. /\ Guarded'
        /\ worker'[w] = call
        /\ \A v \in Workers \ {w} : worker'[v] = worker[v] /\ worker[v].pc \notin Holding
    BY Zenon, <1>1, <2>1, HolderMoves DEF SafeInv, TypeInv, ExecTyped
  <2>3. frames' = frames /\ synced' = Len(frames) /\ indexed' = Len(frames)
    BY <1>3 DEF AppendSyncs
  <2>4. Len(frames) \in Nat /\ synced \in 0..Len(frames)
    BY DEF TypeInv, JournalTyped, JournalTypeOK
  <2>5. invoked[c] = 0 /\ StartedIn(c, Len(frames))
    BY <1>1 DEF SafeInv, Unspent
  <2>6. IndexFollows'
    BY <2>3 DEF IndexFollows
  <2>7. Unspent'
    <3>1. StartedIn(c, synced)'
      BY <2>1, <2>2, <2>3, <2>5 DEF StartedIn
    <3>2. \A v \in Workers : worker'[v].pc \in {"execute", "mutate", "begin_sync"} =>
              v = w /\ worker'[v].pc = "execute" /\ worker'[v].cap = c
      BY <2>1, <2>2 DEF Holding
    <3> QED
      BY <1>3, <2>1, <2>2, <2>5, <3>1, <3>2 DEF Unspent
  <2>8. WriteAhead' /\ AtMostOnce' /\ ScanAccepts'
    BY <1>3, <2>3, <2>4
    DEF SafeInv, WriteAhead, AtMostOnce, ScanAccepts, FrameAccepted, StartedIn, TerminalIn
  <2> QED
    BY <2>2, <2>6, <2>7, <2>8 DEF SafeInv
<1> QED
  BY <1>2, <1>3 DEF BeginSync

\* The only step that counts a use, from a capability never used.
LEMMA MutateSafe ==
    ASSUME TypeInv, SafeInv, NEW w \in Workers, Mutate(w)
    PROVE  SafeInv'
<1> DEFINE c == worker[w].cap
<1>1. worker[w].pc = "mutate" /\ worker[w].pc \in Holding /\ c \in Caps
  BY DEF Mutate, Holding, TypeInv, ExecTyped
<1>2. PICK exit \in ExitClasses :
          worker' = [worker EXCEPT ![w].pc = "readback", ![w].exit = exit]
  BY DEF Mutate, ExitClasses
<1> DEFINE call == [worker[w] EXCEPT !.pc = "readback", !.exit = exit]
<1>3. /\ worker' = [worker EXCEPT ![w] = call]
      /\ call.pc = "readback"
      /\ gate = w /\ gate' = w
  <2>1. worker' = [worker EXCEPT ![w] = call] /\ call.pc = "readback"
    BY Zenon, <1>2 DEF TypeInv, ExecTyped, Call
  <2>2. gate = w /\ gate' = gate
    BY <1>1 DEF Mutate, SafeInv, Guarded
  <2> QED
    BY <2>1, <2>2
<1> HIDE DEF call
<1>4. /\ Guarded'
      /\ worker'[w] = call
      /\ \A v \in Workers \ {w} : worker'[v] = worker[v] /\ worker[v].pc \notin Holding
  BY Zenon, <1>1, <1>3, HolderMoves DEF SafeInv, TypeInv, ExecTyped
<1>5. /\ frames' = frames /\ synced' = synced /\ indexed' = indexed
      /\ Ready' = Ready
  BY DEF Mutate, journalVars, Ready
<1>6. invoked' = invoked \/ invoked' = [invoked EXCEPT ![c] = @ + 1]
  BY DEF Mutate
<1>7. /\ invoked \in [Caps -> Nat]
      /\ invoked[c] = 0 /\ StartedIn(c, synced)
  BY <1>1 DEF SafeInv, Unspent, TypeInv, ExecTyped
<1>8. IndexFollows'
  BY <1>1, <1>3, <1>4, <1>5 DEF SafeInv, IndexFollows, Syncing, Holding
<1>9. Unspent'
  BY <1>3, <1>4 DEF Unspent, Holding
<1>10. WriteAhead'
  <2>1. \A d \in Caps : invoked'[d] > 0 => d = c \/ invoked[d] > 0
    BY <1>6, <1>7
  <2>2. \A d \in Caps : invoked'[d] > 0 => StartedIn(d, synced)
    BY <1>7, <2>1 DEF SafeInv, WriteAhead
  <2> QED
    BY <1>5, <2>2 DEF WriteAhead, StartedIn
<1>12. AtMostOnce'
  BY <1>1, <1>6, <1>7 DEF SafeInv, AtMostOnce
<1>11. ScanAccepts'
  BY <1>5 DEF SafeInv, ScanAccepts, FrameAccepted, StartedIn, TerminalIn
<1> QED
  BY <1>4, <1>8, <1>9, <1>10, <1>11, <1>12 DEF SafeInv

\* The terminal frame follows its start and is the only one.
LEMMA FinishSafe ==
    ASSUME TypeInv, SafeInv, NEW w \in Workers, Finish(w)
    PROVE  SafeInv'
<1> DEFINE c == worker[w].cap
           r == Finished(w)
<1>1. /\ worker[w].pc = "finish" /\ worker[w].pc \in Holding /\ ~Syncing(w) /\ c \in Caps
      /\ worker[w].result \in Result
  BY DEF Finish, Holding, Syncing, TypeInv, ExecTyped, ResultsTyped
<1>2. CASE Reject(w) /\ (UNCHANGED journalVars \/ AppendFails)
  BY <1>1, <1>2, RejectSafe
<1>3. CASE /\ Ready /\ LookupState(c) = "started_only"
           /\ AppendWrites(TerminalFrame(c, r))
           /\ worker' = [worker EXCEPT ![w].pc = "end_sync", ![w].result = r]
           /\ UNCHANGED <<now, boot, gate, nft, invoked, replies>>
  <2>1. r \in Result
    BY <1>1 DEF Finished, Result, Classifications
  <2> HIDE DEF r
  <2> DEFINE call == [worker[w] EXCEPT !.pc = "end_sync", !.result = r]
  <2>2. /\ worker' = [worker EXCEPT ![w] = call]
        /\ call.pc = "end_sync"
        /\ gate = w /\ gate' = w
    BY ZenonT(60), <1>1, <1>3 DEF TypeInv, ExecTyped, Call, SafeInv, Guarded
  <2> HIDE DEF call
  <2>3. /\ Guarded'
        /\ worker'[w] = call
        /\ \A v \in Workers \ {w} : worker'[v] = worker[v] /\ worker[v].pc \notin Holding
    BY Zenon, <1>1, <2>2, HolderMoves DEF SafeInv, TypeInv, ExecTyped
  <2>4. indexed = Len(frames)
    BY <1>1, <1>3, <2>3 DEF SafeInv, IndexFollows, Syncing, Holding
  <2>5. StartedIn(c, Len(frames)) /\ ~TerminalIn(c, Len(frames))
    BY <1>3, <2>4 DEF LookupState
  <2>6. TerminalFrame(c, r) \in Frame /\ TerminalFrame(c, r).kind = "terminal"
        /\ TerminalFrame(c, r).cap = c
    BY <1>1, <2>1, FrameTypes DEF TerminalFrame
  <2>7. /\ \A i \in 1..Len(frames) : frames'[i] = frames[i]
        /\ synced' = synced
    BY <1>3, <2>6, AppendKeeps DEF TypeInv
  <2>8. Len(frames) \in Nat /\ synced \in 0..Len(frames)
    BY DEF TypeInv, JournalTyped, JournalTypeOK
  <2>9. IndexFollows'
    BY <2>2, <2>3 DEF IndexFollows, Syncing
  <2>10. Unspent'
    BY <2>2, <2>3 DEF Unspent, Holding
  <2>11. WriteAhead' /\ AtMostOnce'
    BY <1>3, <2>7, <2>8 DEF SafeInv, WriteAhead, AtMostOnce, StartedIn
  <2>12. ScanAccepts'
    BY <1>3, <2>5, <2>6, AppendAccepted DEF SafeInv, TypeInv
  <2> QED
    BY <2>3, <2>9, <2>10, <2>11, <2>12 DEF SafeInv
<1> QED
  BY <1>2, <1>3 DEF Finish

LEMMA EndSyncSafe ==
    ASSUME TypeInv, SafeInv, NEW w \in Workers, EndSync(w)
    PROVE  SafeInv'
<1>1. worker[w].pc = "end_sync" /\ worker[w].pc \in Holding
  BY DEF EndSync, Holding
<1>2. CASE AppendSyncFails /\ Reject(w)
  BY <1>1, <1>2, RejectSafe
<1>3. CASE AppendSyncs /\ Reply(w, worker[w].result)
  <2>1. /\ worker' = [worker EXCEPT ![w] = IdleCall]
        /\ IdleCall.pc = "idle" /\ "idle" \notin Holding
        /\ invoked' = invoked
    BY <1>3, IdleCallType DEF Reply, Holding
  <2>2. /\ Guarded'
        /\ worker'[w] = IdleCall
        /\ \A v \in Workers \ {w} : worker'[v] = worker[v] /\ worker[v].pc \notin Holding
    BY Zenon, <1>1, <2>1, HolderMoves DEF SafeInv, TypeInv, ExecTyped
  <2>3. frames' = frames /\ synced' = Len(frames) /\ indexed' = Len(frames)
    BY <1>3 DEF AppendSyncs
  <2>4. Len(frames) \in Nat /\ synced \in 0..Len(frames)
    BY DEF TypeInv, JournalTyped, JournalTypeOK
  <2>5. IndexFollows'
    BY <2>3 DEF IndexFollows
  <2>6. Unspent'
    BY <2>1, <2>2 DEF Unspent, Holding
  <2>7. WriteAhead' /\ AtMostOnce' /\ ScanAccepts'
    BY <2>1, <2>3, <2>4
    DEF SafeInv, WriteAhead, AtMostOnce, ScanAccepts, FrameAccepted, StartedIn, TerminalIn
  <2> QED
    BY <2>2, <2>5, <2>6, <2>7 DEF SafeInv
<1> QED
  BY <1>2, <1>3 DEF EndSync

\* The steps that neither write nor mutate.
LEMMA LookupSafe ==
    ASSUME TypeInv, SafeInv, NEW w \in Workers, Lookup(w)
    PROVE  SafeInv'
<1> DEFINE c == worker[w].cap
<1>1. worker[w].pc \in Holding /\ ~Syncing(w) /\ c \in Caps /\ UNCHANGED journalVars
  BY DEF Lookup, Holding, Syncing, TypeInv, ExecTyped
<1>2. CASE Reject(w)
  BY <1>1, <1>2, RejectSafe
<1>3. CASE Resume(w)
  BY <1>1, <1>3, ResumeSafe
<1>4. CASE /\ worker' = [worker EXCEPT
                  ![w].pc = IF Op[c] = "inspect" THEN "begin" ELSE "preflight",
                  ![w].deadline = OperationDeadline(w, c)]
           /\ UNCHANGED <<now, boot, gate, nft, invoked, replies>>
  <2> DEFINE call == [worker[w] EXCEPT
                  !.pc = IF Op[c] = "inspect" THEN "begin" ELSE "preflight",
                  !.deadline = OperationDeadline(w, c)]
  <2>1. worker' = [worker EXCEPT ![w] = call] /\ call.pc \in {"begin", "preflight"}
    BY Zenon, <1>4 DEF TypeInv, ExecTyped, Call
  <2>2. call \in Call
    BY <2>1, StepTypes DEF Step, TypeInv, ExecTyped
  <2> HIDE DEF call
  <2> QED
    BY Zenon, <1>1, <1>4, <2>1, <2>2, HolderStays
<1> QED
  BY <1>2, <1>3, <1>4 DEF Lookup

LEMMA PreflightSafe ==
    ASSUME TypeInv, SafeInv, NEW w \in Workers, Preflight(w)
    PROVE  SafeInv'
<1>1. /\ worker[w].pc \in Holding /\ ~Syncing(w) /\ worker[w].cap \in Caps
      /\ UNCHANGED journalVars
  BY DEF Preflight, Holding, Syncing, TypeInv, ExecTyped
<1>2. CASE Reject(w)
  BY <1>1, <1>2, RejectSafe
<1>3. ASSUME NEW obs \in Observations(w, 0),
             worker' = [worker EXCEPT ![w].pc = "begin", ![w].preflight = obs.state],
             UNCHANGED <<now, boot, gate, nft, invoked, replies>>
      PROVE  SafeInv'
  <2> DEFINE call == [worker[w] EXCEPT !.pc = "begin", !.preflight = obs.state]
  <2>1. worker' = [worker EXCEPT ![w] = call] /\ call.pc = "begin"
    BY Zenon, <1>3 DEF TypeInv, ExecTyped, Call
  <2>2. call \in Call
    BY <2>1, StepTypes DEF Step, TypeInv, ExecTyped
  <2> HIDE DEF call
  <2> QED
    BY Zenon, <1>1, <1>3, <2>1, <2>2, HolderStays
<1> QED
  BY <1>2, <1>3 DEF Preflight

LEMMA ExecuteSafe ==
    ASSUME TypeInv, SafeInv, NEW w \in Workers, Execute(w)
    PROVE  SafeInv'
<1> DEFINE c == worker[w].cap
<1>1. /\ worker[w].pc = "execute" /\ worker[w].pc \in Holding /\ ~Syncing(w) /\ c \in Caps
      /\ UNCHANGED journalVars
  BY DEF Execute, Holding, Syncing, TypeInv, ExecTyped
<1>2. ASSUME NEW class \in Classifications,
             Assess(w, ResultOf(class, "not_invoked", worker[w].preflight))
      PROVE  SafeInv'
  <2>1. ResultOf(class, "not_invoked", worker[w].preflight) \in Result
    BY DEF ResultOf, Result, ExitClasses, Call, TypeInv, ExecTyped
  <2> QED
    BY <1>1, <1>2, <2>1, AssessSafe
<1>3. CASE Goto(w, "readback") /\ UNCHANGED <<now, boot, gate, nft, invoked, replies>>
  <2> DEFINE call == [worker[w] EXCEPT !.pc = "readback"]
  <2>1. /\ worker' = [worker EXCEPT ![w] = call] /\ call.pc = "readback"
        /\ call \in Call
    BY SMTT(40), <1>3 DEF Goto, TypeInv, ExecTyped, Call, Holding
  <2> HIDE DEF call
  <2> QED
    BY Zenon, <1>1, <1>3, <2>1, HolderStays
<1>4. CASE Goto(w, "mutate") /\ UNCHANGED <<now, boot, gate, nft, invoked, replies>>
  <2> DEFINE call == [worker[w] EXCEPT !.pc = "mutate"]
  <2>1. /\ worker' = [worker EXCEPT ![w] = call]
        /\ call.pc = "mutate" /\ call.cap = c
        /\ gate = w /\ gate' = w
    BY <1>1, <1>4 DEF Goto, TypeInv, ExecTyped, Call, SafeInv, Guarded
  <2> HIDE DEF call
  <2>2. /\ Guarded'
        /\ worker'[w] = call
        /\ \A v \in Workers \ {w} : worker'[v] = worker[v] /\ worker[v].pc \notin Holding
    BY Zenon, <1>1, <2>1, HolderMoves DEF SafeInv, TypeInv, ExecTyped
  <2>3. frames' = frames /\ synced' = synced /\ indexed' = indexed /\ Ready' = Ready
    BY <1>1 DEF journalVars, Ready
  <2>4. invoked[c] = 0 /\ StartedIn(c, synced)
    BY <1>1 DEF SafeInv, Unspent
  <2>5. IndexFollows'
    BY <1>1, <2>1, <2>2, <2>3 DEF SafeInv, IndexFollows, Syncing, Holding
  <2>6. Unspent'
    <3>1. StartedIn(c, synced)'
      BY <2>1, <2>2, <2>3, <2>4 DEF StartedIn
    <3>2. \A v \in Workers : worker'[v].pc \in {"execute", "mutate", "begin_sync"} =>
              v = w /\ worker'[v].pc = "mutate" /\ worker'[v].cap = c
      BY <2>1, <2>2 DEF Holding
    <3> QED
      BY <1>4, <2>1, <2>2, <2>4, <3>1, <3>2 DEF Unspent
  <2>7. WriteAhead' /\ AtMostOnce' /\ ScanAccepts'
    BY <1>4, <2>3
    DEF SafeInv, WriteAhead, AtMostOnce, ScanAccepts, FrameAccepted, StartedIn, TerminalIn
  <2> QED
    BY <2>2, <2>5, <2>6, <2>7 DEF SafeInv
<1> QED
  BY <1>2, <1>3, <1>4 DEF Execute, Classifications

LEMMA ReadbackSafe ==
    ASSUME TypeInv, SafeInv, NEW w \in Workers, Readback(w)
    PROVE  SafeInv'
<1> DEFINE c == worker[w].cap
           m == IF Op[c] = "add" THEN TTL[c] ELSE 0
<1>1. /\ worker[w].pc \in Holding /\ ~Syncing(w) /\ c \in Caps /\ Op[c] \in Operations
      /\ UNCHANGED journalVars
  BY ConstantsAssumption DEF Readback, Holding, Syncing, TypeInv, ExecTyped
<1>2. m \in Nat /\ worker[w].exit \in ExitClasses
  BY <1>1, ConstantsAssumption DEF Call, TypeInv, ExecTyped
<1>3. PICK obs \in Observations(w, m) :
          Assess(w, CASE Op[c] = "add"     -> AddResult(worker[w].exit, obs)
                      [] Op[c] = "revoke"  -> RevokeResult(worker[w].exit, obs)
                      [] Op[c] = "inspect" -> InspectResult(w, obs))
  BY Zenon DEF Readback
<1>4. obs \in [state : ReadbackStates, err : BOOLEAN]
  BY <1>1, <1>2, ObservationTypes DEF TypeInv
<1>5. (CASE Op[c] = "add"     -> AddResult(worker[w].exit, obs)
         [] Op[c] = "revoke"  -> RevokeResult(worker[w].exit, obs)
         [] Op[c] = "inspect" -> InspectResult(w, obs)) \in Result
  BY <1>1, <1>2, <1>4, ResultTypes DEF Operations, TypeInv
<1> QED
  BY Zenon, <1>1, <1>3, <1>5, AssessSafe

LEMMA RecoverSafe ==
    ASSUME TypeInv, SafeInv, NEW w \in Workers, Recover(w)
    PROVE  SafeInv'
<1> DEFINE c == worker[w].cap
           m == IF Op[c] = "add" THEN TTL[c] ELSE 0
<1>1. /\ worker[w].pc \in Holding /\ ~Syncing(w) /\ c \in Caps
      /\ UNCHANGED journalVars
  BY DEF Recover, Holding, Syncing, TypeInv, ExecTyped
<1>2. m \in Nat
  BY <1>1, ConstantsAssumption
<1>3. PICK obs \in Observations(w, m) : Assess(w, RecoveredResult(w, obs)) \/ Reject(w)
  BY DEF Recover
<1>4. RecoveredResult(w, obs) \in Result
  BY <1>1, <1>2, ObservationTypes, ResultTypes DEF ExitClasses, TypeInv
<1> QED
  BY <1>1, <1>3, <1>4, AssessSafe, RejectSafe

\* Death of the process or of the machine: no call survives, and of the file at
\* least the durable prefix.
LEMMA DeathSafe ==
    ASSUME TypeInv, SafeInv, Forget, ProcessCrash \/ PowerLoss
    PROVE  SafeInv'
<1>1. /\ ~Ready'
      /\ \A w \in Workers : worker'[w].pc = "idle"
      /\ invoked' = invoked
  BY IdleCallType DEF Forget, ProcessCrash, PowerLoss, Ready
<1>2. Guarded' /\ IndexFollows' /\ Unspent' /\ AtMostOnce'
  BY <1>1 DEF SafeInv, Guarded, IndexFollows, Unspent, AtMostOnce, Holding
<1>3. CASE ProcessCrash
  <2>1. frames' = frames /\ synced' = synced
    BY <1>3 DEF ProcessCrash
  <2>2. WriteAhead' /\ ScanAccepts'
    BY <1>1, <2>1 DEF SafeInv, WriteAhead, ScanAccepts, FrameAccepted, StartedIn, TerminalIn
  <2> QED
    BY <1>2, <2>2 DEF SafeInv
<1>4. CASE PowerLoss
  <2>1. ScanAccepts'
    BY <1>4, PrefixAccepted DEF SafeInv, TypeInv
  <2>2. /\ synced \in Nat /\ synced' \in Nat /\ synced <= synced'
        /\ \A i \in 1..synced' : frames'[i] = frames[i]
    BY <1>4, PowerLossKeeps DEF TypeInv, JournalTyped, JournalTypeOK
  <2>3. WriteAhead'
    BY <1>1, <2>2 DEF SafeInv, WriteAhead, StartedIn
  <2> QED
    BY <1>2, <2>1, <2>3 DEF SafeInv
<1> QED
  BY <1>3, <1>4

\* Calls and the file stay as they are.
LEMMA IdleSafe ==
    ASSUME TypeInv, SafeInv, frames' = frames, synced' = synced, invoked' = invoked,
           Ready' => indexed' = Len(frames) \/ (Ready /\ indexed' = indexed),
           gate' = gate,
           \A v \in Workers : worker'[v] = worker[v] \/ (worker'[v].pc = "acquire" /\ ~Syncing(v))
    PROVE  SafeInv'
<1>1. Guarded'
  BY DEF SafeInv, Guarded, Holding
<1>2. IndexFollows'
  BY DEF SafeInv, IndexFollows, Syncing
<1>3. Unspent'
  BY DEF SafeInv, Unspent, StartedIn
<1>4. WriteAhead' /\ AtMostOnce' /\ ScanAccepts'
  BY DEF SafeInv, WriteAhead, AtMostOnce, ScanAccepts, FrameAccepted, StartedIn, TerminalIn
<1> QED
  BY <1>1, <1>2, <1>3, <1>4 DEF SafeInv

LEMMA NextSafe ==
    ASSUME TypeInv, SafeInv, [Next]_vars
    PROVE  SafeInv'
<1>1. ASSUME NEW w \in Workers, NEW c \in Caps, NEW rec \in BOOLEAN, Receive(w, c, rec)
      PROVE  SafeInv'
  <2>1. Ready' => indexed' = Len(frames) \/ (Ready /\ indexed' = indexed)
    BY <1>1, Zenon DEF Receive, journalVars, Ready
  <2>2. \A v \in Workers : worker'[v] = worker[v] \/ (worker'[v].pc = "acquire" /\ ~Syncing(v))
    BY <1>1 DEF Receive, TypeInv, ExecTyped, IdleCall, Syncing
  <2>3. frames' = frames /\ synced' = synced /\ gate' = gate /\ invoked' = invoked
    BY <1>1 DEF Receive, journalVars
  <2> QED
    BY <2>1, <2>2, <2>3, IdleSafe
<1>2. ASSUME NEW w \in Workers, Step(w)
      PROVE  SafeInv'
  BY <1>2, AcquireSafe, LookupSafe, PreflightSafe, BeginSafe, BeginSyncSafe, ExecuteSafe,
     MutateSafe, ReadbackSafe, RecoverSafe, FinishSafe, EndSyncSafe DEF Step
<1>3. CASE Tick
  <2>1. Ready' => indexed' = Len(frames) \/ (Ready /\ indexed' = indexed)
    BY <1>3, Zenon DEF Tick, journalVars, Ready
  <2>2. \A v \in Workers : worker'[v] = worker[v] \/ (worker'[v].pc = "acquire" /\ ~Syncing(v))
    BY <1>3 DEF Tick, journalVars
  <2>3. frames' = frames /\ synced' = synced /\ gate' = gate /\ invoked' = invoked
    BY <1>3 DEF Tick, journalVars
  <2> QED
    BY <2>1, <2>2, <2>3, IdleSafe
<1>4. CASE Crash
  BY <1>4, DeathSafe DEF Crash
<1>5. CASE LosePower
  BY <1>5, DeathSafe DEF LosePower
<1>6. CASE Restart
  <2>1. Ready' => indexed' = Len(frames) \/ (Ready /\ indexed' = indexed)
    BY <1>6, Zenon DEF Restart, Open, Ready
  <2>2. \A v \in Workers : worker'[v] = worker[v] \/ (worker'[v].pc = "acquire" /\ ~Syncing(v))
    BY <1>6 DEF Restart, Open
  <2>3. frames' = frames /\ synced' = synced /\ gate' = gate /\ invoked' = invoked
    BY <1>6 DEF Restart, Open
  <2> QED
    BY <2>1, <2>2, <2>3, IdleSafe
<1>7. CASE UNCHANGED vars
  <2>1. Ready' => indexed' = Len(frames) \/ (Ready /\ indexed' = indexed)
    BY <1>7, Zenon DEF vars, Ready
  <2>2. \A v \in Workers : worker'[v] = worker[v] \/ (worker'[v].pc = "acquire" /\ ~Syncing(v))
    BY <1>7 DEF vars
  <2>3. frames' = frames /\ synced' = synced /\ gate' = gate /\ invoked' = invoked
    BY <1>7 DEF vars
  <2> QED
    BY <2>1, <2>2, <2>3, IdleSafe
<1> QED
  BY <1>1, <1>2, <1>3, <1>4, <1>5, <1>6, <1>7 DEF Next

LEMMA InitSafe ==
    ASSUME Init
    PROVE  SafeInv
<1>1. /\ Len(frames) = 0 /\ indexed = 0
      /\ \A w \in Workers : worker[w].pc = "idle"
      /\ \A c \in Caps : invoked[c] = 0
  BY IdleCallType DEF Init, JournalInit
<1> QED
  BY <1>1 DEF SafeInv, Guarded, Holding, IndexFollows, Unspent, WriteAhead, AtMostOnce, ScanAccepts

LEMMA SafeAlways == Spec => [](TypeInv /\ SafeInv)
<1>1. Init => TypeInv /\ SafeInv
  BY InitTypes, InitSafe
<1>2. TypeInv /\ SafeInv /\ [Next]_vars => (TypeInv /\ SafeInv)'
  BY NextTypes, NextSafe
<1> QED
  BY <1>1, <1>2, PTL DEF Spec

\* nft runs at most once per capability, through any crashes, failed or partial
\* writes, failed fsyncs and power losses (Begin, Mutate, Open).
THEOREM MutatesAtMostOnce == Spec => []AtMostOnce
<1>1. SafeInv => AtMostOnce
  BY DEF SafeInv
<1> QED
  BY <1>1, SafeAlways, PTL

\* A use of a capability is preceded by a durable start (Begin's two fsyncs).
THEOREM StartsAreDurable == Spec => []WriteAhead
<1>1. SafeInv => WriteAhead
  BY DEF SafeInv
<1> QED
  BY <1>1, SafeAlways, PTL

\* The executor never writes, and no loss leaves, a sequence of whole frames
\* that Open would refuse (indexFrame).
THEOREM JournalReopens == Spec => []ReopenAccepts
<1>1. SafeInv => ReopenAccepts
  BY DEF SafeInv, ReopenAccepts
<1> QED
  BY <1>1, SafeAlways, PTL
=============================================================================
