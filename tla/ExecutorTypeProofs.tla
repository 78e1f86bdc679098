--------------------------- MODULE ExecutorTypeProofs -------------------------
(***************************************************************************)
(* Type correctness of Executor, for any number of connections, capabilities, *)
(* targets, frames, crashes and power losses.                                *)
(***************************************************************************)
EXTENDS Executor, TLAPS

\* A terminal frame holds a result.
FramesTyped ==
    \A i \in 1..Len(frames) : frames[i].kind = "terminal" => frames[i].res \in Result

\* A call past its assessment carries a result.
ResultsTyped ==
    \A w \in Workers : worker[w].pc \in {"finish", "end_sync"} => worker[w].result \in Result

JournalTyped == JournalTypeOK /\ FramesTyped

ExecTyped ==
    /\ now \in Nat
    /\ boot \in Nat
    /\ gate \in Workers \union {NoWorker}
    /\ worker \in [Workers -> Call]
    /\ \A w \in Workers : worker[w].pc # "idle" => worker[w].cap \in Caps
    /\ nft \in [Targets -> [exp : Nat, by : Caps \union {NoCap}]]
    /\ invoked \in [Caps -> Nat]
    /\ replies \in [Caps -> SUBSET Result]
    /\ ResultsTyped

TypeInv == JournalTyped /\ ExecTyped

LEMMA TypeInvOK == TypeInv => TypeOK
BY DEF TypeInv, JournalTyped, ExecTyped, TypeOK

LEMMA IdleCallType == IdleCall \in Call /\ IdleCall.pc = "idle"
BY DEF IdleCall, Call, Waiting, Holding, ReadbackStates, ExitClasses

LEMMA FrameTypes ==
    ASSUME NEW c \in Caps
    PROVE  /\ StartedFrame(c) \in Frame
           /\ \A r \in Result : TerminalFrame(c, r) \in Frame
BY DEF StartedFrame, TerminalFrame, Frame

LEMMA ResultTypes ==
    ASSUME ExecTyped, NEW w \in Workers, worker[w].cap \in Caps,
           NEW obs \in [state : ReadbackStates, err : BOOLEAN], NEW exit \in ExitClasses
    PROVE  /\ AddResult(exit, obs) \in Result
           /\ RevokeResult(exit, obs) \in Result
           /\ InspectResult(w, obs) \in Result
           /\ RecoveredResult(w, obs) \in Result
<1>1. boot \in Nat
  BY DEF ExecTyped
<1>2. \A class \in Classifications, e \in ExitClasses, s \in ReadbackStates :
          ResultOf(class, e, s) \in Result
  BY <1>1 DEF ResultOf, Result
<1>3. obs.state \in ReadbackStates
  OBVIOUS
<1>4. AddResult(exit, obs) \in Result /\ RevokeResult(exit, obs) \in Result
  BY <1>2, <1>3 DEF AddResult, RevokeResult, MutationClass, Classifications
<1>5. InspectResult(w, obs) \in Result
  <2> DEFINE e == IF ~obs.err THEN "success" ELSE IF Expired(w) THEN "timeout" ELSE "nonzero"
  <2>1. e \in ExitClasses
    BY DEF ExitClasses
  <2> QED
    BY <1>2, <1>3, <2>1 DEF InspectResult, Classifications, ReadbackStates
<1>6. RecoveredResult(w, obs) \in Result
  BY <1>2, <1>3, <1>5, ConstantsAssumption
  DEF RecoveredResult, Classifications, ExitClasses, Operations
<1> QED
  BY <1>4, <1>5, <1>6

LEMMA ObservationTypes ==
    ASSUME ExecTyped, NEW w \in Workers, worker[w].cap \in Caps,
           NEW m \in Nat, NEW obs \in Observations(w, m)
    PROVE  obs \in [state : ReadbackStates, err : BOOLEAN]
<1> DEFINE t == Target[worker[w].cap]
<1>1. now \in Nat /\ nft[t].exp \in Nat
  BY ConstantsAssumption DEF ExecTyped
<1>2. SetAsSeen(t, m) \in [state : ReadbackStates, err : BOOLEAN]
  BY <1>1 DEF SetAsSeen, ReadbackStates
<1>3. obs \in {[state |-> "unavailable", err |-> TRUE],
               [state |-> "mismatch", err |-> FALSE], SetAsSeen(t, m)}
  BY DEF Observations
<1>4. /\ [state |-> "unavailable", err |-> TRUE] \in [state : ReadbackStates, err : BOOLEAN]
      /\ [state |-> "mismatch", err |-> FALSE] \in [state : ReadbackStates, err : BOOLEAN]
  BY DEF ReadbackStates
<1> QED
  BY <1>2, <1>3, <1>4, Zenon

(***************************************************************************)
(* The journal keeps its type.                                             *)
(***************************************************************************)

LEMMA AppendTypes ==
    ASSUME JournalTyped, NEW f \in Frame, f.kind = "terminal" => f.res \in Result,
           AppendWrites(f)
    PROVE  JournalTyped'
BY DEF JournalTyped, JournalTypeOK, FramesTyped, AppendWrites

LEMMA JournalStepTypes ==
    ASSUME JournalTyped,
           \/ AppendFails \/ AppendSyncs \/ AppendSyncFails \/ Open \/ ProcessCrash
           \/ UNCHANGED journalVars
    PROVE  JournalTyped'
<1> USE DEF JournalTyped, JournalTypeOK, FramesTyped
<1>1. CASE AppendFails
  BY Zenon, <1>1 DEF AppendFails
<1>2. CASE AppendSyncs
  BY <1>2 DEF AppendSyncs
<1>3. CASE AppendSyncFails
  BY <1>3 DEF AppendSyncFails
<1>4. CASE Open
  BY <1>4 DEF Open
<1>5. CASE ProcessCrash
  <2>1. /\ frames' = frames /\ synced' = synced /\ torn' = torn
        /\ up' \in BOOLEAN /\ poisoned' \in BOOLEAN /\ indexed' = 0
    BY <1>5, Zenon DEF ProcessCrash
  <2> QED
    BY <2>1
<1>6. CASE UNCHANGED journalVars
  BY <1>6 DEF journalVars
<1> QED
  BY <1>1, <1>2, <1>3, <1>4, <1>5, <1>6

LEMMA PowerLossTypes ==
    ASSUME JournalTyped, PowerLoss
    PROVE  JournalTyped'
<1> PICK n \in synced..Len(frames) :
        /\ frames' = SubSeq(frames, 1, n)
        /\ synced' = n
        /\ torn' \in {b \in BOOLEAN : b => torn \/ n < Len(frames)}
  BY DEF PowerLoss
<1>1. n \in Nat /\ n <= Len(frames) /\ frames \in Seq(Frame)
  BY DEF JournalTyped, JournalTypeOK
<1>2. /\ frames' \in Seq(Frame) /\ Len(frames') = n
      /\ \A i \in 1..n : frames'[i] = frames[i]
  BY <1>1
<1>3. torn' \in BOOLEAN /\ up' \in BOOLEAN /\ poisoned' \in BOOLEAN /\ indexed' = 0
  BY Zenon DEF PowerLoss
<1>4. FramesTyped'
  BY <1>1, <1>2 DEF JournalTyped, FramesTyped
<1> QED
  BY <1>1, <1>2, <1>3, <1>4 DEF JournalTyped, JournalTypeOK

(***************************************************************************)
(* A step of one call keeps the types of the service.                      *)
(***************************************************************************)

LEMMA CallTypes ==
    ASSUME ExecTyped, NEW w \in Workers, NEW call \in Call,
           call.pc # "idle" => call.cap \in Caps,
           call.pc \in {"finish", "end_sync"} => call.result \in Result,
           worker' = [worker EXCEPT ![w] = call]
    PROVE  /\ worker' \in [Workers -> Call]
           /\ \A v \in Workers : worker'[v].pc # "idle" => worker'[v].cap \in Caps
           /\ ResultsTyped'
BY DEF ExecTyped, ResultsTyped

LEMMA GotoTypes ==
    ASSUME ExecTyped, NEW w \in Workers, NEW label \in Holding \ {"finish", "end_sync"},
           worker[w].cap \in Caps, Goto(w, label),
           gate' \in Workers \union {NoWorker}, UNCHANGED <<now, boot, nft, invoked, replies>>
    PROVE  ExecTyped'
<1> DEFINE call == [worker[w] EXCEPT !.pc = label]
<1>1. call \in Call /\ call.pc = label /\ call.cap \in Caps
  BY DEF ExecTyped, Call
<1>2. worker' = [worker EXCEPT ![w] = call]
  BY DEF Goto
<1> QED
  BY Zenon, <1>1, <1>2, CallTypes DEF ExecTyped

LEMMA RejectTypes ==
    ASSUME ExecTyped, NEW w \in Workers, Reject(w)
    PROVE  ExecTyped'
BY Zenon, CallTypes, IdleCallType DEF ExecTyped, Reject, Release

LEMMA ReplyTypes ==
    ASSUME ExecTyped, NEW w \in Workers, worker[w].cap \in Caps, NEW r \in Result,
           Reply(w, r)
    PROVE  ExecTyped'
BY Zenon, CallTypes, IdleCallType DEF ExecTyped, Reply, Release

LEMMA FinishedCall ==
    ASSUME NEW old \in Call, old.cap \in Caps, NEW r \in Result,
           NEW state \in ReadbackStates, NEW exit \in ExitClasses
    PROVE  LET call == [old EXCEPT !.pc = "finish", !.result = r,
                                   !.preflight = state, !.exit = exit]
           IN  call \in Call /\ call.cap \in Caps /\ call.result \in Result
BY Zenon DEF Call, Holding

LEMMA AssessTypes ==
    ASSUME ExecTyped, NEW w \in Workers, worker[w].cap \in Caps, NEW r \in Result,
           Assess(w, r)
    PROVE  ExecTyped'
<1> DEFINE call == [worker[w] EXCEPT !.pc = "finish", !.result = r,
                        !.preflight = IdleCall.preflight, !.exit = IdleCall.exit]
<1>0. IdleCall.preflight \in ReadbackStates /\ IdleCall.exit \in ExitClasses
  BY DEF IdleCall, ReadbackStates, ExitClasses
<1>a. worker[w] \in Call
  BY DEF ExecTyped
<1>1. call \in Call /\ call.cap \in Caps /\ call.result \in Result
  BY Zenon, <1>0, <1>a, FinishedCall
<1>2. worker' = [worker EXCEPT ![w] = call]
  BY Zenon DEF Assess, ExecTyped, Call
<1> QED
  BY Zenon, <1>1, <1>2, CallTypes DEF ExecTyped, Assess

\* The journal hands out results.
LEMMA TerminalType ==
    ASSUME JournalTyped, NEW c \in Caps, LookupState(c) = "terminal"
    PROVE  TerminalOf(c) \in Result
<1>1. PICK i \in 1..indexed : frames[i].kind = "terminal" /\ frames[i].cap = c
  BY DEF LookupState, TerminalIn
<1>2. \A k \in 1..indexed : frames[k].kind = "terminal" => frames[k].res \in Result
  BY DEF JournalTyped, JournalTypeOK, FramesTyped
<1> QED
  BY <1>1, <1>2 DEF TerminalOf

LEMMA ResumeTypes ==
    ASSUME TypeInv, NEW w \in Workers, worker[w].cap \in Caps, Resume(w)
    PROVE  ExecTyped'
<1> DEFINE c == worker[w].cap
<1>1. CASE LookupState(c) = "terminal" /\ Reply(w, TerminalOf(c))
  BY <1>1, TerminalType, ReplyTypes DEF TypeInv
<1>2. CASE Reject(w)
  BY <1>2, RejectTypes DEF TypeInv
<1>3. CASE /\ worker' = [worker EXCEPT ![w].pc = "recover", ![w].started = now,
                  ![w].recoveryOnly = FALSE, ![w].deadline = Min2(now + MaxOperation, @)]
           /\ UNCHANGED <<now, boot, gate, nft, invoked, replies>>
  <2> DEFINE call == [worker[w] EXCEPT !.pc = "recover", !.started = now,
                  !.recoveryOnly = FALSE, !.deadline = Min2(now + MaxOperation, @)]
  <2>1. worker[w] \in Call /\ now \in Nat
    BY DEF TypeInv, ExecTyped
  <2>2. Min2(now + MaxOperation, worker[w].deadline) \in Nat
    BY <2>1, ConstantsAssumption DEF Min2, Call
  <2>3. call \in Call /\ call.cap \in Caps /\ call.pc = "recover"
    BY Zenon, <2>1, <2>2 DEF Call, Holding
  <2>4. worker' = [worker EXCEPT ![w] = call]
    BY Zenon, <1>3, <2>1 DEF TypeInv, ExecTyped, Call
  <2> QED
    BY Zenon, <1>3, <2>3, <2>4, CallTypes DEF TypeInv, ExecTyped
<1> QED
  BY <1>1, <1>2, <1>3 DEF Resume

LEMMA StepTypes ==
    ASSUME TypeInv, NEW w \in Workers, Step(w)
    PROVE  TypeInv'
<1> DEFINE c == worker[w].cap
<1> USE DEF TypeInv
<1>1. worker[w] \in Call /\ now \in Nat /\ boot \in Nat
  BY DEF ExecTyped
<1>2. worker[w].pc # "idle" => c \in Caps
  BY DEF ExecTyped
<1>4. CASE Acquire(w)
  <2>1. c \in Caps
    BY <1>2, <1>4 DEF Acquire
  <2>2. JournalTyped'
    BY <1>4, JournalStepTypes DEF Acquire
  <2>3. CASE gate' = w /\ Goto(w, "lookup") /\ UNCHANGED <<now, boot, nft, invoked, replies>>
    BY <2>1, <2>2, <2>3, GotoTypes DEF Holding
  <2>4. CASE /\ worker' = [worker EXCEPT ![w] = IdleCall]
             /\ UNCHANGED <<now, boot, gate, nft, invoked, replies>>
    BY Zenon, <2>2, <2>4, CallTypes, IdleCallType DEF ExecTyped
  <2> QED
    BY <1>4, <2>3, <2>4 DEF Acquire
<1>5. CASE Lookup(w)
  <2>1. c \in Caps
    BY <1>2, <1>5 DEF Lookup
  <2>2. JournalTyped'
    BY <1>5, JournalStepTypes DEF Lookup
  <2>3. CASE Reject(w)
    BY <2>2, <2>3, RejectTypes
  <2>4. CASE Ready /\ Resume(w)
    BY <2>1, <2>2, <2>4, ResumeTypes
  <2>5. CASE /\ worker' = [worker EXCEPT
                    ![w].pc = IF Op[c] = "inspect" THEN "begin" ELSE "preflight",
                    ![w].deadline = OperationDeadline(w, c)]
             /\ UNCHANGED <<now, boot, gate, nft, invoked, replies>>
    <3> DEFINE call == [worker[w] EXCEPT
                    !.pc = IF Op[c] = "inspect" THEN "begin" ELSE "preflight",
                    !.deadline = OperationDeadline(w, c)]
    <3>1. OperationDeadline(w, c) \in Nat
      BY <1>1, <2>1, ConstantsAssumption DEF OperationDeadline, Min2, Call
    <3>2. call \in Call /\ call.cap \in Caps /\ call.pc \in {"begin", "preflight"}
      BY Zenon, <1>1, <2>1, <3>1 DEF Call, Holding
    <3>3. worker' = [worker EXCEPT ![w] = call]
      BY Zenon, <1>1, <2>5 DEF ExecTyped, Call
    <3> QED
      BY Zenon, <2>2, <2>5, <3>2, <3>3, CallTypes DEF ExecTyped
  <2> QED
    BY <1>5, <2>3, <2>4, <2>5 DEF Lookup
<1>6. CASE Preflight(w)
  <2>1. c \in Caps
    BY <1>2, <1>6 DEF Preflight
  <2>2. JournalTyped'
    BY <1>6, JournalStepTypes DEF Preflight
  <2>3. PICK obs \in Observations(w, 0) :
            IF obs.err \/ obs.state \in {"mismatch", "unavailable"}
            THEN Reject(w)
            ELSE /\ worker' = [worker EXCEPT ![w].pc = "begin",
                                             ![w].preflight = obs.state]
                 /\ UNCHANGED <<now, boot, gate, nft, invoked, replies>>
    BY <1>6 DEF Preflight
  <2>4. CASE Reject(w)
    BY <2>2, <2>4, RejectTypes
  <2>5. CASE /\ worker' = [worker EXCEPT ![w].pc = "begin", ![w].preflight = obs.state]
             /\ UNCHANGED <<now, boot, gate, nft, invoked, replies>>
    <3> DEFINE call == [worker[w] EXCEPT !.pc = "begin", !.preflight = obs.state]
    <3>1. obs.state \in ReadbackStates
      BY <2>1, ObservationTypes
    <3>2. call \in Call /\ call.cap \in Caps /\ call.pc = "begin"
      BY Zenon, <1>1, <2>1, <3>1 DEF Call, Holding
    <3>3. worker' = [worker EXCEPT ![w] = call]
      BY Zenon, <1>1, <2>5 DEF ExecTyped, Call
    <3> QED
      BY Zenon, <2>2, <2>5, <3>2, <3>3, CallTypes DEF ExecTyped
  <2> QED
    BY <2>3, <2>4, <2>5
<1>7. CASE Begin(w)
  <2>1. c \in Caps
    BY <1>2, <1>7 DEF Begin
  <2>2. CASE Reject(w) /\ (UNCHANGED journalVars \/ AppendFails)
    BY <2>2, RejectTypes, JournalStepTypes
  <2>3. CASE Resume(w) /\ UNCHANGED journalVars
    BY <2>1, <2>3, ResumeTypes, JournalStepTypes
  <2>4. CASE /\ AppendWrites(StartedFrame(c))
             /\ worker' = [worker EXCEPT ![w].pc = "begin_sync", ![w].started = now]
             /\ UNCHANGED <<now, boot, gate, nft, invoked, replies>>
    <3> DEFINE call == [worker[w] EXCEPT !.pc = "begin_sync", !.started = now]
    <3>1. JournalTyped'
      BY <2>1, <2>4, AppendTypes, FrameTypes DEF StartedFrame
    <3>2. call \in Call /\ call.cap \in Caps /\ call.pc = "begin_sync"
      BY Zenon, <1>1, <2>1 DEF Call, Holding
    <3>3. worker' = [worker EXCEPT ![w] = call]
      BY Zenon, <1>1, <2>4 DEF ExecTyped, Call
    <3> QED
      BY Zenon, <2>4, <3>1, <3>2, <3>3, CallTypes DEF ExecTyped
  <2> QED
    BY <1>7, <2>2, <2>3, <2>4 DEF Begin
<1>8. CASE BeginSync(w)
  <2>1. c \in Caps
    BY <1>2, <1>8 DEF BeginSync
  <2>2. CASE /\ AppendSyncs
             /\ Goto(w, "execute")
             /\ UNCHANGED <<now, boot, gate, nft, invoked, replies>>
    BY <2>1, <2>2, GotoTypes, JournalStepTypes DEF Holding, ExecTyped
  <2>3. CASE AppendSyncFails /\ Reject(w)
    BY <2>3, RejectTypes, JournalStepTypes
  <2> QED
    BY <1>8, <2>2, <2>3 DEF BeginSync
<1>9. CASE Execute(w)
  <2>1. c \in Caps
    BY <1>2, <1>9 DEF Execute
  <2>2. JournalTyped'
    BY <1>9, JournalStepTypes DEF Execute
  <2>3. ASSUME NEW class \in Classifications,
               Assess(w, ResultOf(class, "not_invoked", worker[w].preflight))
        PROVE  ExecTyped'
    <3>1. ResultOf(class, "not_invoked", worker[w].preflight) \in Result
      BY <1>1 DEF ResultOf, Result, ExitClasses, Call
    <3> QED
      BY <2>1, <2>3, <3>1, AssessTypes
  <2>4. CASE /\ Goto(w, IF Op[c] = "inspect" THEN "readback" ELSE "mutate")
             /\ UNCHANGED <<now, boot, gate, nft, invoked, replies>>
    BY <2>1, <2>2, <2>4, GotoTypes DEF Holding, ExecTyped
  <2> QED
    BY <1>9, <2>2, <2>3, <2>4 DEF Execute, Classifications
<1>10. CASE Mutate(w)
  <2>1. c \in Caps
    BY <1>2, <1>10 DEF Mutate
  <2>2. JournalTyped'
    BY <1>10, JournalStepTypes DEF Mutate
  <2>3. PICK exit \in ExitClasses :
            worker' = [worker EXCEPT ![w].pc = "readback", ![w].exit = exit]
    BY <1>10 DEF Mutate, ExitClasses
  <2> DEFINE call == [worker[w] EXCEPT !.pc = "readback", !.exit = exit]
  <2>4. call \in Call /\ call.cap \in Caps /\ call.pc = "readback"
    BY Zenon, <1>1, <2>1 DEF Call, Holding
  <2>5. worker' = [worker EXCEPT ![w] = call]
    BY Zenon, <1>1, <2>3 DEF ExecTyped, Call
  <2>6. Committed(c) \in [Targets -> [exp : Nat, by : Caps \union {NoCap}]]
    BY <1>1, <2>1, ConstantsAssumption DEF Committed, Absent, ExecTyped
  <2>7. nft' \in {nft, Committed(c)} /\ invoked' \in [Caps -> Nat]
    BY <1>10, <2>1 DEF Mutate, ExecTyped
  <2> QED
    BY Zenon, <1>10, <2>2, <2>4, <2>5, <2>6, <2>7, CallTypes DEF ExecTyped, Mutate
<1>11. CASE Readback(w)
  <2>1. c \in Caps /\ Op[c] \in Operations
    BY <1>2, <1>11, ConstantsAssumption DEF Readback
  <2>2. JournalTyped'
    BY <1>11, JournalStepTypes DEF Readback
  <2> DEFINE m == IF Op[c] = "add" THEN TTL[c] ELSE 0
  <2>3. m \in Nat /\ worker[w].exit \in ExitClasses
    BY <1>1, <2>1, ConstantsAssumption DEF Call
  <2>4. PICK obs \in Observations(w, m) :
            Assess(w, CASE Op[c] = "add"     -> AddResult(worker[w].exit, obs)
                        [] Op[c] = "revoke"  -> RevokeResult(worker[w].exit, obs)
                        [] Op[c] = "inspect" -> InspectResult(w, obs))
    BY Zenon, <1>11 DEF Readback
  <2>5. obs \in [state : ReadbackStates, err : BOOLEAN]
    BY <2>1, <2>3, ObservationTypes
  <2>6. (CASE Op[c] = "add"     -> AddResult(worker[w].exit, obs)
           [] Op[c] = "revoke"  -> RevokeResult(worker[w].exit, obs)
           [] Op[c] = "inspect" -> InspectResult(w, obs)) \in Result
    BY <2>1, <2>3, <2>5, ResultTypes DEF Operations
  <2> QED
    BY Zenon, <2>1, <2>2, <2>4, <2>6, AssessTypes
<1>12. CASE Recover(w)
  <2>1. c \in Caps
    BY <1>2, <1>12 DEF Recover
  <2>2. JournalTyped'
    BY <1>12, JournalStepTypes DEF Recover
  <2> DEFINE m == IF Op[c] = "add" THEN TTL[c] ELSE 0
  <2>3. m \in Nat
    BY <2>1, ConstantsAssumption
  <2>4. PICK obs \in Observations(w, m) :
            Assess(w, RecoveredResult(w, obs)) \/ Reject(w)
    BY <1>12 DEF Recover
  <2>5. RecoveredResult(w, obs) \in Result
    BY <2>1, <2>3, ObservationTypes, ResultTypes DEF ExitClasses
  <2> QED
    BY <2>1, <2>2, <2>4, <2>5, AssessTypes, RejectTypes
<1>13. CASE Finish(w)
  <2> DEFINE r == Finished(w)
  <2>1. c \in Caps /\ worker[w].result \in Result
    BY <1>2, <1>13 DEF Finish, ExecTyped, ResultsTyped
  <2>2. r \in Result
    BY <2>1 DEF Finished, Result, Classifications
  <2>3. CASE Reject(w) /\ (UNCHANGED journalVars \/ AppendFails)
    BY <2>3, RejectTypes, JournalStepTypes
  <2>4. CASE /\ AppendWrites(TerminalFrame(c, r))
             /\ worker' = [worker EXCEPT ![w].pc = "end_sync", ![w].result = r]
             /\ UNCHANGED <<now, boot, gate, nft, invoked, replies>>
    <3> DEFINE call == [worker[w] EXCEPT !.pc = "end_sync", !.result = r]
    <3>1. JournalTyped'
      BY <2>1, <2>2, <2>4, AppendTypes, FrameTypes DEF TerminalFrame
    <3> HIDE DEF r
    <3>2. call \in Call /\ call.cap \in Caps /\ call.result \in Result
      BY Zenon, <1>1, <2>1, <2>2 DEF Call, Holding
    <3>3. worker' = [worker EXCEPT ![w] = call]
      BY Zenon, <1>1, <2>4 DEF ExecTyped, Call
    <3> QED
      BY Zenon, <2>4, <3>1, <3>2, <3>3, CallTypes DEF ExecTyped
  <2> QED
    BY <1>13, <2>3, <2>4 DEF Finish
<1>14. CASE EndSync(w)
  <2>1. c \in Caps /\ worker[w].result \in Result
    BY <1>2, <1>14 DEF EndSync, ExecTyped, ResultsTyped
  <2> QED
    BY <1>14, <2>1, ReplyTypes, RejectTypes, JournalStepTypes DEF EndSync
<1> QED
  BY <1>4, <1>5, <1>6, <1>7, <1>8, <1>9, <1>10, <1>11, <1>12, <1>13, <1>14 DEF Step

LEMMA ReceiveTypes ==
    ASSUME TypeInv, NEW w \in Workers, NEW c \in Caps, NEW rec \in BOOLEAN,
           Receive(w, c, rec)
    PROVE  TypeInv'
<1> DEFINE call == [IdleCall EXCEPT !.pc = "acquire", !.cap = c, !.recoveryOnly = rec,
                                    !.deadline = now + MaxOperation]
<1>1. now + MaxOperation \in Nat
  BY ConstantsAssumption DEF TypeInv, ExecTyped
<1>2. call \in Call /\ call.cap \in Caps /\ call.pc = "acquire"
  BY Zenon, <1>1, IdleCallType DEF Call, Waiting
<1>3. worker' = [worker EXCEPT ![w] = call] /\ UNCHANGED <<now, boot, gate, nft, invoked, replies>>
  BY DEF Receive
<1>4. JournalTyped'
  BY JournalStepTypes DEF Receive, TypeInv
<1> QED
  BY Zenon, <1>2, <1>3, <1>4, CallTypes DEF TypeInv, ExecTyped

LEMMA ForgetTypes ==
    ASSUME ExecTyped, Forget,
           nft' \in [Targets -> [exp : Nat, by : Caps \union {NoCap}]]
    PROVE  ExecTyped'
BY IdleCallType DEF ExecTyped, ResultsTyped, Forget

LEMMA NextTypes ==
    ASSUME TypeInv, [Next]_vars
    PROVE  TypeInv'
<1> USE DEF TypeInv
<1>1. ASSUME NEW w \in Workers, NEW c \in Caps, NEW rec \in BOOLEAN, Receive(w, c, rec)
      PROVE  TypeInv'
  BY <1>1, ReceiveTypes
<1>2. ASSUME NEW w \in Workers, Step(w)
      PROVE  TypeInv'
  BY <1>2, StepTypes
<1>3. CASE Tick
  <2>1. nft' \in [Targets -> [exp : Nat, by : Caps \union {NoCap}]]
    BY <1>3 DEF Tick, Absent, ExecTyped
  <2> QED
    BY <1>3, <2>1, JournalStepTypes DEF Tick, ExecTyped, ResultsTyped
<1>4. CASE Crash
  BY <1>4, ForgetTypes, JournalStepTypes DEF Crash, ExecTyped
<1>5. CASE LosePower
  <2>1. nft' \in [Targets -> [exp : Nat, by : Caps \union {NoCap}]]
    BY <1>5 DEF LosePower, Absent
  <2> QED
    BY <1>5, <2>1, ForgetTypes, PowerLossTypes DEF LosePower
<1>6. CASE Restart
  BY <1>6, JournalStepTypes DEF Restart, ExecTyped, ResultsTyped
<1>7. CASE UNCHANGED vars
  BY <1>7, JournalStepTypes DEF vars, journalVars, ExecTyped, ResultsTyped
<1> QED
  BY <1>1, <1>2, <1>3, <1>4, <1>5, <1>6, <1>7 DEF Next

LEMMA InitTypes ==
    ASSUME Init
    PROVE  TypeInv
<1>1. torn \in BOOLEAN /\ up \in BOOLEAN /\ poisoned \in BOOLEAN
  BY Zenon DEF Init, JournalInit
<1>2. frames \in Seq(Frame) /\ Len(frames) = 0 /\ synced = 0 /\ indexed = 0
  BY DEF Init, JournalInit
<1>3. JournalTyped
  BY <1>1, <1>2 DEF JournalTyped, JournalTypeOK, FramesTyped
<1>4. /\ worker \in [Workers -> Call]
      /\ \A w \in Workers : worker[w].pc = "idle"
  BY IdleCallType DEF Init
<1>5. nft \in [Targets -> [exp : Nat, by : Caps \union {NoCap}]]
  BY DEF Init, Absent
<1> QED
  BY <1>3, <1>4, <1>5 DEF Init, TypeInv, ExecTyped, ResultsTyped

\* Type correctness: every behaviour of the executor keeps TypeOK.
THEOREM TypeCorrect == Spec => []TypeOK
<1>1. Init => TypeInv
  BY InitTypes
<1>2. TypeInv /\ [Next]_vars => TypeInv'
  BY NextTypes
<1> QED
  BY <1>1, <1>2, TypeInvOK, PTL DEF Spec
=============================================================================
