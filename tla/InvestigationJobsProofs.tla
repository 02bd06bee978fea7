----------------------- MODULE InvestigationJobsProofs -----------------------
(***************************************************************************)
(* Proofs about InvestigationJobs for any set of jobs, controllers, tickers *)
(* and model calls and any number of faults.  The inductive invariant ties  *)
(* the worker's position to the journal: while a worker is between its      *)
(* reservation and the answer, its call is the job's only pending one, and  *)
(* a stop nobody asked for comes with a failed lease thread.                *)
(***************************************************************************)
EXTENDS InvestigationJobs, TLAPS

USE DEF Owned, InProgress

-----------------------------------------------------------------------------
(* The inductive invariant *)

\* a worker between reservation and answer is responsible for a pending call
InFlight ==
    \A j \in Jobs : pc[j] \in {"reserved", "waiting"} =>
        call[j] \in CallIds /\ calls[j][call[j]] = "pending"

OnePending ==
    \A j \in Jobs : \A k, l \in CallIds :
        calls[j][k] = "pending" /\ calls[j][l] = "pending" => k = l

SettledAnswered == \A j \in Jobs : status[j] \in Ended \ {"unknown"} => ~Pending(j)

SentReserved == \A j \in Jobs : \A k \in sent[j] : calls[j][k] # "unused"

CallInv == InFlight /\ OnePending /\ SettledAnswered /\ SentReserved

\* a stop that no failed lease thread explains was asked for
StopExplained ==
    \A j \in Jobs : stop[j] /\ pc[j] # "failing_error" /\ ~failure[j] => asked[j]

StopInv ==
    /\ StopExplained
    /\ \A j \in Jobs :
        /\ pc[j] = "failing_stop" => stop[j]
        /\ heart[j] = "failed" => failure[j]
        /\ cancelRequested[j] => asked[j]
        /\ status[j] = "absent" => pc[j] = "none"
        /\ pc[j] = "none" => ~stop[j] /\ heart[j] = "none" /\ host[j] = Nobody
        /\ status[j] = "cancelled" => asked[j]

IndInv == TypeOK /\ CallInv

-----------------------------------------------------------------------------
ControllerAct(c, j) ==
    \/ Start(c, j)
    \/ StartRefused(c, j)
    \/ Cancel(c, j)

JobAct(j) ==
    \/ LeaseExpires(j)
    \/ Heartbeat(j)
    \/ HeartStops(j)
    \/ Begin(j)
    \/ ReserveCall(j)
    \/ AgentFails(j)
    \/ AgentGivesUp(j)
    \/ Dispatch(j)
    \/ ObserveTerminal(j)
    \/ CallAbandoned(j)
    \/ RecordResult(j)
    \/ Finish(j)
    \/ FinishFailed(j)

\* The next-state relation, action by action.
LEMMA NextSplit ==
    ASSUME Next
    PROVE  \/ \E c \in Controllers, j \in Jobs : ControllerAct(c, j)
           \/ \E c \in Controllers : Close(c) \/ Crash(c)
           \/ \E j \in Jobs : JobAct(j)
  BY DEF Next, ControllerStep, WorkerStep, ControllerAct, JobAct

\* The status finish writes is a final one, and it is "unknown" exactly when
\* a call has no answer.
LEMMA FinalStatusKind ==
    ASSUME NEW j, NEW reported \in {"succeeded", "incomplete", "failed", "cancelled"}
    PROVE  /\ FinalStatus(j, reported) \in Ended
           /\ Pending(j) => FinalStatus(j, reported) = "unknown"
           /\ ~Pending(j) => FinalStatus(j, reported) \in Ended \ {"unknown"}
  BY DEF FinalStatus, Ended

\* What recovery makes of a row is one of the row statuses.
LEMMA RecoveredKind ==
    ASSUME status \in [Jobs -> Statuses], NEW j \in Jobs
    PROVE  /\ Recovered(j) \in Statuses
           /\ status[j] # "expired" => Recovered(j) = status[j]
           /\ status[j] = "expired" /\ Pending(j) => Recovered(j) = "unknown"
           /\ status[j] = "expired" /\ ~Pending(j) => Recovered(j) = "failed"
  BY DEF Recovered, Statuses, Ended

\* An empty journal is well typed.
LEMMA TypeInit == Init => TypeOK
  BY BoundAssumption DEF Init, TypeOK, Statuses, CallStates, Steps, Hearts

\* The workers that leave keep the types.
LEMMA LeaveType ==
    ASSUME TypeOK, NEW J, Leave(J)
    PROVE  /\ pc' \in [Jobs -> Steps] /\ host' \in [Jobs -> Controllers \cup {Nobody}]
           /\ call' \in [Jobs -> CallIds \cup {NoCall}]
           /\ stop' \in [Jobs -> BOOLEAN] /\ failure' \in [Jobs -> BOOLEAN]
           /\ asked' \in [Jobs -> BOOLEAN] /\ heart' \in [Jobs -> Hearts]
           /\ sent' \in [Jobs -> SUBSET CallIds]
  <1>1. pc' \in [Jobs -> Steps] /\ heart' \in [Jobs -> Hearts]
    BY DEF TypeOK, Leave, Steps, Hearts
  <1>2. host' \in [Jobs -> Controllers \cup {Nobody}] /\ call' \in [Jobs -> CallIds \cup {NoCall}]
    BY DEF TypeOK, Leave
  <1>3. stop' \in [Jobs -> BOOLEAN] /\ failure' \in [Jobs -> BOOLEAN]
    BY Zenon DEF TypeOK, Leave
  <1>4. asked' \in [Jobs -> BOOLEAN] /\ sent' \in [Jobs -> SUBSET CallIds]
    BY DEF TypeOK, Leave
  <1> QED BY <1>1, <1>2, <1>3, <1>4

\* One more fault stays within the bound.
LEMMA FaultType == ASSUME TypeOK, Fault PROVE faults' \in 0..MaxFaults
  BY BoundAssumption DEF TypeOK, Fault

\* finish, done or refused, keeps the types.
LEMMA FinishType ==
    ASSUME TypeOK, NEW j \in Jobs,
           NEW reported \in {"succeeded", "incomplete", "failed", "cancelled"},
           Finishes(j, reported) \/ FinishRaises(j, reported)
    PROVE  /\ status' \in [Jobs -> Statuses] /\ cancelRequested' \in [Jobs -> BOOLEAN]
           /\ calls' \in [Jobs -> [CallIds -> CallStates]] /\ concluded' \in [Jobs -> BOOLEAN]
           /\ faults' \in 0..MaxFaults
  <1>1. CASE Finishes(j, reported)
    BY <1>1, FinalStatusKind DEF Finishes, TypeOK, Statuses
  <1>2. CASE FinishRaises(j, reported)
    BY <1>2, FaultType DEF FinishRaises, TypeOK, journal
  <1> QED BY <1>1, <1>2

\* The types are kept by the actions of a controller.
LEMMA TypeController ==
    ASSUME TypeOK, NEW c \in Controllers, NEW j \in Jobs, ControllerAct(c, j)
    PROVE  TypeOK'
  <1>1. CASE Start(c, j)
    <2>1. status' \in [Jobs -> Statuses] BY <1>1, RecoveredKind DEF Start, TypeOK, Statuses
    <2>2. pc' \in [Jobs -> Steps] /\ host' \in [Jobs -> Controllers \cup {Nobody}]
      <3>1. CASE UNCHANGED <<pc, host>> BY <3>1 DEF TypeOK
      <3>2. CASE pc' = [pc EXCEPT ![j] = "begin"] /\ host' = [host EXCEPT ![j] = c]
        BY <3>2 DEF TypeOK, Steps
      <3> QED BY <1>1, <3>1, <3>2 DEF Start
    <2>3. faults' \in 0..MaxFaults BY <1>1, FaultType DEF Start, TypeOK
    <2> QED BY <1>1, <2>1, <2>2, <2>3 DEF Start, TypeOK
  <1>2. CASE StartRefused(c, j)
    <2>1. status' \in [Jobs -> Statuses] BY <1>2, RecoveredKind DEF StartRefused, TypeOK
    <2>2. faults' \in 0..MaxFaults BY <1>2, FaultType DEF StartRefused, TypeOK
    <2> QED BY <1>2, <2>1, <2>2 DEF StartRefused, TypeOK, worker
  <1>3. CASE Cancel(c, j)
    <2>1. stop' \in [Jobs -> BOOLEAN] /\ asked' \in [Jobs -> BOOLEAN] /\ cancelRequested' \in [Jobs -> BOOLEAN]
      BY <1>3, Zenon DEF Cancel, TypeOK
    <2>2. faults' \in 0..MaxFaults BY <1>3, FaultType DEF Cancel, TypeOK
    <2> QED BY <1>3, <2>1, <2>2 DEF Cancel, TypeOK
  <1> QED BY <1>1, <1>2, <1>3 DEF ControllerAct

\* The types are kept when a controller closes or its process dies.
LEMMA TypeClose ==
    ASSUME TypeOK, NEW c \in Controllers, Close(c) \/ Crash(c)
    PROVE  TypeOK'
  <1>1. CASE Close(c)
    <2>1. stop' \in [Jobs -> BOOLEAN] /\ asked' \in [Jobs -> BOOLEAN] /\ cancelRequested' \in [Jobs -> BOOLEAN]
      BY <1>1, Zenon DEF Close, TypeOK
    <2>2. faults' \in 0..MaxFaults BY <1>1, FaultType DEF Close, TypeOK
    <2> QED BY <1>1, <2>1, <2>2 DEF Close, TypeOK
  <1>2. CASE Crash(c)
    BY <1>2, LeaveType DEF Crash, TypeOK, journal
  <1> QED BY <1>1, <1>2

\* The types are kept by the worker, its lease thread and the clock.
LEMMA TypeJob ==
    ASSUME TypeOK, InFlight, NEW j \in Jobs, JobAct(j)
    PROVE  TypeOK'
  <1> USE DEF TypeOK, Moves, Raises, Untouched, Steps, Hearts, CallStates
  <1>1. CASE LeaseExpires(j) BY <1>1 DEF LeaseExpires, worker, Statuses
  <1>2. CASE Heartbeat(j)
    <2>1. stop' \in [Jobs -> BOOLEAN] /\ failure' \in [Jobs -> BOOLEAN] BY <1>2, Zenon DEF Heartbeat
    <2>2. faults' \in 0..MaxFaults BY <1>2, FaultType DEF Heartbeat
    <2> QED BY <1>2, <2>1, <2>2 DEF Heartbeat, journal
  <1>3. CASE HeartStops(j) BY <1>3 DEF HeartStops, journal
  <1>4. CASE Begin(j) BY <1>4 DEF Begin, journal
  <1>5. CASE ReserveCall(j)
    <2>1. faults' \in 0..MaxFaults BY <1>5, FaultType DEF ReserveCall
    <2>2. PICK k \in CallIds : Reserves(j, k) BY <1>5 DEF ReserveCall
    <2>3. calls' \in [Jobs -> [CallIds -> CallStates]]
      <3>1. calls' = [calls EXCEPT ![j][k] = "pending"] /\ "pending" \in CallStates BY <2>2 DEF Reserves
      <3> HIDE DEF CallStates
      <3> QED BY <3>1
    <2>4. call' \in [Jobs -> CallIds \cup {NoCall}] /\ concluded' \in [Jobs -> BOOLEAN]
      BY <2>2 DEF Reserves
    <2>5. pc' \in [Jobs -> Steps] /\ stop' \in [Jobs -> BOOLEAN] BY <1>5 DEF ReserveCall
    <2> QED BY <1>5, <2>1, <2>3, <2>4, <2>5 DEF ReserveCall
  <1>6. CASE AgentFails(j) BY <1>6 DEF AgentFails, journal
  <1>7. CASE AgentGivesUp(j) BY <1>7 DEF AgentGivesUp, journal
  <1>9. CASE ObserveTerminal(j)
    <2>1. PICK t \in CallStates : calls' = [calls EXCEPT ![j][call[j]] = t]
      BY <1>9, Zenon DEF ObserveTerminal, Bind
    <2>2. calls' \in [Jobs -> [CallIds -> CallStates]]
      <3> HIDE DEF CallStates
      <3> QED BY <2>1
    <2> QED BY <1>9, <2>2 DEF ObserveTerminal
  <1>10. CASE CallAbandoned(j) BY <1>10 DEF CallAbandoned, journal
  <1>11. CASE RecordResult(j)
    <2>1. concluded' \in [Jobs -> BOOLEAN] BY <1>11 DEF RecordResult
    <2>2. stop' \in [Jobs -> BOOLEAN] BY <1>11 DEF RecordResult
    <2>3. pc' \in [Jobs -> Steps] /\ host' = host BY <1>11 DEF RecordResult
    <2> HIDE DEF Steps, Hearts, CallStates
    <2> QED BY <1>11, <2>1, <2>2, <2>3 DEF RecordResult
  <1>12. CASE Finish(j)
    <2>1. Reported(j) \in {"succeeded", "incomplete", "failed", "cancelled"} BY DEF Reported
    <2>2. CASE Finishes(j, Reported(j)) /\ Leave({j})
      BY <1>12, <2>1, <2>2, FinishType, LeaveType DEF Finish
    <2>3. CASE FinishRaises(j, Reported(j)) /\ Moves(j, pc[j], "failing_error")
                 /\ stop' = [stop EXCEPT ![j] = TRUE] /\ Untouched
      BY <1>12, <2>1, <2>3, FinishType DEF Finish
    <2>4. CASE Moves(j, pc[j], "failing_stop") /\ stop' = [stop EXCEPT ![j] = TRUE]
                 /\ Untouched /\ UNCHANGED <<journal, faults>>
      BY <1>12, <2>4 DEF Finish, journal
    <2> QED BY <1>12, <2>2, <2>3, <2>4 DEF Finish
  <1>13. CASE FinishFailed(j)
    <2>1. FailureStatus(j) \in {"succeeded", "incomplete", "failed", "cancelled"} BY DEF FailureStatus
    <2> QED BY <1>13, <2>1, FinishType, LeaveType DEF FinishFailed
  <1>14. CASE Dispatch(j)
    <2>1. call[j] \in CallIds BY <1>14 DEF Dispatch, InFlight
    <2>2. sent' = [sent EXCEPT ![j] = sent[j] \cup {call[j]}] BY <1>14 DEF Dispatch
    <2>3. sent' \in [Jobs -> SUBSET CallIds] BY <2>1, <2>2, Zenon
    <2> HIDE DEF Steps, Hearts, CallStates
    <2>4. pc' \in [Jobs -> Steps] BY <1>14 DEF Dispatch, Steps
    <2> QED BY <1>14, <2>3, <2>4 DEF Dispatch, journal
  <1> QED BY <1>1, <1>2, <1>3, <1>4, <1>5, <1>6, <1>7, <1>9, <1>10, <1>11, <1>12, <1>13, <1>14 DEF JobAct

-----------------------------------------------------------------------------
(* The call invariant *)

\* An empty journal has sent no call.
LEMMA CallInit == Init => CallInv
  BY DEF Init, CallInv, InFlight, OnePending, SettledAnswered, SentReserved, Pending, Ended

\* A step that leaves the calls and what was sent alone, and puts no worker
\* on the way to an answer, keeps the call invariant if it closes no job
\* with a pending call as settled.
LEMMA CallKept ==
    ASSUME IndInv, TypeOK', UNCHANGED <<calls, sent>>,
           \A j \in Jobs : pc'[j] \in {"reserved", "waiting"} =>
               pc[j] \in {"reserved", "waiting"} /\ call'[j] = call[j],
           \A j \in Jobs : Pending(j) => status'[j] \notin Ended \ {"unknown"}
                                            \/ status'[j] = status[j]
    PROVE  CallInv'
  <1>1. InFlight' BY DEF IndInv, CallInv, InFlight
  <1>2. OnePending' BY DEF IndInv, CallInv, OnePending
  <1>3. SettledAnswered' BY DEF IndInv, CallInv, SettledAnswered, Pending
  <1>4. SentReserved' BY DEF IndInv, CallInv, SentReserved
  <1> QED BY <1>1, <1>2, <1>3, <1>4 DEF CallInv

\* The controllers keep the call invariant: recovery closes a job with a
\* pending call as unknown.
LEMMA CallController ==
    ASSUME IndInv, TypeOK', NEW c \in Controllers, NEW j \in Jobs, ControllerAct(c, j)
    PROVE  CallInv'
  <1>1. CASE Start(c, j)
    <2>1. \A k \in Jobs : Pending(k) => status'[k] \notin Ended \ {"unknown"} \/ status'[k] = status[k]
      BY <1>1, RecoveredKind DEF Start, IndInv, TypeOK, Ended
    <2>2. \A k \in Jobs : pc'[k] \in {"reserved", "waiting"} => pc[k] = pc'[k]
      <3>1. pc' = pc \/ pc' = [pc EXCEPT ![j] = "begin"] BY <1>1 DEF Start
      <3> QED BY <3>1 DEF IndInv, TypeOK
    <2>3. UNCHANGED <<calls, sent, call>> BY <1>1 DEF Start
    <2> QED BY <2>1, <2>2, <2>3, CallKept
  <1>2. CASE StartRefused(c, j)
    <2>1. \A k \in Jobs : Pending(k) => status'[k] \notin Ended \ {"unknown"} \/ status'[k] = status[k]
      BY <1>2, RecoveredKind DEF StartRefused, IndInv, TypeOK, Ended
    <2> QED BY <1>2, <2>1, CallKept DEF StartRefused, worker
  <1>3. CASE Cancel(c, j) BY <1>3, CallKept DEF Cancel
  <1> QED BY <1>1, <1>2, <1>3 DEF ControllerAct

\* Closing a controller, or its death, keeps the call invariant: a call in
\* flight stays pending without its worker.
LEMMA CallClose ==
    ASSUME IndInv, TypeOK', NEW c \in Controllers, Close(c) \/ Crash(c)
    PROVE  CallInv'
  <1>1. CASE Close(c) BY <1>1, CallKept DEF Close
  <1>2. CASE Crash(c)
    <2>1. \A k \in Jobs : pc'[k] \in {"reserved", "waiting"} => pc[k] = pc'[k] /\ call'[k] = call[k]
      BY <1>2 DEF Crash, Leave
    <2> QED BY <1>2, <2>1, CallKept DEF Crash, Leave, journal
  <1> QED BY <1>1, <1>2

\* A worker that leaves after finish, done or refused, keeps the call
\* invariant.
LEMMA CallFinish ==
    ASSUME IndInv, TypeOK', NEW j \in Jobs,
           NEW reported \in {"succeeded", "incomplete", "failed", "cancelled"},
           Finishes(j, reported) \/ FinishRaises(j, reported),
           UNCHANGED sent,
           \A k \in Jobs : pc'[k] \in {"reserved", "waiting"} => pc[k] = pc'[k] /\ call'[k] = call[k]
    PROVE  CallInv'
  <1>1. \A k \in Jobs : Pending(k) => status'[k] \notin Ended \ {"unknown"} \/ status'[k] = status[k]
    <2>1. CASE Finishes(j, reported) BY <2>1, FinalStatusKind DEF Finishes, IndInv, TypeOK
    <2>2. CASE FinishRaises(j, reported) BY <2>2 DEF FinishRaises, journal
    <2> QED BY <2>1, <2>2
  <1>2. UNCHANGED calls BY DEF Finishes, FinishRaises, journal
  <1> QED BY <1>1, <1>2, CallKept

\* A reservation makes the first pending call of its job.
LEMMA CallReserve ==
    ASSUME IndInv, TypeOK', NEW j \in Jobs, ReserveCall(j)
    PROVE  CallInv'
  <1>1. PICK k \in CallIds : Reserves(j, k) BY DEF ReserveCall
  <1>2. /\ calls' = [calls EXCEPT ![j][k] = "pending"] /\ call' = [call EXCEPT ![j] = k]
        /\ ~Pending(j) /\ status[j] = "running" /\ calls[j][k] = "unused"
    BY <1>1 DEF Reserves, AllCompleted, Used, Pending
  <1>3. UNCHANGED <<status, sent>> BY DEF ReserveCall
  <1>4. pc' = [pc EXCEPT ![j] = "reserved"] \/ pc' = [pc EXCEPT ![j] = "failing_error"]
    BY DEF ReserveCall, Moves
  <1>5. InFlight' BY <1>2, <1>4 DEF IndInv, CallInv, InFlight, TypeOK
  <1>6. OnePending' BY <1>2 DEF IndInv, CallInv, OnePending, TypeOK, Pending
  <1>7. SettledAnswered' BY <1>2, <1>3 DEF IndInv, CallInv, SettledAnswered, TypeOK, Pending, Ended
  <1>8. SentReserved' BY <1>2, <1>3 DEF IndInv, CallInv, SentReserved, TypeOK
  <1> QED BY <1>5, <1>6, <1>7, <1>8 DEF CallInv

\* An answer is recorded for the one pending call.
LEMMA CallObserve ==
    ASSUME IndInv, TypeOK', NEW j \in Jobs, ObserveTerminal(j)
    PROVE  CallInv'
  <1>1. pc[j] = "waiting" BY DEF ObserveTerminal, Moves, Raises
  <1>2. call[j] \in CallIds /\ calls[j][call[j]] = "pending" BY <1>1 DEF IndInv, CallInv, InFlight
  <1>3. PICK t \in {"completed", "failed"} : calls' = [calls EXCEPT ![j][call[j]] = t]
    BY Zenon DEF ObserveTerminal, Bind
  <1>4. UNCHANGED <<status, sent, call>> BY DEF ObserveTerminal, Untouched
  <1>5. \A k \in Jobs : pc'[k] \in {"reserved", "waiting"} => pc[k] = pc'[k] /\ k # j
    BY DEF ObserveTerminal, Moves, Raises, IndInv, TypeOK
  <1>6. InFlight' BY <1>3, <1>4, <1>5 DEF IndInv, CallInv, InFlight, TypeOK
  <1>7. OnePending' BY <1>2, <1>3 DEF IndInv, CallInv, OnePending, TypeOK
  <1>8. SettledAnswered' BY <1>2, <1>3, <1>4 DEF IndInv, CallInv, SettledAnswered, TypeOK, Pending
  <1>9. SentReserved' BY <1>2, <1>3, <1>4 DEF IndInv, CallInv, SentReserved, TypeOK
  <1> QED BY <1>6, <1>7, <1>8, <1>9 DEF CallInv

\* Sending the reserved call keeps the call invariant.
LEMMA CallDispatch ==
    ASSUME IndInv, TypeOK', NEW j \in Jobs, Dispatch(j)
    PROVE  CallInv'
  <1>1. pc[j] = "reserved" /\ pc' = [pc EXCEPT ![j] = "waiting"] BY DEF Dispatch, Moves
  <1>2. call[j] \in CallIds /\ calls[j][call[j]] = "pending" BY <1>1 DEF IndInv, CallInv, InFlight
  <1>3. UNCHANGED <<status, calls, call>> BY DEF Dispatch, journal
  <1>4. \A k \in Jobs : sent'[k] = IF k = j THEN sent[k] \cup {call[j]} ELSE sent[k]
    BY DEF Dispatch, IndInv, TypeOK
  <1>5. InFlight' BY <1>1, <1>2, <1>3 DEF IndInv, CallInv, InFlight, TypeOK
  <1>6. OnePending' BY <1>3 DEF IndInv, CallInv, OnePending
  <1>7. SettledAnswered' BY <1>3 DEF IndInv, CallInv, SettledAnswered, Pending
  <1>8. SentReserved' BY <1>2, <1>3, <1>4 DEF IndInv, CallInv, SentReserved
  <1> QED BY <1>5, <1>6, <1>7, <1>8 DEF CallInv

\* The workers, their lease threads and the clock keep the call invariant.
LEMMA CallJob ==
    ASSUME IndInv, TypeOK', NEW j \in Jobs, JobAct(j)
    PROVE  CallInv'
  <1> USE DEF Moves, Raises, Untouched
  <1>a. TypeOK BY DEF IndInv
  <1>1. CASE LeaseExpires(j) BY <1>1, <1>a, CallKept DEF LeaseExpires, worker, TypeOK, Ended
  <1>2. CASE Heartbeat(j) BY <1>2, CallKept DEF Heartbeat, journal
  <1>3. CASE HeartStops(j) BY <1>3, CallKept DEF HeartStops, journal
  <1>4. CASE Begin(j)
    <2>1. \A k \in Jobs : pc'[k] \in {"reserved", "waiting"} => pc[k] = pc'[k] BY <1>4, <1>a DEF Begin, TypeOK
    <2> QED BY <1>4, <2>1, CallKept DEF Begin, journal
  <1>5. CASE ReserveCall(j) BY <1>5, CallReserve
  <1>6. CASE AgentFails(j)
    <2>1. \A k \in Jobs : pc'[k] \in {"reserved", "waiting"} => pc[k] = pc'[k] BY <1>6, <1>a DEF AgentFails, TypeOK
    <2> QED BY <1>6, <2>1, CallKept DEF AgentFails, journal
  <1>7. CASE AgentGivesUp(j)
    <2>1. \A k \in Jobs : pc'[k] \in {"reserved", "waiting"} => pc[k] = pc'[k] BY <1>7, <1>a DEF AgentGivesUp, TypeOK
    <2> QED BY <1>7, <2>1, CallKept DEF AgentGivesUp, journal
  <1>8. CASE Dispatch(j) BY <1>8, CallDispatch
  <1>9. CASE ObserveTerminal(j) BY <1>9, CallObserve
  <1>10. CASE CallAbandoned(j)
    <2>1. \A k \in Jobs : pc'[k] \in {"reserved", "waiting"} => pc[k] = pc'[k] BY <1>10, <1>a DEF CallAbandoned, TypeOK
    <2> QED BY <1>10, <2>1, CallKept DEF CallAbandoned, journal
  <1>11. CASE RecordResult(j)
    <2>1. \A k \in Jobs : pc'[k] \in {"reserved", "waiting"} => pc[k] = pc'[k] BY <1>11, <1>a DEF RecordResult, TypeOK
    <2> QED BY <1>11, <2>1, CallKept DEF RecordResult
  <1>12. CASE Finish(j)
    <2>1. Reported(j) \in {"succeeded", "incomplete", "failed", "cancelled"} BY DEF Reported
    <2>2. CASE Finishes(j, Reported(j)) /\ Leave({j})
      BY <2>1, <2>2, CallFinish DEF Leave
    <2>3. CASE FinishRaises(j, Reported(j)) /\ Moves(j, pc[j], "failing_error") /\ Untouched
      <3>1. \A k \in Jobs : pc'[k] \in {"reserved", "waiting"} => pc[k] = pc'[k] BY <2>3, <1>a DEF TypeOK
      <3> QED BY <2>1, <2>3, <3>1, CallFinish
    <2>4. CASE Moves(j, pc[j], "failing_stop") /\ Untouched /\ UNCHANGED journal
      <3>1. \A k \in Jobs : pc'[k] \in {"reserved", "waiting"} => pc[k] = pc'[k] BY <2>4, <1>a DEF TypeOK
      <3> QED BY <2>4, <3>1, CallKept DEF journal
    <2> QED BY <1>12, <2>2, <2>3, <2>4 DEF Finish
  <1>13. CASE FinishFailed(j)
    <2>1. FailureStatus(j) \in {"succeeded", "incomplete", "failed", "cancelled"} BY DEF FailureStatus
    <2> QED BY <1>13, <2>1, CallFinish DEF FinishFailed, Leave
  <1> QED BY <1>1, <1>2, <1>3, <1>4, <1>5, <1>6, <1>7, <1>8, <1>9, <1>10, <1>11, <1>12, <1>13 DEF JobAct

\* Every step keeps the types and the call invariant.
LEMMA IndStep == IndInv /\ [Next]_vars => IndInv'
  <1> SUFFICES ASSUME IndInv, [Next]_vars PROVE IndInv' OBVIOUS
  <1>1. TypeOK /\ InFlight BY DEF IndInv, CallInv
  <1>2. CASE Next
    <2>1. TypeOK' BY <1>1, <1>2, NextSplit, TypeController, TypeClose, TypeJob
    <2>2. CallInv' BY <1>2, <2>1, NextSplit, CallController, CallClose, CallJob
    <2> QED BY <2>1, <2>2 DEF IndInv
  <1>3. CASE UNCHANGED vars
    BY <1>3 DEF vars, journal, worker, IndInv, TypeOK, CallInv, InFlight, OnePending,
       SettledAnswered, SentReserved, Pending
  <1> QED BY <1>2, <1>3

\* The inductive invariant holds in every reachable state.
LEMMA IndInvariant == Spec => []IndInv
  <1>1. Init => IndInv BY TypeInit, CallInit DEF IndInv
  <1> QED BY <1>1, IndStep, PTL DEF Spec

\* The variables of the journal, the controllers and the workers keep their
\* types, whatever fails.
THEOREM TypeCorrect == Spec => []TypeOK
  <1>1. IndInv => TypeOK BY DEF IndInv
  <1> QED BY <1>1, IndInvariant, PTL

\* Every model call that went out is reserved in the journal, and a job
\* shown as settled has the answer of each of them.
THEOREM CallsAccounted == Spec => []NoLostCall
  <1>1. IndInv => NoLostCall
    <2> SUFFICES ASSUME IndInv, NEW j \in Jobs, NEW k \in sent[j]
                 PROVE  calls[j][k] # "unused"
                        /\ (Shown(j) \in Ended \ {"unknown"} => calls[j][k] # "pending")
      BY DEF NoLostCall
    <2>1. k \in CallIds /\ calls[j][k] # "unused" BY DEF IndInv, TypeOK, CallInv, SentReserved
    <2>2. Shown(j) \in Ended \ {"unknown"} => ~Pending(j)
      BY DEF Shown, IndInv, CallInv, SettledAnswered, Ended
    <2> QED BY <2>1, <2>2 DEF Pending
  <1> QED BY <1>1, IndInvariant, PTL

-----------------------------------------------------------------------------
(* One job for each ticker, and cancellation *)

\* Only a start puts a job in progress.
LEMMA NoNewJob ==
    ASSUME TypeOK, Next, \A c \in Controllers, j \in Jobs : ~Start(c, j)
    PROVE  \A k \in Jobs : InProgress(k)' => InProgress(k)
  <1>1. CASE \E c \in Controllers, j \in Jobs : ControllerAct(c, j)
    BY <1>1, RecoveredKind DEF ControllerAct, StartRefused, Cancel, TypeOK
  <1>2. CASE \E c \in Controllers : Close(c) \/ Crash(c)
    BY <1>2 DEF Close, Crash, journal
  <1>3. ASSUME NEW j \in Jobs, JobAct(j) PROVE \A k \in Jobs : InProgress(k)' => InProgress(k)
    <2>1. CASE UNCHANGED status BY <2>1
    <2>2. CASE LeaseExpires(j) BY <2>2 DEF LeaseExpires, TypeOK
    <2>3. CASE \E r \in {"succeeded", "incomplete", "failed", "cancelled"} : Finishes(j, r)
      BY <2>3 DEF Finishes, Finishable, TypeOK
    <2>4. CASE Finish(j)
      <3>1. Reported(j) \in {"succeeded", "incomplete", "failed", "cancelled"} BY DEF Reported
      <3> QED BY <2>4, <2>1, <2>3, <3>1 DEF Finish, FinishRaises, journal
    <2>5. CASE FinishFailed(j)
      <3>1. FailureStatus(j) \in {"succeeded", "incomplete", "failed", "cancelled"} BY DEF FailureStatus
      <3> QED BY <2>5, <2>1, <2>3, <3>1 DEF FinishFailed, FinishRaises, journal
    <2> QED BY <1>3, <2>1, <2>2, <2>4, <2>5 DEF JobAct, Heartbeat, HeartStops, Begin, ReserveCall,
             AgentFails, AgentGivesUp, Dispatch, ObserveTerminal, CallAbandoned, RecordResult, journal
  <1> QED BY <1>1, <1>2, <1>3, NextSplit

\* A ticker has one investigation in progress at a time.
THEOREM TickerExclusive == Spec => []OneJobPerTicker
  <1>1. Init => OneJobPerTicker BY DEF Init, OneJobPerTicker
  <1>2. IndInv /\ OneJobPerTicker /\ [Next]_vars => OneJobPerTicker'
    <2> SUFFICES ASSUME TypeOK, OneJobPerTicker, [Next]_vars PROVE OneJobPerTicker' BY DEF IndInv
    <2>1. ASSUME NEW c \in Controllers, NEW j \in Jobs, Start(c, j) PROVE OneJobPerTicker'
      <3>1. \A k \in Jobs : k # j /\ InProgress(k)' => InProgress(k) /\ TickerOf[k] # TickerOf[j]
        <4> SUFFICES ASSUME NEW k \in Jobs, k # j, InProgress(k)'
                     PROVE  InProgress(k) /\ TickerOf[k] # TickerOf[j]
          OBVIOUS
        <4>1. status'[k] = Recovered(k) BY <2>1 DEF Start
        <4>2. Recovered(k) = "running" /\ status[k] = "running" BY <4>1, RecoveredKind DEF TypeOK
        <4> QED BY <2>1, <4>2 DEF Start, Startable
      <3> QED BY <3>1 DEF OneJobPerTicker
    <2>2. CASE Next /\ \A c \in Controllers, j \in Jobs : ~Start(c, j)
      BY <2>2, NoNewJob DEF OneJobPerTicker
    <2>3. CASE UNCHANGED vars BY <2>3 DEF vars, journal, OneJobPerTicker
    <2> QED BY <2>1, <2>2, <2>3
  <1> QED BY <1>1, <1>2, IndInvariant, PTL DEF Spec

HonouredInv == \A j \in Jobs : cancelRequested[j] => status[j] \notin {"succeeded", "incomplete"}

\* finish never reports a result over a recorded cancellation.
LEMMA HonouredFinish ==
    ASSUME TypeOK, HonouredInv, NEW j \in Jobs,
           NEW reported \in {"succeeded", "incomplete", "failed", "cancelled"},
           Finishes(j, reported) \/ FinishRaises(j, reported)
    PROVE  HonouredInv'
  <1>1. CASE Finishes(j, reported) BY <1>1 DEF Finishes, FinalStatus, HonouredInv, TypeOK
  <1>2. CASE FinishRaises(j, reported) BY <1>2 DEF FinishRaises, journal, HonouredInv
  <1> QED BY <1>1, <1>2

\* Every step keeps a recorded cancellation honoured.
LEMMA HonouredStep ==
    ASSUME TypeOK, HonouredInv, Next
    PROVE  HonouredInv'
  <1>1. ASSUME NEW c \in Controllers, NEW j \in Jobs, ControllerAct(c, j) PROVE HonouredInv'
    <2>1. CASE Start(c, j) BY <2>1, RecoveredKind DEF Start, HonouredInv, TypeOK
    <2>2. CASE StartRefused(c, j) BY <2>2, RecoveredKind DEF StartRefused, HonouredInv, TypeOK
    <2>3. CASE Cancel(c, j) BY <2>3 DEF Cancel, HonouredInv, TypeOK
    <2> QED BY <1>1, <2>1, <2>2, <2>3 DEF ControllerAct
  <1>2. ASSUME NEW c \in Controllers, Close(c) \/ Crash(c) PROVE HonouredInv'
    <2>1. CASE Close(c)
      <3>1. \A k \in Jobs : cancelRequested'[k] => cancelRequested[k] \/ InProgress(k)
        BY <2>1 DEF Close
      <3> QED BY <2>1, <3>1 DEF Close, HonouredInv
    <2>2. CASE Crash(c) BY <2>2 DEF Crash, journal, HonouredInv
    <2> QED BY <1>2, <2>1, <2>2
  <1>3. ASSUME NEW j \in Jobs, JobAct(j) PROVE HonouredInv'
    <2>1. CASE UNCHANGED <<status, cancelRequested>> BY <2>1 DEF HonouredInv
    <2>2. CASE LeaseExpires(j) BY <2>2 DEF LeaseExpires, HonouredInv, TypeOK
    <2>3. CASE Finish(j)
      <3>1. Reported(j) \in {"succeeded", "incomplete", "failed", "cancelled"} BY DEF Reported
      <3> QED BY <2>3, <2>1, <3>1, HonouredFinish DEF Finish, journal
    <2>4. CASE FinishFailed(j)
      <3>1. FailureStatus(j) \in {"succeeded", "incomplete", "failed", "cancelled"} BY DEF FailureStatus
      <3> QED BY <2>4, <3>1, HonouredFinish DEF FinishFailed
    <2> QED BY <1>3, <2>1, <2>2, <2>3, <2>4 DEF JobAct, Heartbeat, HeartStops, Begin, ReserveCall,
             AgentFails, AgentGivesUp, Dispatch, ObserveTerminal, CallAbandoned, RecordResult, journal
  <1> QED BY <1>1, <1>2, <1>3, NextSplit

\* A job whose cancellation is recorded never ends with a result.
THEOREM CancellationHonoured == Spec => []CancelHonoured
  <1>1. Init => HonouredInv BY DEF Init, HonouredInv
  <1>2. IndInv /\ HonouredInv /\ [Next]_vars => HonouredInv'
    <2>1. CASE UNCHANGED vars BY <2>1 DEF vars, journal, HonouredInv
    <2> QED BY <2>1, HonouredStep DEF IndInv
  <1>3. HonouredInv => CancelHonoured BY DEF HonouredInv, CancelHonoured, Shown
  <1> QED BY <1>1, <1>2, <1>3, IndInvariant, PTL DEF Spec

-----------------------------------------------------------------------------
(* The stop invariant *)

\* At first nobody has stopped or asked.
LEMMA StopInit == Init => StopInv
  BY DEF Init, StopInv, StopExplained

\* A controller that starts a job or asks for a stop keeps the stop
\* invariant.
LEMMA StopController ==
    ASSUME TypeOK, StopInv, NEW c \in Controllers, NEW j \in Jobs, ControllerAct(c, j)
    PROVE  StopInv'
  <1> USE DEF StopInv, StopExplained, TypeOK
  <1>1. CASE Start(c, j)
    <2>1. pc[j] = "none" /\ ~stop[j] /\ heart[j] = "none" /\ status[j] = "absent" BY <1>1 DEF Start, Startable
    <2>2. \A k \in Jobs : status'[k] = "absent" => status[k] = "absent" /\ k # j
      BY <1>1, RecoveredKind DEF Start
    <2>3. \A k \in Jobs : status'[k] = "cancelled" => status[k] = "cancelled"
      BY <1>1, RecoveredKind DEF Start
    <2>4. CASE UNCHANGED <<pc, host>> BY <1>1, <2>1, <2>2, <2>3, <2>4 DEF Start
    <2>5. CASE pc' = [pc EXCEPT ![j] = "begin"] /\ host' = [host EXCEPT ![j] = c]
      BY <1>1, <2>1, <2>2, <2>3, <2>5 DEF Start
    <2> QED BY <1>1, <2>4, <2>5 DEF Start
  <1>2. CASE StartRefused(c, j)
    <2>1. \A k \in Jobs : /\ status'[k] = "absent" => status[k] = "absent"
                          /\ status'[k] = "cancelled" => status[k] = "cancelled"
      BY <1>2, RecoveredKind DEF StartRefused
    <2> QED BY <1>2, <2>1 DEF StartRefused, worker
  <1>3. CASE Cancel(c, j)
    <2>1. \A k \in Jobs : stop'[k] => stop[k] \/ (k = j /\ host[k] = c) BY <1>3 DEF Cancel
    <2>2. \A k \in Jobs : stop[k] => stop'[k] BY <1>3 DEF Cancel
    <2>3. \A k \in Jobs : /\ asked[k] => asked'[k]
                          /\ cancelRequested'[k] => cancelRequested[k] \/ k = j
      BY <1>3 DEF Cancel
    <2>4. asked'[j] BY <1>3 DEF Cancel
    <2>5. UNCHANGED <<pc, failure, heart, host, status>> BY <1>3 DEF Cancel
    <2> QED BY <2>1, <2>2, <2>3, <2>4, <2>5, NullAssumption
  <1> QED BY <1>1, <1>2, <1>3 DEF ControllerAct

\* Closing a controller asks every worker it has, and its death removes them.
LEMMA StopClose ==
    ASSUME TypeOK, StopInv, NEW c \in Controllers, Close(c) \/ Crash(c)
    PROVE  StopInv'
  <1> USE DEF StopInv, StopExplained, TypeOK
  <1>1. CASE Close(c)
    <2>1. \A k \in Jobs : stop'[k] <=> (stop[k] \/ host[k] = c) BY <1>1 DEF Close
    <2>2. \A k \in Jobs : asked'[k] <=> (asked[k] \/ host[k] = c) BY <1>1 DEF Close
    <2>3. \A k \in Jobs : cancelRequested'[k] => (cancelRequested[k] \/ host[k] = c) BY <1>1 DEF Close
    <2>4. UNCHANGED <<pc, failure, heart, host, status>> BY <1>1 DEF Close
    <2> QED BY <2>1, <2>2, <2>3, <2>4, NullAssumption
  <1>2. CASE Crash(c) BY <1>2 DEF Crash, Leave, journal
  <1> QED BY <1>1, <1>2

\* A step that moves the worker of one job, with the journal and the lease
\* thread as they were, keeps the stop invariant if the worker ends in the
\* error branch, or its stop is explained.
LEMMA StopMove ==
    ASSUME TypeOK, StopInv, NEW j \in Jobs, NEW to \in Steps \ {"none"},
           pc[j] # "none", pc' = [pc EXCEPT ![j] = to],
           UNCHANGED <<status, cancelRequested, host, failure, asked>>,
           \A k \in Jobs : k # j => stop'[k] = stop[k] /\ heart'[k] = heart[k],
           heart'[j] # "failed" \/ heart'[j] = heart[j],
           \/ to = "failing_error"
           \/ /\ stop'[j] => failure[j] \/ asked[j]
              /\ to = "failing_stop" => stop'[j]
    PROVE  StopInv'
  <1>1. \A k \in Jobs : k # j => pc'[k] = pc[k] BY DEF TypeOK
  <1>2. pc'[j] = to BY DEF TypeOK
  <1>3. StopExplained' BY <1>1, <1>2 DEF StopInv, StopExplained
  <1> QED BY <1>1, <1>2, <1>3 DEF StopInv

\* Outside the error branch, a raised stop is explained before the step.
LEMMA RaisedStop ==
    ASSUME TypeOK, StopInv, NEW j \in Jobs, pc[j] # "failing_error", stop[j]
    PROVE  failure[j] \/ asked[j]
  BY DEF StopInv, StopExplained

\* An exception keeps the stop invariant.
LEMMA StopRaises ==
    ASSUME TypeOK, StopInv, NEW j \in Jobs, NEW from \in Steps \ {"none", "failing_error"},
           Raises(j, from), UNCHANGED <<status, cancelRequested, failure, asked, heart>>
    PROVE  StopInv'
  <1>1. pc[j] = from /\ UNCHANGED host BY DEF Raises, Moves
  <1>2. \A k \in Jobs : k # j => stop'[k] = stop[k] BY DEF Raises, TypeOK
  <1>3. CASE pc' = [pc EXCEPT ![j] = "failing_error"]
    BY <1>1, <1>2, <1>3, StopMove DEF Steps
  <1>4. CASE pc' = [pc EXCEPT ![j] = "failing_stop"] /\ stop[j]
    <2>1. failure[j] \/ asked[j] BY <1>1, <1>4, RaisedStop
    <2>2. stop'[j] BY DEF Raises, TypeOK
    <2> QED BY <1>1, <1>2, <1>4, <2>1, <2>2, StopMove DEF Steps
  <1> QED BY <1>3, <1>4 DEF Raises, Moves

\* A worker that leaves keeps the stop invariant, if the job it closed as
\* cancelled was asked to stop.
LEMMA StopLeave ==
    ASSUME TypeOK, StopInv, NEW j \in Jobs, Leave({j}), UNCHANGED cancelRequested,
           \A k \in Jobs : /\ status'[k] = "absent" => status[k] = "absent"
                           /\ status'[k] = "cancelled" => status[k] = "cancelled" \/ asked[k]
    PROVE  StopInv'
  BY DEF StopInv, StopExplained, TypeOK, Leave

\* finish writes "cancelled" only for a recorded request or for a worker
\* that reports one.
LEMMA FinishCancelled ==
    ASSUME TypeOK, StopInv, NEW j \in Jobs,
           NEW reported \in {"succeeded", "incomplete", "failed", "cancelled"},
           reported = "cancelled" => asked[j],
           Finishes(j, reported) \/ FinishRaises(j, reported)
    PROVE  /\ UNCHANGED cancelRequested
           /\ \A k \in Jobs : /\ status'[k] = "absent" => status[k] = "absent"
                              /\ status'[k] = "cancelled" => status[k] = "cancelled" \/ asked[k]
  <1>1. CASE Finishes(j, reported)
    BY <1>1 DEF Finishes, FinalStatus, StopInv, TypeOK
  <1>2. CASE FinishRaises(j, reported) BY <1>2 DEF FinishRaises, journal
  <1> QED BY <1>1, <1>2

\* The workers, their lease threads and the clock keep the stop invariant.
LEMMA StopJob ==
    ASSUME TypeOK, StopInv, NEW j \in Jobs, JobAct(j)
    PROVE  StopInv'
  <1>1. CASE LeaseExpires(j) BY <1>1 DEF LeaseExpires, worker, StopInv, StopExplained, TypeOK
  <1>2. CASE Heartbeat(j)
    <2>1. CASE stop' = [stop EXCEPT ![j] = @ \/ cancelRequested[j]] /\ UNCHANGED <<heart, failure>>
      BY <1>2, <2>1 DEF Heartbeat, journal, StopInv, StopExplained, TypeOK
    <2>2. CASE failure' = [failure EXCEPT ![j] = TRUE] /\ heart' = [heart EXCEPT ![j] = "failed"]
               /\ UNCHANGED stop
      BY <1>2, <2>2 DEF Heartbeat, journal, StopInv, StopExplained, TypeOK
    <2> QED BY <1>2, <2>1, <2>2 DEF Heartbeat
  <1>3. CASE HeartStops(j)
    BY <1>3 DEF HeartStops, journal, StopInv, StopExplained, TypeOK
  <1>4. CASE Begin(j)
    <2>1. CASE Raises(j, "begin") /\ UNCHANGED heart
      BY <1>4, <2>1, StopRaises DEF Begin, journal, Steps
    <2>2. CASE Moves(j, "begin", "agent") /\ ~stop[j] /\ heart' = [heart EXCEPT ![j] = "beating"] /\ UNCHANGED stop
      BY <1>4, <2>2, StopMove DEF Begin, Moves, journal, Steps, TypeOK
    <2>3. CASE Moves(j, "begin", "failing_stop") /\ cancelRequested[j]
               /\ stop' = [stop EXCEPT ![j] = TRUE] /\ UNCHANGED heart
      <3>1. asked[j] BY <2>3 DEF StopInv
      <3> QED BY <1>4, <2>3, <3>1, StopMove DEF Begin, Moves, journal, Steps, TypeOK
    <2> QED BY <1>4, <2>1, <2>2, <2>3 DEF Begin
  <1>5. CASE ReserveCall(j)
    <2>1. CASE Moves(j, "agent", "reserved") /\ UNCHANGED stop
      BY <1>5, <2>1, StopMove DEF ReserveCall, Moves, Steps
    <2>2. CASE Moves(j, "agent", "failing_error") /\ stop' = [stop EXCEPT ![j] = TRUE]
      BY <1>5, <2>2, StopMove DEF ReserveCall, Moves, Steps, TypeOK
    <2> QED BY <1>5, <2>1, <2>2 DEF ReserveCall
  <1>6. CASE AgentFails(j)
    <2>1. CASE Raises(j, "agent") BY <1>6, <2>1, StopRaises DEF AgentFails, Untouched, journal, Steps
    <2>2. CASE Moves(j, "agent", "failing_stop") /\ cancelRequested[j] /\ stop' = [stop EXCEPT ![j] = TRUE]
      <3>1. asked[j] BY <2>2 DEF StopInv
      <3> QED BY <1>6, <2>2, <3>1, StopMove DEF AgentFails, Moves, Untouched, journal, Steps, TypeOK
    <2> QED BY <1>6, <2>1, <2>2 DEF AgentFails
  <1>7. CASE AgentGivesUp(j)
    BY <1>7, StopMove DEF AgentGivesUp, Moves, Untouched, journal, Steps
  <1>8. CASE Dispatch(j)
    <2>1. stop[j] => failure[j] \/ asked[j] BY <1>8, RaisedStop DEF Dispatch, Moves
    <2> QED BY <1>8, <2>1, StopMove DEF Dispatch, Moves, journal, Steps
  <1>9. CASE ObserveTerminal(j)
    <2>1. CASE Raises(j, "waiting") BY <1>9, <2>1, StopRaises DEF ObserveTerminal, Untouched, Steps
    <2>2. CASE Moves(j, "waiting", "answered") /\ UNCHANGED stop
      <3>1. stop[j] => failure[j] \/ asked[j] BY <2>2, RaisedStop DEF Moves
      <3> QED BY <1>9, <2>2, <3>1, StopMove DEF ObserveTerminal, Untouched, Moves, Steps
    <2> QED BY <1>9, <2>1, <2>2 DEF ObserveTerminal
  <1>10. CASE CallAbandoned(j)
    BY <1>10, StopRaises DEF CallAbandoned, Untouched, journal, Steps
  <1>11. CASE RecordResult(j)
    <2>1. CASE Raises(j, "answered") BY <1>11, <2>1, StopRaises DEF RecordResult, Untouched, Steps
    <2>2. ASSUME NEW to \in {"failing_stop", "success", "agent"}, Moves(j, "answered", to), UNCHANGED stop,
                 to = "failing_stop" => stop[j]
          PROVE  StopInv'
      <3>1. stop[j] => failure[j] \/ asked[j] BY <2>2, RaisedStop DEF Moves
      <3> QED BY <1>11, <2>2, <3>1, StopMove DEF RecordResult, Untouched, Moves, Steps
    <2>3. CASE /\ UNCHANGED stop
               /\ \E conclusion \in BOOLEAN : Moves(j, "answered",
                     IF stop[j] THEN "failing_stop" ELSE IF conclusion THEN "success" ELSE "agent")
      BY <2>2, <2>3
    <2> QED BY <1>11, <2>1, <2>3 DEF RecordResult
  <1>12. CASE Finish(j)
    <2>1. Reported(j) \in {"succeeded", "incomplete"} BY DEF Reported
    <2>2. CASE Finishes(j, Reported(j)) /\ Leave({j})
      BY <2>1, <2>2, FinishCancelled, StopLeave
    <2>3. CASE ~stop[j] /\ FinishRaises(j, Reported(j)) /\ Moves(j, pc[j], "failing_error")
               /\ stop' = [stop EXCEPT ![j] = TRUE] /\ Untouched
      BY <1>12, <2>3, StopMove DEF Finish, FinishRaises, journal, Moves, Untouched, Steps, TypeOK
    <2>4. CASE (stop[j] \/ failure[j]) /\ Moves(j, pc[j], "failing_stop")
               /\ stop' = [stop EXCEPT ![j] = TRUE] /\ Untouched /\ UNCHANGED journal
      <3>1. pc[j] \in {"success", "incomplete"} BY <1>12 DEF Finish
      <3>2. failure[j] \/ asked[j] BY <2>4, <3>1, RaisedStop
      <3>3. stop'[j] BY <2>4 DEF TypeOK
      <3> QED BY <2>4, <3>1, <3>2, <3>3, StopMove DEF journal, Moves, Untouched, Steps, TypeOK
    <2> QED BY <1>12, <2>2, <2>3, <2>4 DEF Finish
  <1>13. CASE FinishFailed(j)
    <2>1. FailureStatus(j) \in {"failed", "cancelled"} BY DEF FailureStatus
    <2>2. FailureStatus(j) = "cancelled" => asked[j]
      BY <1>13 DEF FailureStatus, StopInv, StopExplained
    <2> QED BY <1>13, <2>1, <2>2, FinishCancelled, StopLeave DEF FinishFailed
  <1> QED BY <1>1, <1>2, <1>3, <1>4, <1>5, <1>6, <1>7, <1>8, <1>9, <1>10, <1>11, <1>12, <1>13 DEF JobAct

\* A job ends as cancelled only when somebody asked for it.
THEOREM CancellationAsked == Spec => []CancelledWasAsked
  <1>1. IndInv /\ StopInv /\ [Next]_vars => StopInv'
    <2>1. CASE UNCHANGED vars BY <2>1 DEF vars, journal, worker, StopInv, StopExplained
    <2> QED BY <2>1, NextSplit, StopController, StopClose, StopJob DEF IndInv
  <1>2. StopInv => CancelledWasAsked BY DEF StopInv, CancelledWasAsked
  <1> QED BY <1>1, <1>2, StopInit, IndInvariant, PTL DEF Spec

-----------------------------------------------------------------------------
(* The refinement of InvestigationLedger *)

Outcome == [j \in Jobs |-> Shown(j)]
Outstanding == {j \in Jobs : Pending(j)}

\* Recovery writes what readers were already shown.
LEMMA ShownRecovered ==
    ASSUME TypeOK, NEW j \in Jobs
    PROVE  Shown(j) = Recovered(j)
  BY DEF Shown, Recovered

\* A step that leaves every row as it is or recovers it, and leaves the calls
\* alone, is a stutter of the ledger.
LEMMA LedgerStutter ==
    ASSUME TypeOK, UNCHANGED calls,
           \A j \in Jobs : status'[j] = status[j] \/ status'[j] = Recovered(j)
    PROVE  Outcome' = Outcome /\ Outstanding' = Outstanding
  <1>1. \A j \in Jobs : Pending(j)' <=> Pending(j) BY DEF Pending
  <1>2. \A j \in Jobs : Shown(j)' = Shown(j)
    <2> TAKE j \in Jobs
    <2>1. Recovered(j) # "expired" BY DEF Recovered, TypeOK
    <2> QED BY <1>1, <2>1 DEF Shown, Recovered
  <1> QED BY <1>1, <1>2 DEF Outcome, Outstanding

\* A running row that ends, by finish or by the clock, is a decision of the
\* ledger: "unknown" exactly when a call has no answer.
LEMMA LedgerDecide ==
    ASSUME TypeOK, UNCHANGED calls, NEW j \in Jobs, status[j] = "running",
           NEW s \in Ended \cup {"expired"}, status' = [status EXCEPT ![j] = s],
           s \in Ended /\ Pending(j) => s = "unknown",
           s \in Ended /\ ~Pending(j) => s # "unknown"
    PROVE  Ledger!Decide(j)
  <1>1. \A k \in Jobs : Pending(k)' <=> Pending(k) BY DEF Pending
  <1>2. Outstanding' = Outstanding BY <1>1 DEF Outstanding
  <1>3. Shown(j) = "running" BY DEF Shown
  <1>4. PICK r \in (IF Pending(j) THEN {"unknown"} ELSE Ended \ {"unknown"}) : Shown(j)' = r
    BY <1>1 DEF Shown, TypeOK, Ended
  <1>5. \A k \in Jobs : k # j => Shown(k)' = Shown(k) BY <1>1 DEF Shown, TypeOK
  <1>6. Outcome' = [Outcome EXCEPT ![j] = r] BY <1>4, <1>5 DEF Outcome
  <1>7. Ended \ {"unknown"} = Ledger!Settled BY DEF Ended, Ledger!Settled
  <1>8. j \in Outstanding <=> Pending(j) BY DEF Outstanding
  <1>9. r \in (IF j \in Outstanding THEN {"unknown"} ELSE Ledger!Settled) BY <1>4, <1>7, <1>8
  <1>10. Outcome[j] = "running" BY <1>3 DEF Outcome
  <1> QED BY <1>2, <1>6, <1>9, <1>10 DEF Ledger!Decide, Outcome, Outstanding

\* A new row is a submission.
LEMMA LedgerSubmit ==
    ASSUME TypeOK, NEW c \in Controllers, NEW j \in Jobs, Start(c, j)
    PROVE  Ledger!Submit(j)
  <1>1. UNCHANGED calls /\ status[j] = "absent" /\ status'[j] = "running" BY DEF Start, Startable, TypeOK
  <1>2. \A k \in Jobs : Pending(k)' <=> Pending(k) BY <1>1 DEF Pending
  <1>3. Shown(j) = "absent" /\ Shown(j)' = "running" BY <1>1 DEF Shown
  <1>4. \A k \in Jobs : k # j => Shown(k)' = Shown(k)
    <2> SUFFICES ASSUME NEW k \in Jobs, k # j PROVE Shown(k)' = Shown(k) OBVIOUS
    <2>1. status'[k] = Recovered(k) BY DEF Start
    <2>2. Recovered(k) # "expired" BY DEF Recovered, TypeOK
    <2> QED BY <1>2, <2>1, <2>2, ShownRecovered DEF Shown
  <1>5. Outcome' = [Outcome EXCEPT ![j] = "running"] BY <1>3, <1>4 DEF Outcome
  <1>6. Outstanding' = Outstanding BY <1>2 DEF Outstanding
  <1>7. Outcome[j] = "absent" BY <1>3 DEF Outcome
  <1> QED BY <1>5, <1>6, <1>7 DEF Ledger!Submit, Outcome, Outstanding

\* A reservation is a question of the ledger.
LEMMA LedgerAsk ==
    ASSUME IndInv, NEW j \in Jobs, ReserveCall(j)
    PROVE  Ledger!Ask(j)
  <1>1. PICK k \in CallIds : Reserves(j, k) BY DEF ReserveCall
  <1>2. /\ calls' = [calls EXCEPT ![j][k] = "pending"]
        /\ ~Pending(j) /\ status[j] = "running" /\ UNCHANGED status
    BY <1>1 DEF Reserves, AllCompleted, Used, Pending, ReserveCall
  <1>3. Pending(j)' BY <1>2 DEF Pending, IndInv, TypeOK
  <1>4. \A i \in Jobs : i # j => (Pending(i)' <=> Pending(i)) BY <1>2 DEF Pending, IndInv, TypeOK
  <1>5. \A i \in Jobs : Shown(i)' = Shown(i) BY <1>2, <1>4 DEF Shown
  <1>6. Outcome' = Outcome /\ Outcome[j] = "running" BY <1>2, <1>5 DEF Outcome, Shown
  <1>7. Outstanding' = Outstanding \cup {j} /\ j \notin Outstanding BY <1>2, <1>3, <1>4 DEF Outstanding
  <1> QED BY <1>6, <1>7 DEF Ledger!Ask, Outcome, Outstanding

\* A recorded answer is the answer of the ledger's one question.
LEMMA LedgerAnswered ==
    ASSUME IndInv, NEW j \in Jobs, ObserveTerminal(j)
    PROVE  Ledger!Answered(j)
  <1>1. pc[j] = "waiting" /\ status[j] = "running" /\ UNCHANGED status BY DEF ObserveTerminal, Moves, Raises
  <1>2. call[j] \in CallIds /\ calls[j][call[j]] = "pending" BY <1>1 DEF IndInv, CallInv, InFlight
  <1>3. PICK t \in {"completed", "failed"} : calls' = [calls EXCEPT ![j][call[j]] = t]
    BY Zenon DEF ObserveTerminal, Bind
  <1>4. ~Pending(j)' BY <1>2, <1>3 DEF Pending, IndInv, TypeOK, CallInv, OnePending
  <1>5. Pending(j) BY <1>2 DEF Pending
  <1>6. \A i \in Jobs : i # j => (Pending(i)' <=> Pending(i)) BY <1>3 DEF Pending, IndInv, TypeOK
  <1>7. \A i \in Jobs : Shown(i)' = Shown(i) BY <1>1, <1>6 DEF Shown
  <1>8. Outcome' = Outcome /\ Outcome[j] = "running" BY <1>1, <1>7 DEF Outcome, Shown
  <1>9. Outstanding' = Outstanding \ {j} /\ j \in Outstanding BY <1>4, <1>5, <1>6 DEF Outstanding
  <1> QED BY <1>8, <1>9 DEF Ledger!Answered, Outcome, Outstanding

\* finish decides, and refused changes nothing.
LEMMA LedgerFinish ==
    ASSUME TypeOK, NEW j \in Jobs,
           NEW reported \in {"succeeded", "incomplete", "failed", "cancelled"},
           Finishes(j, reported) \/ FinishRaises(j, reported)
    PROVE  Ledger!Decide(j) \/ (Outcome' = Outcome /\ Outstanding' = Outstanding)
  <1>1. CASE Finishes(j, reported)
    BY <1>1, FinalStatusKind, LedgerDecide DEF Finishes, Finishable
  <1>2. CASE FinishRaises(j, reported)
    BY <1>2, LedgerStutter DEF FinishRaises, journal
  <1> QED BY <1>1, <1>2

\* Every step is a step of the ledger or a stutter.
LEMMA LedgerStep == IndInv /\ [Next]_vars => [Ledger!Next]_(Ledger!ledgerVars)
  <1> SUFFICES ASSUME IndInv, [Next]_vars
               PROVE  Ledger!Next \/ (Outcome' = Outcome /\ Outstanding' = Outstanding)
    BY DEF Ledger!ledgerVars, Outcome, Outstanding
  <1>a. TypeOK BY DEF IndInv
  <1>1. ASSUME NEW c \in Controllers, NEW j \in Jobs, ControllerAct(c, j)
        PROVE  Ledger!Next \/ (Outcome' = Outcome /\ Outstanding' = Outstanding)
    <2>1. CASE Start(c, j) BY <2>1, <1>a, LedgerSubmit DEF Ledger!Next
    <2>2. CASE StartRefused(c, j) BY <2>2, <1>a, LedgerStutter DEF StartRefused
    <2>3. CASE Cancel(c, j) BY <2>3, <1>a, LedgerStutter DEF Cancel
    <2> QED BY <1>1, <2>1, <2>2, <2>3 DEF ControllerAct
  <1>2. CASE \E c \in Controllers : Close(c) \/ Crash(c)
    BY <1>2, <1>a, LedgerStutter DEF Close, Crash, journal
  <1>3. ASSUME NEW j \in Jobs, JobAct(j)
        PROVE  Ledger!Next \/ (Outcome' = Outcome /\ Outstanding' = Outstanding)
    <2>1. CASE UNCHANGED <<status, calls>> BY <2>1, <1>a, LedgerStutter
    <2>2. CASE LeaseExpires(j)
      <3>1. Ledger!Decide(j) BY <2>2, <1>a, LedgerDecide DEF LeaseExpires, Ended
      <3> QED BY <3>1 DEF Ledger!Next
    <2>3. CASE ReserveCall(j) BY <2>3, LedgerAsk DEF Ledger!Next
    <2>4. CASE ObserveTerminal(j) BY <2>4, LedgerAnswered DEF Ledger!Next
    <2>5. CASE Finish(j)
      <3>1. Reported(j) \in {"succeeded", "incomplete", "failed", "cancelled"} BY DEF Reported
      <3> QED BY <2>5, <2>1, <1>a, <3>1, LedgerFinish DEF Finish, journal, Ledger!Next
    <2>6. CASE FinishFailed(j)
      <3>1. FailureStatus(j) \in {"succeeded", "incomplete", "failed", "cancelled"} BY DEF FailureStatus
      <3> QED BY <2>6, <1>a, <3>1, LedgerFinish DEF FinishFailed, Ledger!Next
    <2> QED BY <1>3, <2>1, <2>2, <2>3, <2>4, <2>5, <2>6 DEF JobAct, Heartbeat, HeartStops, Begin,
             AgentFails, AgentGivesUp, Dispatch, CallAbandoned, RecordResult, journal
  <1>4. CASE UNCHANGED vars BY <1>4, <1>a, LedgerStutter DEF vars, journal
  <1> QED BY <1>1, <1>2, <1>3, <1>4, NextSplit

\* What readers are shown is a ledger whose outcomes are decided once and
\* never hide an unanswered call.
THEOREM LedgerRefined == Spec => LedgerSpec
  <1>1. Init => Ledger!Init
    <2> SUFFICES ASSUME Init PROVE Ledger!Init OBVIOUS
    <2>1. \A j \in Jobs : Shown(j) = "absent" BY DEF Init, Shown
    <2>2. \A j \in Jobs : ~Pending(j) BY DEF Init, Pending
    <2> QED BY <2>1, <2>2 DEF Ledger!Init
  <1> QED BY <1>1, LedgerStep, IndInvariant, PTL DEF Spec, LedgerSpec, Ledger!Spec
=============================================================================
