--------------------------- MODULE InvestigationJobs ---------------------------
(***************************************************************************)
(* Lifecycle investigation jobs (src/lifecycle_investigation): a durable    *)
(* journal of jobs with 60-second leases, written by worker threads of      *)
(* several controllers.  A job's worker renews the lease from a second      *)
(* thread, reserves every model call in the journal before it sends it and  *)
(* records the answer after; a controller that finds an expired lease       *)
(* closes the job in its owner's place.  Each action is one journal         *)
(* transaction, one thread step or one fault.                               *)
(*                                                                          *)
(* A job is named by its request key (one row for each).  A lease is only   *)
(* fresh or expired: it expires when the clock passes it, which may happen  *)
(* at any moment to a worker whose process was suspended.  The data of      *)
(* steps, sources and findings is left out; what is kept of a model result  *)
(* is whether it concludes.                                                 *)
(***************************************************************************)
EXTENDS Naturals, FiniteSets

CONSTANTS
    Jobs,          \* request keys
    Controllers,   \* process lifetimes; each has an owner id of its own
    Tickers,
    TickerOf,      \* [Jobs -> Tickers], the target bound to a request key
    CallIds,       \* one id for each of the model_submissions of a job
    Nobody, NoCall,
    MaxFaults      \* bound on failing journal operations

ASSUME NullAssumption == Nobody \notin Controllers /\ NoCall \notin CallIds
ASSUME TickerAssumption == TickerOf \in [Jobs -> Tickers]
ASSUME BoundAssumption == MaxFaults \in Nat

VARIABLES
    \* the journal
    status, cancelRequested, calls, concluded,
    \* the controllers
    life,
    \* a job's worker and its lease thread
    pc, host, call, stop, failure, asked, heart, sent,
    faults

journal == <<status, cancelRequested, calls, concluded>>
worker == <<pc, host, call, stop, failure, asked, heart, sent>>
vars == <<journal, life, worker, faults>>

Ended == {"succeeded", "incomplete", "failed", "cancelled", "unknown"}
\* "running" and "expired" are the row status running, before and after the
\* clock passes lease_until
Statuses == {"absent", "running", "expired"} \cup Ended

\* "failed" stands for a failed, cancelled or interrupted model call
CallStates == {"unused", "pending", "completed", "failed"}

\* failing_*: the except branch, for a stop and for any other cause
Steps == {"none", "begin", "agent", "reserved", "waiting",
          "answered", "success", "incomplete", "failing_stop", "failing_error"}

Hearts == {"none", "beating", "failed"}

TypeOK ==
    /\ status \in [Jobs -> Statuses]
    /\ cancelRequested \in [Jobs -> BOOLEAN]
    /\ calls \in [Jobs -> [CallIds -> CallStates]]
    /\ concluded \in [Jobs -> BOOLEAN]
    /\ life \in [Controllers -> {"open", "closed", "dead"}]
    /\ pc \in [Jobs -> Steps]
    /\ host \in [Jobs -> Controllers \cup {Nobody}]
    /\ call \in [Jobs -> CallIds \cup {NoCall}]
    /\ stop \in [Jobs -> BOOLEAN]
    /\ failure \in [Jobs -> BOOLEAN]
    /\ asked \in [Jobs -> BOOLEAN]
    /\ heart \in [Jobs -> Hearts]
    /\ sent \in [Jobs -> SUBSET CallIds]
    /\ faults \in 0..MaxFaults

Init ==
    /\ status = [j \in Jobs |-> "absent"]
    /\ cancelRequested = [j \in Jobs |-> FALSE]
    /\ calls = [j \in Jobs |-> [k \in CallIds |-> "unused"]]
    /\ concluded = [j \in Jobs |-> FALSE]
    /\ life = [c \in Controllers |-> "open"]
    /\ pc = [j \in Jobs |-> "none"]
    /\ host = [j \in Jobs |-> Nobody]
    /\ call = [j \in Jobs |-> NoCall]
    /\ stop = [j \in Jobs |-> FALSE]
    /\ failure = [j \in Jobs |-> FALSE]
    /\ asked = [j \in Jobs |-> FALSE]
    /\ heart = [j \in Jobs |-> "none"]
    /\ sent = [j \in Jobs |-> {}]
    /\ faults = 0

-----------------------------------------------------------------------------
(* The journal's guards and its two ways to close a job *)

Used(j) == {k \in CallIds : calls[j][k] # "unused"}
Pending(j) == \E k \in CallIds : calls[j][k] = "pending"
AllCompleted(j) == \A k \in Used(j) : calls[j][k] = "completed"

\* _owned: running, the lease not expired.  Only the controller that entered
\* the row ever has a worker for it, so the owner comparison always holds.
Owned(j) == status[j] = "running"

InProgress(j) == status[j] \in {"running", "expired"}

\* a journal operation that fails for a reason of its own
Fault == faults < MaxFaults /\ faults' = faults + 1

\* Mutant: a recorded cancellation is not looked at.
FinalStatusIgnoringCancel(j, reported) == IF Pending(j) THEN "unknown" ELSE reported

\* an unanswered call outweighs a requested cancellation, and both outweigh
\* what the worker reports
FinalStatus(j, reported) ==
    IF Pending(j) THEN "unknown"
    ELSE IF cancelRequested[j] THEN "cancelled" ELSE reported

RequireSuccess(j) == Used(j) # {} /\ AllCompleted(j) /\ concluded[j]

Finishable(j, reported) ==
    /\ Owned(j)
    /\ FinalStatus(j, reported) = "succeeded" => RequireSuccess(j)

Finishes(j, reported) ==
    /\ Finishable(j, reported)
    /\ UNCHANGED faults
    /\ status' = [status EXCEPT ![j] = FinalStatus(j, reported)]
    /\ UNCHANGED <<cancelRequested, calls, concluded>>

FinishRaises(j, reported) ==
    /\ \/ ~Finishable(j, reported) /\ UNCHANGED faults
       \/ Fault
    /\ UNCHANGED journal

\* Mutant: recovery does not ask for unanswered calls.
RecoveredAsFailed(j) == IF status[j] = "expired" THEN "failed" ELSE status[j]

Recovered(j) ==
    IF status[j] = "expired"
    THEN IF Pending(j) THEN "unknown" ELSE "failed"
    ELSE status[j]

WorkersOf(c) == {j \in Jobs : host[j] = c}

\* Mutant: the lease thread goes on after its worker.
LeaveBeating(J) ==
    /\ host' = [j \in Jobs |-> IF j \in J THEN Nobody ELSE host[j]]
    /\ pc' = [j \in Jobs |-> IF j \in J THEN "none" ELSE pc[j]]
    /\ call' = [j \in Jobs |-> IF j \in J THEN NoCall ELSE call[j]]
    /\ stop' = [j \in Jobs |-> stop[j] /\ j \notin J]
    /\ failure' = [j \in Jobs |-> failure[j] /\ j \notin J]
    /\ UNCHANGED <<heart, asked, sent>>

\* the workers of the jobs in J and their threads are gone; what was sent and
\* what was asked for stays
Leave(J) ==
    /\ host' = [j \in Jobs |-> IF j \in J THEN Nobody ELSE host[j]]
    /\ pc' = [j \in Jobs |-> IF j \in J THEN "none" ELSE pc[j]]
    /\ heart' = [j \in Jobs |-> IF j \in J THEN "none" ELSE heart[j]]
    /\ call' = [j \in Jobs |-> IF j \in J THEN NoCall ELSE call[j]]
    /\ stop' = [j \in Jobs |-> stop[j] /\ j \notin J]
    /\ failure' = [j \in Jobs |-> failure[j] /\ j \notin J]
    /\ UNCHANGED <<asked, sent>>

-----------------------------------------------------------------------------
(* InvestigationController *)

\* Mutant: other jobs of the ticker are not looked for.
StartableBesideAnother(c, j) == Cardinality(WorkersOf(c)) < 2 /\ status[j] = "absent"

\* start recovers the expired jobs, then enters the new one.  Its two
\* transactions are one step: an expiry or a start of another controller in
\* between gives a state that it also gives after or before them.
Startable(c, j) ==
    /\ Cardinality(WorkersOf(c)) < 2
    /\ status[j] = "absent"
    /\ \A k \in Jobs : Recovered(k) = "running" => TickerOf[k] # TickerOf[j]

\* The row is inserted and its worker runs; or the acknowledgement of the
\* insert is lost and the row has no worker.  A Thread.start that raises
\* closes the row as a worker that raises at once does.
Start(c, j) ==
    /\ life[c] = "open" /\ Startable(c, j)
    /\ status' = [k \in Jobs |-> IF k = j THEN "running" ELSE Recovered(k)]
    /\ \/ /\ pc' = [pc EXCEPT ![j] = "begin"] /\ host' = [host EXCEPT ![j] = c]
          /\ UNCHANGED faults
       \/ Fault /\ UNCHANGED <<pc, host>>
    /\ UNCHANGED <<cancelRequested, calls, concluded, life,
                   call, stop, failure, asked, heart, sent>>

\* start recovers and enters nothing: two workers busy, the request key
\* known, the ticker under investigation, or a failing write
StartRefused(c, j) ==
    /\ life[c] = "open"
    /\ (~Startable(c, j) /\ UNCHANGED faults) \/ Fault
    /\ status' = [k \in Jobs |-> Recovered(k)]
    /\ UNCHANGED <<cancelRequested, calls, concluded, life, worker>>

\* cancel: the worker, if it runs here, is told to stop before the write,
\* which may fail.  A cancel of a job that has ended changes nothing and is
\* left out.
Cancel(c, j) ==
    /\ life[c] # "dead" /\ InProgress(j)
    /\ stop' = [stop EXCEPT ![j] = @ \/ (host[j] = c)]
    /\ asked' = [asked EXCEPT ![j] = TRUE]
    /\ \/ cancelRequested' = [cancelRequested EXCEPT ![j] = TRUE] /\ UNCHANGED faults
       \/ Fault /\ UNCHANGED cancelRequested
    /\ UNCHANGED <<status, calls, concluded, life, pc, host, call, failure, heart, sent>>

\* close stops every worker, then records the cancellations it can
Close(c) ==
    /\ life[c] = "open"
    /\ life' = [life EXCEPT ![c] = "closed"]
    /\ stop' = [j \in Jobs |-> stop[j] \/ (host[j] = c)]
    /\ asked' = [j \in Jobs |-> asked[j] \/ (host[j] = c)]
    /\ \/ /\ cancelRequested' = [j \in Jobs |->
                cancelRequested[j] \/ (host[j] = c /\ InProgress(j))]
          /\ UNCHANGED faults
       \/ Fault /\ UNCHANGED cancelRequested
    /\ UNCHANGED <<status, calls, concluded, pc, host, call, failure, heart, sent>>

Crash(c) ==
    /\ life[c] # "dead"
    /\ life' = [life EXCEPT ![c] = "dead"]
    /\ Leave(WorkersOf(c))
    /\ UNCHANGED <<journal, faults>>

-----------------------------------------------------------------------------
(* The lease *)

LeaseExpires(j) ==
    /\ Owned(j)
    /\ status' = [status EXCEPT ![j] = "expired"]
    /\ UNCHANGED <<cancelRequested, calls, concluded, life, worker, faults>>

\* Mutant: a late heartbeat renews a lease that has run out.
HeartbeatRenewing(j) ==
    /\ heart[j] = "beating"
    /\ InProgress(j)
    /\ status' = [status EXCEPT ![j] = "running"]
    /\ stop' = [stop EXCEPT ![j] = @ \/ cancelRequested[j]]
    /\ UNCHANGED <<cancelRequested, calls, concluded, life, pc, host, call, failure, asked, heart, sent, faults>>

\* a lease that has not expired is moved on; the answer carries the
\* cancellation to a worker of another process
Heartbeat(j) ==
    /\ heart[j] = "beating"
    /\ \/ /\ Owned(j)
          /\ stop' = [stop EXCEPT ![j] = @ \/ cancelRequested[j]]
          /\ UNCHANGED <<heart, failure, faults>>
       \/ /\ (~Owned(j) /\ UNCHANGED faults) \/ Fault
          /\ failure' = [failure EXCEPT ![j] = TRUE]
          /\ heart' = [heart EXCEPT ![j] = "failed"]
          /\ UNCHANGED stop
    /\ UNCHANGED <<journal, life, pc, host, call, asked, sent>>

HeartStops(j) ==
    /\ heart[j] = "failed"
    /\ stop' = [stop EXCEPT ![j] = TRUE]
    /\ heart' = [heart EXCEPT ![j] = "none"]
    /\ UNCHANGED <<journal, life, pc, host, call, failure, asked, sent, faults>>

-----------------------------------------------------------------------------
(* The worker thread: _execute around run_agent and the model driver *)

Moves(j, from, to) ==
    /\ pc[j] = from
    /\ pc' = [pc EXCEPT ![j] = to]
    /\ UNCHANGED host

\* an exception, raised by a check that sees the stop or by anything else
Raises(j, from) ==
    /\ \/ Moves(j, from, "failing_error")
       \/ Moves(j, from, "failing_stop") /\ stop[j]
    /\ stop' = [stop EXCEPT ![j] = TRUE]

Untouched == UNCHANGED <<call, failure, asked, heart, sent>>

\* the first heartbeat, the lease thread, the credential and the stop check
Begin(j) ==
    /\ \/ /\ Moves(j, "begin", "agent") /\ Owned(j) /\ ~cancelRequested[j] /\ ~stop[j]
          /\ heart' = [heart EXCEPT ![j] = "beating"]
          /\ UNCHANGED stop
       \/ /\ Moves(j, "begin", "failing_stop") /\ Owned(j) /\ cancelRequested[j]
          /\ stop' = [stop EXCEPT ![j] = TRUE]
          /\ UNCHANGED heart
       \/ Raises(j, "begin") /\ UNCHANGED heart
    /\ UNCHANGED <<journal, life, call, failure, asked, sent, faults>>

\* reserve_model_request: the journal row of a call precedes the call
Reserves(j, k) ==
    /\ calls[j][k] = "unused" /\ AllCompleted(j)
    /\ Owned(j) /\ ~cancelRequested[j]
    /\ calls' = [calls EXCEPT ![j][k] = "pending"]
    /\ concluded' = [concluded EXCEPT ![j] = FALSE]
    /\ call' = [call EXCEPT ![j] = k]

ReserveCall(j) ==
    /\ ~stop[j]
    /\ \E k \in CallIds :
          /\ Reserves(j, k)
          /\ \/ Moves(j, "agent", "reserved") /\ UNCHANGED <<stop, faults>>
             \/ /\ Moves(j, "agent", "failing_error") /\ Fault   \* acknowledgement lost
                /\ stop' = [stop EXCEPT ![j] = TRUE]
    /\ UNCHANGED <<status, cancelRequested, life, failure, asked, heart, sent>>

\* a check sees the stop; a write or a reservation is refused, the latter
\* with stop_requested once the journal holds a cancellation
AgentFails(j) ==
    /\ \/ Raises(j, "agent")
       \/ /\ Moves(j, "agent", "failing_stop") /\ Owned(j) /\ cancelRequested[j]
          /\ stop' = [stop EXCEPT ![j] = TRUE]
    /\ Untouched
    /\ UNCHANGED <<journal, life, faults>>

\* the submissions are spent, the deadline passed or the agent makes no progress
AgentGivesUp(j) ==
    /\ Moves(j, "agent", "incomplete") /\ ~stop[j]
    /\ Untouched
    /\ UNCHANGED <<journal, life, stop, faults>>

Dispatch(j) ==
    /\ Moves(j, "reserved", "waiting")
    /\ sent' = [sent EXCEPT ![j] = @ \cup {call[j]}]
    /\ UNCHANGED <<journal, life, call, stop, failure, asked, heart, faults>>

Bind(j, terminal) == calls' = [calls EXCEPT ![j][call[j]] = terminal]

\* bind_remote_id and observe_terminal, while the lease is held
ObserveTerminal(j) ==
    /\ Owned(j)
    /\ \/ Moves(j, "waiting", "answered") /\ Bind(j, "completed") /\ UNCHANGED stop
       \/ Raises(j, "waiting") /\ Bind(j, "failed")
    /\ Untouched
    /\ UNCHANGED <<status, cancelRequested, concluded, life, faults>>

\* the call times out, its transport is lost, a stop interrupts it or its
\* answer cannot be recorded: the call stays without one
CallAbandoned(j) ==
    /\ Raises(j, "waiting")
    /\ Untouched
    /\ UNCHANGED <<journal, life, faults>>

\* the model_result step is recorded even after a stop, then the stop is
\* seen; a reply that does not validate is not recorded
RecordResult(j) ==
    /\ \/ /\ Owned(j) /\ UNCHANGED stop
          /\ \E conclusion \in BOOLEAN :
                /\ concluded' = [concluded EXCEPT ![j] = conclusion]
                /\ Moves(j, "answered", IF stop[j] THEN "failing_stop"
                                         ELSE IF conclusion THEN "success" ELSE "agent")
       \/ Raises(j, "answered") /\ UNCHANGED concluded
    /\ Untouched
    /\ UNCHANGED <<status, cancelRequested, calls, life, faults>>

Reported(j) == IF pc[j] = "success" THEN "succeeded" ELSE "incomplete"

\* the last stop check, then finish; what it raises goes to the except branch
Finish(j) ==
    /\ pc[j] \in {"success", "incomplete"}
    /\ \/ ~stop[j] /\ ~failure[j] /\ Finishes(j, Reported(j)) /\ Leave({j})
       \/ /\ ~stop[j] /\ ~failure[j] /\ FinishRaises(j, Reported(j))
          /\ Moves(j, pc[j], "failing_error")
          /\ stop' = [stop EXCEPT ![j] = TRUE] /\ Untouched
       \/ /\ stop[j] \/ failure[j]
          /\ Moves(j, pc[j], "failing_stop")
          /\ stop' = [stop EXCEPT ![j] = TRUE] /\ Untouched
          /\ UNCHANGED <<journal, faults>>
    /\ UNCHANGED life

\* Mutant: every stop is taken for a cancellation.
FailureStatusOfStop(j) == IF pc[j] = "failing_stop" THEN "cancelled" ELSE "failed"

FailureStatus(j) ==
    IF pc[j] = "failing_stop" /\ ~failure[j] THEN "cancelled" ELSE "failed"

\* the except branch: a refused write is swallowed; the worker leaves
FinishFailed(j) ==
    /\ pc[j] \in {"failing_stop", "failing_error"}
    /\ Finishes(j, FailureStatus(j)) \/ FinishRaises(j, FailureStatus(j))
    /\ Leave({j})
    /\ UNCHANGED life

-----------------------------------------------------------------------------
WorkerStep(j) ==
    \/ Begin(j)
    \/ ReserveCall(j)
    \/ AgentFails(j)
    \/ AgentGivesUp(j)
    \/ Dispatch(j)
    \/ ObserveTerminal(j)
    \/ CallAbandoned(j)
    \/ RecordResult(j)
    \/ Finish(j)
    \/ FinishFailed(j)

ControllerStep(c) ==
    \/ \E j \in Jobs : Start(c, j)
    \/ \E j \in Jobs : StartRefused(c, j)
    \/ \E j \in Jobs : Cancel(c, j)
    \/ Close(c)
    \/ Crash(c)

Next ==
    \/ \E c \in Controllers : ControllerStep(c)
    \/ \E j \in Jobs : LeaseExpires(j) \/ Heartbeat(j) \/ HeartStops(j)
    \/ \E j \in Jobs : WorkerStep(j)

Spec == Init /\ [][Next]_vars

\* A worker thread is scheduled, and every wait it makes has a timeout; the
\* clock passes the lease of a job that has no worker to renew it.
Abandoned(j) == pc[j] = "none" /\ heart[j] = "none" /\ LeaseExpires(j)

FairSpec ==
    /\ Spec
    /\ \A j \in Jobs : WF_vars(WorkerStep(j)) /\ WF_vars(Abandoned(j))

-----------------------------------------------------------------------------
(* Properties *)

\* project_job: what a reader is shown of a job whose lease has run out
Shown(j) ==
    IF status[j] = "expired"
    THEN IF Pending(j) THEN "unknown" ELSE "failed"
    ELSE status[j]

\* No model call is lost: a call that went out has a reservation in the
\* journal, and a job shown as settled has the answer of each call it sent,
\* also of a call sent by a worker that had already lost its lease
\* (reserve_call, finish and recover in store.py).
NoLostCall ==
    \A j \in Jobs : \A k \in sent[j] :
        /\ calls[j][k] # "unused"
        /\ Shown(j) \in Ended \ {"unknown"} => calls[j][k] # "pending"

\* One investigation of a ticker at a time, across controllers that check,
\* recover and insert beside each other (store.start).
OneJobPerTicker ==
    \A j, k \in Jobs : InProgress(j) /\ InProgress(k)
                        /\ TickerOf[j] = TickerOf[k] => j = k

\* A recorded cancellation is honoured: it may find the job closed, but the
\* job never ends with a result after it (cancel against finish).
CancelHonoured ==
    \A j \in Jobs : cancelRequested[j] => Shown(j) \notin {"succeeded", "incomplete"}

\* A job ends as cancelled only if somebody asked: a lease thread that fails
\* also stops its worker, and the worker must not take that for a request
\* (_execute, worker.failure).
CancelledWasAsked ==
    \A j \in Jobs : status[j] = "cancelled" => asked[j]

\* What a reader is shown is a ledger whose outcomes are decided once: a late
\* heartbeat, answer or finish of a worker that lost its lease changes
\* nothing, and recovery records what readers were already shown.
Ledger == INSTANCE InvestigationLedger WITH
    outcome <- [j \in Jobs |-> Shown(j)],
    outstanding <- {j \in Jobs : Pending(j)}

LedgerSpec == Ledger!Spec

\* Every investigation comes to an outcome a reader can see, without anyone
\* starting another one: the worker ends it or its lease runs out.
JobsEnd == \A j \in Jobs : status[j] = "running" ~> Shown(j) \in Ended
=============================================================================
