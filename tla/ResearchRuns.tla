----------------------------- MODULE ResearchRuns -----------------------------
(***************************************************************************)
(* AI Research runs of the ArkScope sidecar: the durable run and transcript *)
(* store (research_runs.py, research_threads.py), the asyncio executor      *)
(* (research_run_manager.py), the HTTP routes that drive them               *)
(* (api/routes/research.py, the direct stream of api/routes/query.py) and   *)
(* the lazily opened, reconciling store (api/dependencies.py).              *)
(*                                                                          *)
(* Every store operation is one BEGIN IMMEDIATE transaction, hence one      *)
(* action.  What is kept apart: a route's read and its transaction, the     *)
(* event loop (one creation or one task stretch at a time) and the worker   *)
(* threads that run the synchronous routes at any moment.                   *)
(*                                                                          *)
(* A terminal replay event is modelled by the status it announces: done is  *)
(* "succeeded", an error event is its code's class ("failed", "cancelled",  *)
(* "interrupted").  Texts, timestamps and token counts are left out.        *)
(***************************************************************************)
EXTENDS Integers, Sequences, FiniteSets

CONSTANTS
    Threads,         \* research_threads ids
    Runs,            \* research_runs ids (uuids, never reused)
    Legacy,          \* runs left active by a version that split the terminal commit
    NoThread, NoRun, \* NULL
    Stores,          \* requests that may construct a ResearchRunStore in one lifetime
    NoStore,
    MaxProgress,     \* bound on the progress frames of one run
    MaxLives,        \* bound on sidecar lifetimes
    MaxWriteFaults,  \* bound on transactions or schedulings that raise
    MaxReadFaults,   \* bound on get_run calls that raise inside a task
    MaxDirectTurns   \* bound on turns of the direct /query/stream path

ASSUME RunsAssumption ==
    /\ Legacy \subseteq Runs
    /\ NoThread \notin Threads
    /\ NoRun \notin Runs
    /\ NoStore \notin Stores

ASSUME BoundsAssumption ==
    /\ MaxProgress \in Nat
    /\ MaxLives \in Nat
    /\ MaxWriteFaults \in Nat
    /\ MaxReadFaults \in Nat
    /\ MaxDirectTurns \in Nat

VARIABLES
    \* --- the local profile database
    thread,      \* [Threads -> "absent" | "current" | "archived"]
    status,      \* [Runs -> row status, or "unborn" | "deleted" when there is no row]
    home,        \* [Runs -> thread_id of the row]
    events,      \* [Runs -> research_run_events in seq order]
    messages,    \* [Threads -> research_messages in id order]
    verified,    \* legacy runs whose message and terminal event carry equal receipts
                 \* (a receipt whose answer is the tool-budget sentinel counts as unequal)
    \* --- the sidecar process
    cached,      \* the store lru_cache holds, or NoStore
    opener,      \* [Stores -> where the request constructing it stands]
    creating,    \* the create_research_run call on the event loop
    task,        \* [Runs -> where the run's asyncio task stands]
    via,         \* [Runs -> the store its task writes through]
    cancelReq,   \* runs whose task has a cancellation pending
    cancelling,  \* <<store, run>>: cancel routes about to terminalize directly
    notes,       \* <<store, run>>: _persistence_failures of each store
    direct,      \* [Threads -> where the direct stream on it stands]
    \* --- history variables and budgets
    asked,       \* [Runs -> position of its user turn in its thread]
    context,     \* [Runs -> positions of the turns handed over as history]
    born,        \* [Runs -> lifetime that admitted it]
    unread,      \* runs whose task ended because it could not read its row
    life, writeFaults, readFaults, turns

db     == <<thread, status, home, events, messages, verified>>
memory == <<cached, opener, creating, task, via, cancelReq, cancelling, notes, direct>>
ghosts == <<asked, context, born, unread>>
budget == <<life, writeFaults, readFaults, turns>>
vars   == <<db, memory, ghosts, budget>>

Active   == {"queued", "running"}
Terminal == {"succeeded", "failed", "cancelled", "interrupted"}

\* A turn of the transcript.  "exhausted" is an answer that _is_retryable_failed_tail
\* reads as a failure: the tool-budget sentinel, which only the direct stream stores,
\* or a text that mentions the provider's turn limit.  "empty" has no content.
Kinds        == {"ok", "error", "exhausted", "empty"}
Message      == [role : {"user", "assistant"}, run : Runs \cup {NoRun}, kind : Kinds]
Question     == [role |-> "user", run |-> NoRun, kind |-> "ok"]
Answer(r, k) == [role |-> "assistant", run |-> r, kind |-> k]
AnswerKinds(outcome) == IF outcome = "succeeded" THEN Kinds \ {"error"} ELSE {"error"}

Creation == [pc : {"idle", "admit", "schedule", "handoff"}, store : Stores \cup {NoStore},
             thread : Threads \cup {NoThread}, fresh : BOOLEAN, run : Runs \cup {NoRun}]
Idle == [pc |-> "idle", store |-> NoStore, thread |-> NoThread, fresh |-> FALSE, run |-> NoRun]

TypeOK ==
    /\ thread \in [Threads -> {"absent", "current", "archived"}]
    /\ status \in [Runs -> {"unborn", "deleted"} \cup Active \cup Terminal]
    /\ home \in [Runs -> Threads \cup {NoThread}]
    /\ events \in [Runs -> Seq({"progress"} \cup Terminal)]
    /\ messages \in [Threads -> Seq(Message)]
    /\ verified \subseteq Legacy
    /\ cached \in Stores \cup {NoStore}
    /\ opener \in [Stores -> {"idle", "opening", "late", "used"}]
    /\ creating \in Creation
    /\ task \in [Runs -> {"none", "scheduled", "streaming", "done", "error"}]
    /\ via \in [Runs -> Stores \cup {NoStore}]
    /\ cancelReq \subseteq Runs
    /\ cancelling \subseteq Stores \X Runs
    /\ notes \subseteq (Stores \cup {NoStore}) \X Runs
    /\ direct \in [Threads -> {"idle", "ensured", "streaming"}]
    /\ asked \in [Runs -> Nat]
    /\ context \in [Runs -> SUBSET Nat]
    /\ born \in [Runs -> Nat]
    /\ unread \subseteq Runs
    /\ life \in Nat /\ writeFaults \in Nat /\ readFaults \in Nat /\ turns \in Nat

(***************************************************************************)
(* Queries of the two stores.                                               *)
(***************************************************************************)
ActiveRuns  == {r \in Runs : status[r] \in Active}
ActiveOn(t) == {r \in ActiveRuns : home[r] = t}

\* SELECT ... FROM research_messages WHERE run_id = ? AND role = 'assistant'
LinkedIn(m, r) == {i \in 1..Len(m) : m[i].run = r}
Linked(r) == IF home[r] \in Threads THEN LinkedIn(messages[home[r]], r) ELSE {}

\* SELECT ... FROM research_run_events WHERE run_id = ? AND type IN ('done','error')
TerminalIn(e) == {i \in 1..Len(e) : e[i] \in Terminal}

\* _build_thread_history_from_messages: the turns that seed the agent.  A retry
\* drops the failed pair at the tail; error and empty turns are never part of the
\* prompt.
RetryablePair(m) ==
    /\ Len(m) >= 2
    /\ m[Len(m) - 1].role = "user"
    /\ m[Len(m)].role = "assistant" /\ m[Len(m)].kind \in {"error", "exhausted"}
\* (mutant) a retry drops the last pair without asking whether it failed
HistoryDroppingAnyPair(m, retry) ==
    LET last == IF retry /\ Len(m) >= 2 THEN Len(m) - 2 ELSE Len(m)
    IN  {i \in 1..last : m[i].kind \notin {"error", "empty"}}
HistoryOf(m, retry) ==
    LET last == IF retry /\ RetryablePair(m) THEN Len(m) - 2 ELSE Len(m)
    IN  {i \in 1..last : m[i].kind \notin {"error", "empty"}}

(***************************************************************************)
(* Transactions shared by several callers.                                  *)
(***************************************************************************)
\* status, terminal event and linked assistant turn in one commit
Publish(r, outcome) ==
    /\ status' = [status EXCEPT ![r] = outcome]
    /\ events' = [events EXCEPT ![r] = Append(@, outcome)]
    /\ \E k \in AnswerKinds(outcome) :
          messages' = [messages EXCEPT ![home[r]] = Append(@, Answer(r, k))]

\* (mutant) the status of the row is not looked at again inside the transaction
TerminalizeErrorBlindly(s, r, outcome) ==
    /\ IF status[r] \in Active \cup Terminal
       THEN Publish(r, outcome) ELSE UNCHANGED <<status, events, messages>>
    /\ notes' = notes \ {<<s, r>>}
\* terminalize_error_with_message: a row that is not active is left as it is, and
\* the failure note of the store that ran the transaction is dropped either way
TerminalizeError(s, r, outcome) ==
    /\ IF status[r] \in Active THEN Publish(r, outcome) ELSE UNCHANGED <<status, events, messages>>
    /\ notes' = notes \ {<<s, r>>}

\* terminalize_success_with_message: only a running row accepts its answer
TerminalizeSuccess(s, r) ==
    IF status[r] = "running"
    THEN Publish(r, "succeeded") /\ notes' = notes \ {<<s, r>>}
    ELSE UNCHANGED <<status, events, messages, notes>>

\* (mutant) the failed write is swallowed without a note
NoteFailureSilently(r) ==
    /\ writeFaults < MaxWriteFaults /\ writeFaults' = writeFaults + 1
    /\ UNCHANGED notes

\* a write attempted by the task raised: _persist notes it and the task ends
NoteFailure(r) ==
    /\ writeFaults < MaxWriteFaults /\ writeFaults' = writeFaults + 1
    /\ notes' = notes \cup {<<via[r], r>>}

EndTask(r) ==
    /\ task' = [task EXCEPT ![r] = "none"]
    /\ cancelReq' = cancelReq \ {r}

(***************************************************************************)
(* get_run_store: lru_cache runs the constructor outside any mutex, so the  *)
(* first requests of a lifetime may each construct and reconcile a store;   *)
(* the first one to return is cached, a late one is used by its own request.*)
(***************************************************************************)
Usable == {s \in Stores : s = cached \/ opener[s] = "late"}
Consume(s) == opener' = [opener EXCEPT ![s] = "used"]

OpenStart(s) ==
    /\ cached = NoStore
    /\ opener[s] = "idle"
    /\ opener' = [opener EXCEPT ![s] = "opening"]
    /\ UNCHANGED <<db, cached, creating, task, via, cancelReq, cancelling, notes, direct, ghosts, budget>>

\* (mutant) message and event are counted but not compared
RecoveredWithoutComparison(r) ==
    /\ status[r] = "running"
    /\ TerminalIn(events[r]) = {Len(events[r])}
    /\ \E i \in Linked(r) : Linked(r) = {i}

\* _recover_completion_on_connection / _verified_legacy_completion: one message,
\* one terminal event that is the last event, both telling the same outcome
Recovered(r) ==
    /\ status[r] = "running"
    /\ r \in verified
    /\ TerminalIn(events[r]) = {Len(events[r])}
    /\ \E i \in Linked(r) :
          /\ Linked(r) = {i}
          /\ messages[home[r]][i].kind \in AnswerKinds(events[r][Len(events[r])])

\* (mutants) of reconcile_interrupted: no transcript turn is made; a turn is made
\* although one survived
ReconcileWithoutTurn ==
    /\ status' = [r \in Runs |-> IF status[r] \in Active THEN "interrupted" ELSE status[r]]
    /\ events' = [r \in Runs |->
          IF status[r] \in Active THEN Append(events[r], "interrupted") ELSE events[r]]
    /\ UNCHANGED messages
ReconcileAlwaysAnswering ==
    /\ status' = [r \in Runs |-> IF status[r] \in Active THEN "interrupted" ELSE status[r]]
    /\ events' = [r \in Runs |->
          IF status[r] \in Active THEN Append(events[r], "interrupted") ELSE events[r]]
    /\ messages' = [t \in Threads |->
          IF ActiveOn(t) # {}
          THEN Append(messages[t], Answer(CHOOSE r \in ActiveOn(t) : TRUE, "error"))
          ELSE messages[t]]

\* reconcile_interrupted: every active row becomes terminal in one commit.  A
\* recovered completion only gets its status; surviving ambiguous output is kept
\* and no second transcript turn is made for it.
Reconcile ==
    /\ status' = [r \in Runs |->
          IF status[r] \notin Active THEN status[r]
          ELSE IF Recovered(r) THEN events[r][Len(events[r])] ELSE "interrupted"]
    /\ events' = [r \in Runs |->
          IF status[r] \in Active /\ ~Recovered(r) THEN Append(events[r], "interrupted")
          ELSE events[r]]
    /\ messages' = [t \in Threads |->
          IF \E r \in ActiveOn(t) : Linked(r) = {}
          THEN Append(messages[t], Answer(CHOOSE r \in ActiveOn(t) : Linked(r) = {}, "error"))
          ELSE messages[t]]

OpenFinish(s) ==
    /\ opener[s] = "opening"
    /\ Reconcile
    /\ IF cached = NoStore
       THEN cached' = s /\ opener' = [opener EXCEPT ![s] = "used"]
       ELSE cached' = cached /\ opener' = [opener EXCEPT ![s] = "late"]
    /\ UNCHANGED <<thread, home, verified, creating, task, via, cancelReq, cancelling, notes, direct, ghosts, budget>>

\* the constructor or its transaction raises: nothing is cached, the request fails
OpenFails(s) ==
    /\ opener[s] = "opening"
    /\ writeFaults < MaxWriteFaults /\ writeFaults' = writeFaults + 1
    /\ opener' = [opener EXCEPT ![s] = "idle"]
    /\ UNCHANGED <<db, cached, creating, task, via, cancelReq, cancelling, notes, direct, ghosts, life, readFaults, turns>>

(***************************************************************************)
(* POST /research/runs.  The route runs on the event loop without awaiting: *)
(* it reads the thread, admits the run, then schedules its task.            *)
(***************************************************************************)
LoopFree ==
    /\ creating.pc = "idle"
    /\ \A t \in Threads : direct[t] # "ensured"

CreateRead(s, t) ==
    /\ LoopFree
    /\ \E r \in Runs : status[r] = "unborn"     \* bound: an id is left to admit
    /\ s \in Usable
    /\ Consume(s)
    /\ creating' = [pc |-> "admit", store |-> s, thread |-> t,
                    fresh |-> thread[t] = "absent", run |-> NoRun]
    /\ UNCHANGED <<db, cached, task, via, cancelReq, cancelling, notes, direct, ghosts, budget>>

\* (mutant) the busy thread is not refused
AdmissibleWhileBusy(t, fresh) ==
    thread[t] = "current" \/ (thread[t] = "absent" /\ fresh)

\* create_run_with_user_message inserts the thread only when the earlier read
\* missed it, then refuses a missing or archived thread and a busy one
Admissible(t, fresh) ==
    /\ thread[t] = "current" \/ (thread[t] = "absent" /\ fresh)
    /\ ActiveOn(t) = {}

CreateAdmit(r, retry) ==
    LET t == creating.thread IN
    /\ creating.pc = "admit"
    /\ status[r] = "unborn"
    /\ Admissible(t, creating.fresh)
    /\ thread' = [thread EXCEPT ![t] = "current"]
    /\ status' = [status EXCEPT ![r] = "queued"]
    /\ home' = [home EXCEPT ![r] = t]
    /\ context' = [context EXCEPT ![r] = HistoryOf(messages[t], retry)]
    /\ messages' = [messages EXCEPT ![t] = Append(@, Question)]
    /\ asked' = [asked EXCEPT ![r] = Len(messages[t]) + 1]
    /\ born' = [born EXCEPT ![r] = life]
    /\ UNCHANGED unread
    /\ creating' = [creating EXCEPT !.pc = "schedule", !.run = r]
    /\ UNCHANGED <<events, verified, cached, opener, task, via, cancelReq, cancelling, notes, direct, budget>>

\* ResearchRunUnavailableError (409): the transaction rolls back
CreateRefused ==
    /\ creating.pc = "admit"
    /\ ~Admissible(creating.thread, creating.fresh)
    /\ creating' = Idle
    /\ UNCHANGED <<db, cached, opener, task, via, cancelReq, cancelling, notes, direct, ghosts, budget>>

CreateSchedule ==
    LET r == creating.run IN
    /\ creating.pc = "schedule"
    /\ task' = [task EXCEPT ![r] = "scheduled"]
    /\ via' = [via EXCEPT ![r] = creating.store]
    /\ creating' = Idle
    /\ UNCHANGED <<db, cached, opener, cancelReq, cancelling, notes, direct, ghosts, budget>>

ScheduleFails ==
    /\ creating.pc = "schedule"
    /\ writeFaults < MaxWriteFaults /\ writeFaults' = writeFaults + 1
    /\ creating' = [creating EXCEPT !.pc = "handoff"]
    /\ UNCHANGED <<db, cached, opener, task, via, cancelReq, cancelling, notes, direct, ghosts, life, readFaults, turns>>

\* (mutant) the transcript turn is left out
PublishWithoutTurn(r, outcome) ==
    /\ status' = [status EXCEPT ![r] = outcome]
    /\ events' = [events EXCEPT ![r] = Append(@, outcome)]
    /\ UNCHANGED messages

\* (mutant) the failed handoff marks the row without giving the question its turn
HandoffWithoutTurn ==
    /\ creating.pc = "handoff"
    /\ IF status[creating.run] = "queued"
       THEN PublishWithoutTurn(creating.run, "failed")
       ELSE UNCHANGED <<status, events, messages>>
    /\ creating' = Idle
    /\ UNCHANGED <<thread, home, verified, cached, opener, task, via, cancelReq, cancelling, notes, direct, ghosts, budget>>

\* fail_queued_run_handoff: only a row that is still queued is failed; the route
\* answers 503 whether or not the transaction could be applied
Handoff ==
    LET r == creating.run IN
    /\ creating.pc = "handoff"
    /\ IF status[r] = "queued" THEN Publish(r, "failed") ELSE UNCHANGED <<status, events, messages>>
    /\ creating' = Idle
    /\ UNCHANGED <<thread, home, verified, cached, opener, task, via, cancelReq, cancelling, notes, direct, ghosts, budget>>

HandoffFails ==
    /\ creating.pc = "handoff"
    /\ writeFaults < MaxWriteFaults /\ writeFaults' = writeFaults + 1
    /\ creating' = Idle
    /\ UNCHANGED <<db, cached, opener, task, via, cancelReq, cancelling, notes, direct, ghosts, life, readFaults, turns>>

(***************************************************************************)
(* execute_research_run, one action per stretch between two awaits.         *)
(***************************************************************************)
\* the claim: mark_running_with_personalization is a compare-and-set
TaskStart(r) ==
    /\ LoopFree
    /\ task[r] = "scheduled" /\ r \notin cancelReq
    /\ IF status[r] = "queued"
       THEN /\ status' = [status EXCEPT ![r] = "running"]
            /\ task' = [task EXCEPT ![r] = "streaming"]
       ELSE /\ task' = [task EXCEPT ![r] = "none"]
            /\ UNCHANGED status
    /\ UNCHANGED <<thread, home, events, messages, verified, cached, opener, creating, via, cancelReq, cancelling, notes, direct, ghosts, budget>>

\* asyncio throws CancelledError into a coroutine that never started: its body,
\* handler included, does not run
TaskCancelledUnstarted(r) ==
    /\ LoopFree
    /\ task[r] = "scheduled" /\ r \in cancelReq
    /\ EndTask(r)
    /\ UNCHANGED <<db, cached, opener, creating, via, cancelling, notes, direct, ghosts, budget>>

\* a progress or tool frame; append_running_event refuses it unless the row is running
TaskFrame(r) ==
    /\ LoopFree
    /\ task[r] = "streaming"
    /\ \/ /\ status[r] = "running"
          /\ Len(events[r]) < MaxProgress
          /\ events' = [events EXCEPT ![r] = Append(@, "progress")]
          /\ UNCHANGED <<task, cancelReq>>
       \/ /\ status[r] # "running"
          /\ EndTask(r)
          /\ UNCHANGED events
    /\ UNCHANGED <<thread, status, home, messages, verified, cached, opener, creating, via, cancelling, notes, direct, ghosts, budget>>

\* the provider stream yields done, or an error frame, the tool-budget sentinel or
\* an exception; closing it may await once more before the outcome is saved
TaskStreamEnds(r, outcome) ==
    /\ LoopFree
    /\ task[r] = "streaming"
    /\ task' = [task EXCEPT ![r] = outcome]
    /\ UNCHANGED <<db, cached, opener, creating, via, cancelReq, cancelling, notes, direct, ghosts, budget>>

TaskFinish(r) ==
    /\ LoopFree
    /\ \/ task[r] = "done" /\ TerminalizeSuccess(via[r], r)
       \/ task[r] = "error" /\ TerminalizeError(via[r], r, "failed")
    /\ EndTask(r)
    /\ UNCHANGED <<thread, home, verified, cached, opener, creating, via, cancelling, direct, ghosts, budget>>

\* CancelledError delivered at an await of a started task
TaskCancelled(r) ==
    /\ LoopFree
    /\ task[r] \in {"streaming", "done", "error"} /\ r \in cancelReq
    /\ TerminalizeError(via[r], r, "cancelled")
    /\ EndTask(r)
    /\ UNCHANGED <<thread, home, verified, cached, opener, creating, via, cancelling, direct, ghosts, budget>>

\* the claim, a frame or the terminal write raises: noted, the row stays active
TaskWriteFails(r) ==
    /\ LoopFree
    /\ \/ task[r] = "scheduled" /\ r \notin cancelReq /\ status[r] = "queued"
       \/ task[r] \in {"streaming", "done", "error"}
    /\ NoteFailure(r)
    /\ EndTask(r)
    /\ UNCHANGED <<db, cached, opener, creating, via, cancelling, direct, ghosts, life, readFaults, turns>>

\* get_run raises before or right after the claim, outside _persist: the task ends
\* without a note
TaskReadFails(r) ==
    /\ LoopFree
    /\ task[r] = "scheduled" /\ r \notin cancelReq
    /\ readFaults < MaxReadFaults /\ readFaults' = readFaults + 1
    /\ \/ UNCHANGED status
       \/ status[r] = "queued" /\ status' = [status EXCEPT ![r] = "running"]
    /\ unread' = unread \cup {r}
    /\ EndTask(r)
    /\ UNCHANGED <<thread, home, events, messages, verified, cached, opener, creating, via, cancelling, notes, direct, asked, context, born, life, writeFaults, turns>>

(***************************************************************************)
(* POST /research/runs/{id}/cancel, on a worker thread: a live task is asked *)
(* to cancel itself, otherwise the route terminalizes the row.               *)
(***************************************************************************)
CancelRequest(s, r) ==
    /\ s \in Usable
    /\ status[r] \in Active
    /\ Consume(s)
    /\ IF task[r] # "none"
       THEN cancelReq' = cancelReq \cup {r} /\ UNCHANGED cancelling
       ELSE cancelling' = cancelling \cup {<<s, r>>} /\ UNCHANGED cancelReq
    /\ UNCHANGED <<db, cached, creating, task, via, notes, direct, ghosts, budget>>

CancelTerminalize(s, r) ==
    /\ <<s, r>> \in cancelling
    /\ TerminalizeError(s, r, "cancelled")
    /\ cancelling' = cancelling \ {<<s, r>>}
    /\ UNCHANGED <<thread, home, verified, cached, opener, creating, task, via, cancelReq, direct, ghosts, budget>>

CancelFails(s, r) ==
    /\ <<s, r>> \in cancelling
    /\ writeFaults < MaxWriteFaults /\ writeFaults' = writeFaults + 1
    /\ cancelling' = cancelling \ {<<s, r>>}
    /\ UNCHANGED <<db, cached, opener, creating, task, via, cancelReq, notes, direct, ghosts, life, readFaults, turns>>

(***************************************************************************)
(* Thread lifecycle routes, on worker threads.                              *)
(***************************************************************************)
\* (mutant) archiving does not look for an active run
SetArchivedWhileBusy(t, archived) ==
    /\ thread[t] # "absent"
    /\ thread' = [thread EXCEPT ![t] = IF archived THEN "archived" ELSE "current"]
    /\ UNCHANGED <<status, home, events, messages, verified, memory, ghosts, budget>>
SetArchived(t, archived) ==
    /\ thread[t] # "absent"
    /\ archived => ActiveOn(t) = {}
    /\ thread' = [thread EXCEPT ![t] = IF archived THEN "archived" ELSE "current"]
    /\ UNCHANGED <<status, home, events, messages, verified, memory, ghosts, budget>>

\* the thread row goes and its runs, events and messages go with it
DeleteThread(t) ==
    /\ thread[t] # "absent"
    /\ ActiveOn(t) = {}
    /\ thread' = [thread EXCEPT ![t] = "absent"]
    /\ messages' = [messages EXCEPT ![t] = <<>>]
    /\ status' = [r \in Runs |-> IF home[r] = t THEN "deleted" ELSE status[r]]
    /\ events' = [r \in Runs |-> IF home[r] = t THEN <<>> ELSE events[r]]
    /\ home' = [r \in Runs |-> IF home[r] = t THEN NoThread ELSE home[r]]
    /\ UNCHANGED <<verified, memory, ghosts, budget>>

(***************************************************************************)
(* POST /query/stream with a thread id: unlinked turns, no admission check. *)
(***************************************************************************)
DirectEnsure(t) ==
    /\ LoopFree
    /\ direct[t] = "idle"
    /\ turns < MaxDirectTurns
    /\ thread' = [thread EXCEPT ![t] = IF @ = "absent" THEN "current" ELSE @]
    /\ direct' = [direct EXCEPT ![t] = "ensured"]
    /\ turns' = turns + 1
    /\ UNCHANGED <<status, home, events, messages, verified, cached, opener, creating, task, via, cancelReq, cancelling, notes, ghosts, life, writeFaults, readFaults>>

\* (mutant) the foreign key is not enforced
AppendOrphan(t, m) == messages' = [messages EXCEPT ![t] = Append(@, m)]

\* a turn for a thread deleted meanwhile violates the foreign key and is dropped
AppendUnlinked(t, m) ==
    messages' = IF thread[t] = "absent" THEN messages ELSE [messages EXCEPT ![t] = Append(@, m)]

\* _persist_user_turn is one synchronous call after DirectEnsure
DirectAsk(t) ==
    /\ direct[t] = "ensured"
    /\ AppendUnlinked(t, Question)
    /\ direct' = [direct EXCEPT ![t] = "streaming"]
    /\ UNCHANGED <<thread, status, home, events, verified, cached, opener, creating, task, via, cancelReq, cancelling, notes, ghosts, budget>>

\* done, the tool-budget sentinel or an error is stored; a disconnect stores nothing
DirectEnd(t) ==
    /\ LoopFree
    /\ direct[t] = "streaming"
    /\ direct' = [direct EXCEPT ![t] = "idle"]
    /\ UNCHANGED messages \/ \E k \in Kinds : AppendUnlinked(t, Answer(NoRun, k))
    /\ UNCHANGED <<thread, status, home, events, verified, cached, opener, creating, task, via, cancelReq, cancelling, notes, ghosts, budget>>

(***************************************************************************)
(* The sidecar process dies and is started again: only the database stays.  *)
(***************************************************************************)
Crash ==
    /\ life < MaxLives
    /\ life' = life + 1
    /\ cached' = NoStore
    /\ opener' = [s \in Stores |-> "idle"]
    /\ creating' = Idle
    /\ task' = [r \in Runs |-> "none"]
    /\ via' = [r \in Runs |-> NoStore]
    /\ cancelReq' = {} /\ cancelling' = {} /\ notes' = {}
    /\ direct' = [t \in Threads |-> "idle"]
    /\ UNCHANGED <<db, ghosts, writeFaults, readFaults, turns>>

(***************************************************************************)
(* The database an installation may boot from: fresh, or with runs that an  *)
(* older version left active after storing some of {event, message}.        *)
(***************************************************************************)
LegacyEvents == {<<>>, <<"progress">>, <<"succeeded">>, <<"failed">>, <<"succeeded", "progress">>}
LegacyTurns(r) == {<<Question>>} \cup {<<Question, Answer(r, k)>> : k \in Kinds}

Init ==
    /\ home \in [Runs -> Threads \cup {NoThread}]
    /\ \A r \in Runs : home[r] # NoThread <=> r \in Legacy
    /\ \A q, r \in Legacy : home[q] = home[r] => q = r
    /\ status \in [Runs -> {"unborn", "queued", "running"}]
    /\ \A r \in Runs : status[r] = "unborn" <=> r \notin Legacy
    /\ thread = [t \in Threads |-> IF \E r \in Legacy : home[r] = t THEN "current" ELSE "absent"]
    /\ events \in [Runs -> LegacyEvents]
    /\ \A r \in Runs \ Legacy : events[r] = <<>>
    /\ messages \in [Threads -> {<<>>} \cup UNION {LegacyTurns(r) : r \in Legacy}]
    /\ \A t \in Threads : thread[t] = "absent" => messages[t] = <<>>
    /\ \A r \in Legacy : messages[home[r]] \in LegacyTurns(r)
    /\ verified \in SUBSET Legacy
    /\ cached = NoStore
    /\ opener = [s \in Stores |-> "idle"]
    /\ creating = Idle
    /\ task = [r \in Runs |-> "none"]
    /\ via = [r \in Runs |-> NoStore]
    /\ cancelReq = {} /\ cancelling = {} /\ notes = {}
    /\ direct = [t \in Threads |-> "idle"]
    /\ asked = [r \in Runs |-> IF r \in Legacy THEN 1 ELSE 0]
    /\ context = [r \in Runs |-> {}]
    /\ born = [r \in Runs |-> 0]
    /\ unread = {}
    /\ life = 1 /\ writeFaults = 0 /\ readFaults = 0 /\ turns = 0

TaskStep(r) ==
    \/ TaskStart(r)
    \/ TaskCancelledUnstarted(r)
    \/ TaskFrame(r)
    \/ \E outcome \in {"done", "error"} : TaskStreamEnds(r, outcome)
    \/ TaskFinish(r)
    \/ TaskCancelled(r)
    \/ TaskWriteFails(r)
    \/ TaskReadFails(r)

CreateStep ==
    \/ \E s \in Stores, t \in Threads : CreateRead(s, t)
    \/ \E r \in Runs, retry \in BOOLEAN : CreateAdmit(r, retry)
    \/ CreateRefused
    \/ CreateSchedule
    \/ ScheduleFails
    \/ Handoff
    \/ HandoffFails

ThreadStep(t) ==
    \/ \E archived \in BOOLEAN : SetArchived(t, archived)
    \/ DeleteThread(t)
    \/ DirectEnsure(t)
    \/ DirectAsk(t)
    \/ DirectEnd(t)

StoreStep(s) ==
    \/ OpenStart(s)
    \/ OpenFinish(s)
    \/ OpenFails(s)
    \/ \E r \in Runs : CancelRequest(s, r) \/ CancelTerminalize(s, r) \/ CancelFails(s, r)

Next ==
    \/ \E r \in Runs : TaskStep(r)
    \/ CreateStep
    \/ \E t \in Threads : ThreadStep(t)
    \/ \E s \in Stores : StoreStep(s)
    \/ Crash

Spec == Init /\ [][Next]_vars

(***************************************************************************)
(* Properties.                                                              *)
(***************************************************************************)
\* At most one queued or running run per thread, whatever the order in which
\* creation, cancellation, deletion and reconciliation commit
\* (_create_run_on_connection).
OneActiveRun ==
    \A t \in Threads : \A q, r \in ActiveOn(t) : q = r

\* An active run always has a current thread to answer into: it is never archived
\* or deleted under the run (update_thread_lifecycle, delete_thread).
ActiveThreadIsCurrent ==
    \A r \in ActiveRuns : home[r] \in Threads /\ thread[home[r]] = "current"

\* A terminal status, its replay event and its one transcript turn appear together:
\* the last event announces the status and exactly one turn is linked.  Runs of
\* this version show none of the three before, and agree on the outcome after.
PublishedAtomically(r) ==
    /\ status[r] \in Terminal =>
          /\ \E i \in Linked(r) : Linked(r) = {i}
          /\ events[r] # <<>> /\ events[r][Len(events[r])] = status[r]
    /\ r \notin Legacy =>
          /\ status[r] \in Active => Linked(r) = {} /\ TerminalIn(events[r]) = {}
          /\ status[r] \in Terminal =>
                /\ TerminalIn(events[r]) = {Len(events[r])}
                /\ \A i \in Linked(r) : messages[home[r]][i].kind \in AnswerKinds(status[r])

\* ... for every run, in every state between two commits.
AtomicPublication == \A r \in Runs : PublishedAtomically(r)

\* A result marked succeeded always has a turn that is not an error, for legacy rows
\* too: reconciliation never turns a failed or unfinished turn into a success.
SuccessIsAnswered ==
    \A r \in Runs : status[r] = "succeeded" =>
        \E i \in Linked(r) : messages[home[r]][i].kind \in AnswerKinds("succeeded")

\* While no direct stream wrote to the transcripts, they pair up: a finished run's
\* turn directly follows its question, an active run's question is the last turn.
TranscriptPaired ==
    turns = 0 =>
        \A r \in Runs :
            /\ status[r] \in Terminal => asked[r] + 1 \in Linked(r)
            /\ status[r] \in Active /\ Linked(r) = {} => asked[r] = Len(messages[home[r]])

\* The history snapshot is settled: every run asked earlier in the thread had
\* published when a later one was admitted, and the later run's context holds its
\* answer but no error and no empty turn.  An answer that reads like an exhausted
\* budget is missing at most from the run asked directly after it
\* (create_run_with_user_message, _build_thread_history_from_messages).
TakenInto(r, i, kind) ==
    /\ kind \in {"error", "empty"} => i \notin context[r]
    /\ kind = "ok" => i \in context[r]
    /\ kind = "exhausted" => i \in context[r] \/ i = asked[r] - 1
ContextSettled ==
    \A q, r \in Runs :
        /\ home[q] \in Threads /\ home[r] = home[q]
        /\ asked[q] < asked[r]
        => /\ status[q] \in Terminal
           /\ \A i \in Linked(q) :
                 i < asked[r] /\ TakenInto(r, i, messages[home[q]][i].kind)

\* A deleted thread leaves no turn behind for a thread created later under its id,
\* although a direct stream may still be writing (append_message, foreign keys).
NoOrphanTurns == \A t \in Threads : thread[t] = "absent" => messages[t] = <<>>

\* Once terminal, a run keeps its status, its events and its turn until its thread
\* is deleted: late frames, late outcomes, repeated cancels, the failed handoff and
\* a second reconciliation change nothing.
TerminalIsFinal ==
    [][\A r \in Runs : status[r] \in Terminal =>
          \/ status'[r] = "deleted"
          \/ /\ status'[r] = status[r]
             /\ events'[r] = events[r]
             /\ home'[r] = home[r]
             /\ Linked(r)' = Linked(r)]_vars

\* The store implements the thread ledger: the slot of a thread is its active run,
\* its ledger the linked turns of its terminal runs.
SlotOf(t) == IF ActiveOn(t) = {} THEN NoRun ELSE CHOOSE r \in ActiveOn(t) : TRUE
ResultOf(turn) == IF turn.kind = "error" THEN "error" ELSE "ok"
LedgerOf(t) == {<<messages[t][i].run, ResultOf(messages[t][i])>> :
                  i \in {j \in 1..Len(messages[t]) :
                           /\ messages[t][j].run # NoRun
                           /\ status[messages[t][j].run] \in Terminal}}

Ledger == INSTANCE ThreadLedger WITH
    slot <- [t \in Threads |-> SlotOf(t)],
    ledger <- [t \in Threads |-> LedgerOf(t)]

\* Admission is released only by the commit that publishes one result.
LedgerSpec == Ledger!Spec

\* get_run_store: "any queued/running rows from a previous sidecar lifetime are
\* reconciled"; a run admitted by this lifetime is not interrupted by it.
OnlyEarlierLivesInterrupted ==
    [][\A r \in Runs :
          status[r] \in Active /\ status'[r] = "interrupted" => born[r] < life]_vars

(***************************************************************************)
(* Fairness: the event loop serves ready callbacks in order, so a ready task *)
(* step is not overtaken for ever (strong, since a route may hold the loop   *)
(* in between); a synchronous route runs to its end; the polling client      *)
(* keeps opening the store after a restart.  Streams end: see the README.    *)
(***************************************************************************)
TaskProgress(r) ==
    \/ TaskStart(r)
    \/ TaskCancelledUnstarted(r)
    \/ TaskFrame(r)
    \/ \E outcome \in {"done", "error"} : TaskStreamEnds(r, outcome)
    \/ TaskFinish(r)
    \/ TaskCancelled(r)

Fairness ==
    /\ \A r \in Runs : SF_vars(TaskProgress(r))
    /\ WF_vars(\E r \in Runs, retry \in BOOLEAN : CreateAdmit(r, retry))
    /\ WF_vars(CreateRefused \/ CreateSchedule \/ Handoff)
    /\ \A t \in Threads : WF_vars(DirectAsk(t))
    /\ \A s \in Stores : WF_vars(OpenStart(s)) /\ WF_vars(OpenFinish(s))
    /\ \A s \in Stores, r \in Runs : WF_vars(CancelTerminalize(s, r))

FairSpec == Spec /\ Fairness

\* A run that was claimed reaches a terminal state, through the task, a cancel or
\* the reconciliation after a crash, unless its failed write was noted (_persist) or
\* its task could not read the row back after the claim (get_run, unread).
ClaimedRunsFinish ==
    \A r \in Runs :
        status[r] = "running" ~>
            \/ status[r] \notin Active
            \/ \E s \in Stores : <<s, r>> \in notes
            \/ r \in unread

\* A run whose cancellation was accepted by its task ends.
CancelSettles ==
    \A r \in Runs : r \in cancelReq ~> status[r] \notin Active
=============================================================================
