----------------------------- MODULE DataScheduler -----------------------------
(***************************************************************************)
(* App-owned data collection (service/data_scheduler.py): the supervisor's  *)
(* ticks, "Run now" and the daily_update CLI all execute run_source, in two *)
(* processes that share file locks (ibkr_gateway_lock.py), the macro writer *)
(* lease (macro_calendar/write_lock.py) and the durable scheduler_state     *)
(* rows (scheduler_state.py).                                               *)
(*                                                                          *)
(* A slot is a thread executing run_source (or, with the trigger "session", *)
(* another consumer inside ibkr_gateway_lock).  Every lock operation and    *)
(* every database commit is a step of its own.  What a provider returns is  *)
(* a choice; the result dictionaries shown by the UI are left out.          *)
(***************************************************************************)
EXTENDS Integers, Sequences, FiniteSets

CONSTANTS
    Order,          \* SOURCES, in the order tick_once walks them
    News,           \* news_direct_source
    Ibkr,           \* sources behind the Gateway lock
    Macro, Market,  \* writes_macro_db, writes_market_db
    Enabled,        \* schedule.<source>.enabled
    Configured,     \* sources whose provider preflight passes
    Routes,         \* news write modes the profile database may answer
    SidecarSlots, CliSlots,
    NoSource, Free,
    Interval,       \* ticks between two attempts of a source
    Prompt,         \* TRUE: a fired thread passes its non-blocking gates within TICK_SECONDS
    MaxLives,       \* bound on sidecar lifetimes
    MaxFaults,      \* bound on state reads and writes that fail, and CLI deaths
    MaxManual       \* bound on Run now, CLI and Gateway-session calls

Sources == {Order[i] : i \in 1..Len(Order)}
Slots   == SidecarSlots \cup CliSlots
Procs   == {"sidecar", "cli"}

ASSUME SourcesAssumption ==
    /\ Order \in Seq(Sources)
    /\ News \subseteq Sources /\ Ibkr \subseteq Sources
    /\ Macro \subseteq Sources \ (News \cup Ibkr \cup Market) /\ Market \subseteq Sources
    /\ Enabled \subseteq Sources /\ Configured \subseteq Sources
    /\ NoSource \notin Sources
ASSUME SlotsAssumption == SidecarSlots \cap CliSlots = {} /\ Free \notin Slots
ASSUME RoutesAssumption == Routes \subseteq {"normalized", "legacy", "blocked"} /\ Routes # {}
ASSUME SchedulerBounds ==
    /\ Interval \in Nat \ {0} /\ Prompt \in BOOLEAN
    /\ MaxLives \in Nat /\ MaxFaults \in Nat /\ MaxManual \in Nat

VARIABLES
    slot,        \* [Slots -> the call it executes]
    sourceLock,  \* [Procs -> [Sources -> holder]]: _SOURCE_LOCKS of each process
    sourceFile,  \* [Sources -> holder]: the flock twins
    macroLease,  \* holder of the macro writer lease, thread and file layer together
    gateLock,    \* [Procs -> holder]: IBKR_THREAD_LOCK
    gateFile,    \* holder of IBKR_FILE_LOCK
    row,         \* [Sources -> scheduler_state row]
    age,         \* [Sources -> ticks since _LAST_ATTEMPT, capped]: Interval means due
    up,          \* the sidecar process is running
    orphans,     \* sources whose worker process outlived the sidecar
    abandoned,   \* sources whose last started run was killed or not recorded (history)
    lives, faults, manual

locks    == <<sourceLock, sourceFile, macroLease, gateLock, gateFile>>
durable  == <<row, abandoned>>
runtime  == <<age, up, orphans>>
counters == <<lives, faults, manual>>
vars     == <<slot, locks, durable, runtime, counters>>

ProcOf(j) == IF j \in SidecarSlots THEN "sidecar" ELSE "cli"

Statuses == {"succeeded", "failed", "partial", "skipped"}
Row  == [status : {"absent", "running"} \cup Statuses, cont : BOOLEAN]
Steps == {"idle", "enter", "flock", "macro", "gate", "gateThread", "gateFile",
          "attempt", "collect", "record", "release"}
Call == [pc : Steps, source : Sources \cup {NoSource},
         trigger : {"none", "scheduler", "api", "cli", "session"},
         route : {"none", "normalized", "legacy", "blocked"},
         pending : BOOLEAN, blind : BOOLEAN, outcome : {"none"} \cup Statuses, cont : BOOLEAN]
Idle == [pc |-> "idle", source |-> NoSource, trigger |-> "none", route |-> "none",
         pending |-> FALSE, blind |-> FALSE, outcome |-> "none", cont |-> FALSE]

TypeOK ==
    /\ slot \in [Slots -> Call]
    /\ sourceLock \in [Procs -> [Sources -> Slots \cup {Free}]]
    /\ sourceFile \in [Sources -> Slots \cup {Free}]
    /\ macroLease \in Slots \cup {Free}
    /\ gateLock \in [Procs -> Slots \cup {Free}]
    /\ gateFile \in Slots \cup {Free}
    /\ row \in [Sources -> Row]
    /\ age \in [Sources -> 0..Interval]
    /\ up \in BOOLEAN
    /\ orphans \subseteq Sources
    /\ abandoned \subseteq Sources
    /\ lives \in Nat /\ faults \in Nat /\ manual \in Nat

Init ==
    /\ slot = [j \in Slots |-> Idle]
    /\ sourceLock = [p \in Procs |-> [s \in Sources |-> Free]]
    /\ sourceFile = [s \in Sources |-> Free]
    /\ macroLease = Free
    /\ gateLock = [p \in Procs |-> Free]
    /\ gateFile = Free
    /\ row = [s \in Sources |-> [status |-> "absent", cont |-> FALSE]]
    /\ age = [s \in Sources |-> Interval]
    /\ up = TRUE /\ orphans = {} /\ abandoned = {}
    /\ lives = 1 /\ faults = 0 /\ manual = 0

Go(j, pc) == slot' = [slot EXCEPT ![j].pc = pc]

\* every return inside the try block: on to the finally block
Leave(j) ==
    slot' = [slot EXCEPT ![j] =
               [Idle EXCEPT !.pc = "release", !.source = slot[j].source, !.trigger = slot[j].trigger]]

(***************************************************************************)
(* Entering run_source: the news route is read, then the provider preflight *)
(* (macro sources run theirs later, as part of the collection).             *)
(***************************************************************************)
RoutesOf(s) ==
    IF s \notin News THEN {"none"} ELSE IF s \in Ibkr THEN Routes \ {"legacy"} ELSE Routes

Passes(s) == s \in Macro \/ s \in Configured

Entered(s, trigger, route) ==
    [Idle EXCEPT !.pc = "enter", !.source = s, !.trigger = trigger, !.route = route]

\* POST /schedule/run/{source} with its fast path (a price repair has none), and
\* daily_update's loop or thread pool
Manual(j, s) ==
    /\ slot[j].pc = "idle"
    /\ j \in SidecarSlots => up /\ (sourceLock["sidecar"][s] = Free \/ s \in Ibkr \ News)
    /\ manual < MaxManual /\ manual' = manual + 1
    /\ Passes(s)
    /\ \E route \in RoutesOf(s) :
          slot' = [slot EXCEPT ![j] = Entered(s, IF j \in SidecarSlots THEN "api" ELSE "cli", route)]
    /\ UNCHANGED <<locks, durable, runtime, lives, faults>>

\* another consumer of the Gateway: ibkr_gateway_lock without a source
Session(j) ==
    /\ slot[j].pc = "idle"
    /\ j \in SidecarSlots => up
    /\ manual < MaxManual /\ manual' = manual + 1
    /\ slot' = [slot EXCEPT ![j] = [Idle EXCEPT !.pc = "gateThread", !.trigger = "session"]]
    /\ UNCHANGED <<locks, durable, runtime, lives, faults>>

(***************************************************************************)
(* tick_once: in the order of SOURCES, every due source gets a thread, but  *)
(* at most one market writer and one macro writer per pass.  A fired source *)
(* whose preflight fails returns at once and stays due.                     *)
(***************************************************************************)
Due(s) == s \in Enabled /\ age[s] = Interval
FirstDue(S) ==
    {s \in S : Due(s) /\ \E i \in 1..Len(Order) :
        Order[i] = s /\ \A k \in 1..(i - 1) : ~(Order[k] \in S /\ Due(Order[k]))}
Fired == {s \in Sources \ (Market \cup Macro) : Due(s)} \cup FirstDue(Market) \cup FirstDue(Macro)

IdleSidecar == {j \in SidecarSlots : slot[j].pc = "idle"}

Tick ==
    /\ up
    /\ Prompt => \A j \in SidecarSlots : slot[j].pc \notin {"enter", "flock", "macro", "gate"}
    /\ LET started == {s \in Fired : Passes(s)} IN
       /\ Cardinality(started) <= Cardinality(IdleSidecar)    \* bound: thread slots
       /\ \E on \in [started -> IdleSidecar], via \in [started -> Routes \cup {"none"}] :
            /\ \A s, u \in started : on[s] = on[u] => s = u
            /\ \A s \in started : via[s] \in RoutesOf(s)
            /\ slot' = [j \in Slots |->
                 IF \E s \in started : on[s] = j
                 THEN LET s == CHOOSE s \in started : on[s] = j IN Entered(s, "scheduler", via[s])
                 ELSE slot[j]]
    /\ age' = [s \in Sources |-> IF age[s] < Interval THEN age[s] + 1 ELSE age[s]]
    /\ UNCHANGED <<locks, durable, up, orphans, counters>>

(***************************************************************************)
(* The skip-only gates, outermost lock first.                               *)
(***************************************************************************)
LockSource(j) ==
    LET p == ProcOf(j)
        s == slot[j].source
    IN
    /\ slot[j].pc = "enter"
    /\ IF sourceLock[p][s] = Free
       THEN /\ sourceLock' = [sourceLock EXCEPT ![p][s] = j]
            /\ Go(j, "flock")
       ELSE /\ slot' = [slot EXCEPT ![j] = Idle]
            /\ UNCHANGED sourceLock
    /\ UNCHANGED <<sourceFile, macroLease, gateLock, gateFile, durable, runtime, counters>>

\* (mutant) a busy flock is taken for the degraded, lock-less mode
FlockSourceDegraded(j) ==
    /\ slot[j].pc = "flock"
    /\ sourceFile' = [sourceFile EXCEPT ![slot[j].source] = j]
    /\ Go(j, IF slot[j].source \in Macro THEN "macro" ELSE "gate")
    /\ UNCHANGED <<sourceLock, macroLease, gateLock, gateFile, durable, runtime, counters>>

FlockSource(j) ==
    LET p == ProcOf(j)
        s == slot[j].source
    IN
    /\ slot[j].pc = "flock"
    /\ IF sourceFile[s] = Free
       THEN /\ sourceFile' = [sourceFile EXCEPT ![s] = j]
            /\ Go(j, IF s \in Macro THEN "macro" ELSE "gate")
            /\ UNCHANGED sourceLock
       ELSE /\ sourceLock' = [sourceLock EXCEPT ![p][s] = Free]
            /\ slot' = [slot EXCEPT ![j] = Idle]
            /\ UNCHANGED sourceFile
    /\ UNCHANGED <<macroLease, gateLock, gateFile, durable, runtime, counters>>

\* (mutant) the lease is not waited for, nor refused
LeaseMacroShared(j) ==
    /\ slot[j].pc = "macro"
    /\ macroLease' = j
    /\ Go(j, "gate")
    /\ UNCHANGED <<sourceLock, sourceFile, gateLock, gateFile, durable, runtime, counters>>

\* MacroCalendarBusy: both source locks go back, the scheduler defers, a manual
\* call is reported as skipped
LeaseMacro(j) ==
    LET p == ProcOf(j)
        s == slot[j].source
    IN
    /\ slot[j].pc = "macro"
    /\ IF macroLease = Free
       THEN /\ macroLease' = j
            /\ Go(j, "gate")
            /\ UNCHANGED <<sourceLock, sourceFile>>
       ELSE /\ sourceFile' = [sourceFile EXCEPT ![s] = Free]
            /\ sourceLock' = [sourceLock EXCEPT ![p][s] = Free]
            /\ slot' = [slot EXCEPT ![j] = Idle]
            /\ UNCHANGED macroLease
    /\ UNCHANGED <<gateLock, gateFile, durable, runtime, counters>>

\* _pending_continuation: the deferred scope a partial run, or a failed resume, left
PendingContinuation(s) == s \in News /\ row[s].cont /\ row[s].status \in {"partial", "failed"}

\* its answer for a call: a state read that raises counts as nothing saved, and the
\* call goes on blind
ReadContinuation(s, pending, blind) ==
    \/ pending = PendingContinuation(s) /\ ~blind /\ UNCHANGED faults
    \/ s \in News /\ ~pending /\ blind /\ faults < MaxFaults /\ faults' = faults + 1

\* a run nobody attends must not take up a saved scope
Unattended(c) == c.trigger = "scheduler" /\ c.route = "normalized"

PassGate(j, pending, blind) ==
    IF Unattended(slot[j]) /\ pending
    THEN Leave(j)
    ELSE slot' = [slot EXCEPT ![j].pending = pending, ![j].blind = blind,
                              ![j].pc = IF slot[j].source \in Ibkr THEN "gateThread" ELSE "attempt"]

\* (mutant) the durable attempt is recorded before the Gateway gates
GateRecordingAttempt(j) ==
    /\ slot[j].pc = "gate"
    /\ age' = IF j \in SidecarSlots THEN [age EXCEPT ![slot[j].source] = 0] ELSE age
    /\ row' = [row EXCEPT ![slot[j].source].status = "running"]
    /\ \E pending, blind \in BOOLEAN :
          ReadContinuation(slot[j].source, pending, blind) /\ PassGate(j, pending, blind)
    /\ UNCHANGED <<locks, abandoned, up, orphans, lives, manual>>

\* (mutant) a run stopped at a saved continuation does not count as an attempt
GateWithoutBackoff(j) ==
    /\ slot[j].pc = "gate"
    /\ \E pending, blind \in BOOLEAN :
          /\ ReadContinuation(slot[j].source, pending, blind) /\ PassGate(j, pending, blind)
          /\ age' = IF j \in SidecarSlots /\ ~(Unattended(slot[j]) /\ pending)
                    THEN [age EXCEPT ![slot[j].source] = 0] ELSE age
    /\ UNCHANGED <<locks, durable, up, orphans, lives, manual>>

\* _LAST_ATTEMPT is set, then an unattended run stops at a saved continuation
Gate(j) ==
    /\ slot[j].pc = "gate"
    /\ age' = IF j \in SidecarSlots THEN [age EXCEPT ![slot[j].source] = 0] ELSE age
    /\ \E pending, blind \in BOOLEAN :
          ReadContinuation(slot[j].source, pending, blind) /\ PassGate(j, pending, blind)
    /\ UNCHANGED <<locks, durable, up, orphans, lives, manual>>

\* the Gateway, thread layer then file layer, each with a timeout that ends in a skip
GateThread(j) ==
    LET p == ProcOf(j) IN
    /\ slot[j].pc = "gateThread"
    /\ IF gateLock[p] = Free
       THEN gateLock' = [gateLock EXCEPT ![p] = j] /\ Go(j, "gateFile")
       ELSE gateLock' = gateLock /\ Leave(j)
    /\ UNCHANGED <<sourceLock, sourceFile, macroLease, gateFile, durable, runtime, counters>>

\* (mutant) only the thread layer decides
GateFileIgnored(j) ==
    /\ slot[j].pc = "gateFile"
    /\ gateFile' = j
    /\ Go(j, IF slot[j].trigger = "session" THEN "collect" ELSE "attempt")
    /\ UNCHANGED <<sourceLock, sourceFile, macroLease, gateLock, durable, runtime, counters>>

GateFile(j) ==
    /\ slot[j].pc = "gateFile"
    /\ IF gateFile = Free
       THEN gateFile' = j /\ Go(j, IF slot[j].trigger = "session" THEN "collect" ELSE "attempt")
       ELSE gateFile' = gateFile /\ Leave(j)
    /\ UNCHANGED <<sourceLock, sourceFile, macroLease, gateLock, durable, runtime, counters>>

(***************************************************************************)
(* The run proper.                                                          *)
(***************************************************************************)
\* record_attempt keeps the continuation and is best effort, as is the job_runs row
Attempt(j) ==
    LET s == slot[j].source IN
    /\ slot[j].pc = "attempt"
    /\ \/ /\ row' = [row EXCEPT ![s].status = "running"]
          /\ abandoned' = abandoned \ {s}
          /\ UNCHANGED faults
       \/ /\ faults < MaxFaults /\ faults' = faults + 1
          /\ UNCHANGED durable
    /\ Go(j, "collect")
    /\ UNCHANGED <<locks, runtime, lives, manual>>

\* a price repair whose tickers left the active universe while it waited is skipped
RepairSkipped(j) ==
    /\ slot[j].pc = "attempt"
    /\ slot[j].source \in Ibkr \ News /\ slot[j].trigger = "api"
    /\ Leave(j)
    /\ UNCHANGED <<locks, durable, runtime, counters>>

\* a manual call on the normalized route hands the saved scope to the writer
Resumes(c) == c.trigger # "scheduler" /\ c.route = "normalized" /\ c.pending

\* what the collection of a source may end in
Outcomes(c) ==
    CASE c.source \in News ->
           IF c.route = "blocked" \/ (c.source \in Ibkr /\ (c.route # "normalized" \/ Resumes(c)))
           THEN {"failed"}
           ELSE IF c.route = "legacy" THEN {"succeeded", "failed", "skipped"} ELSE Statuses
      [] c.source \in Ibkr \ News -> Statuses
      [] OTHER -> Statuses \ {"skipped"}

\* the continuation record_outcome stores: a lock-busy skip keeps the pending one, a
\* partial writer leaves its own, a failed resume keeps what it was resuming
Continuation(c, outcome, left) ==
    CASE outcome = "skipped" -> c.pending
      [] outcome = "partial" -> left /\ c.source \in News \ Ibkr
      [] outcome = "failed" -> Resumes(c)
      [] OTHER -> FALSE

Collect(j) ==
    /\ slot[j].pc = "collect"
    /\ IF slot[j].trigger = "session"
       THEN Leave(j)
       ELSE \E outcome \in Outcomes(slot[j]), left \in BOOLEAN :
              slot' = [slot EXCEPT ![j].pc = "record", ![j].outcome = outcome,
                                   ![j].cont = Continuation(slot[j], outcome, left)]
    /\ UNCHANGED <<locks, durable, runtime, counters>>

\* record_outcome overwrites the row, best effort
Record(j) ==
    LET c == slot[j] IN
    /\ c.pc = "record"
    /\ \/ /\ row' = [row EXCEPT ![c.source] = [status |-> c.outcome, cont |-> c.cont]]
          /\ UNCHANGED <<abandoned, faults>>
       \/ /\ faults < MaxFaults /\ faults' = faults + 1
          /\ abandoned' = abandoned \cup {c.source}
          /\ UNCHANGED row
    /\ Leave(j)
    /\ UNCHANGED <<locks, runtime, lives, manual>>

\* the finally block: every lock this call holds, innermost first
Drop(holder, j) == IF holder = j THEN Free ELSE holder
\* (mutant) the Gateway flock is released only by a call that has a source
ReleaseKeepingGateway(j) ==
    /\ slot[j].pc = "release"
    /\ gateFile' = IF slot[j].trigger = "session" THEN gateFile ELSE Drop(gateFile, j)
    /\ gateLock' = [p \in Procs |-> Drop(gateLock[p], j)]
    /\ macroLease' = Drop(macroLease, j)
    /\ sourceFile' = [s \in Sources |-> Drop(sourceFile[s], j)]
    /\ sourceLock' = [p \in Procs |-> [s \in Sources |-> Drop(sourceLock[p][s], j)]]
    /\ slot' = [slot EXCEPT ![j] = Idle]
    /\ UNCHANGED <<durable, runtime, counters>>
Release(j) ==
    /\ slot[j].pc = "release"
    /\ gateFile' = Drop(gateFile, j)
    /\ gateLock' = [p \in Procs |-> Drop(gateLock[p], j)]
    /\ macroLease' = Drop(macroLease, j)
    /\ sourceFile' = [s \in Sources |-> Drop(sourceFile[s], j)]
    /\ sourceLock' = [p \in Procs |-> [s \in Sources |-> Drop(sourceLock[p][s], j)]]
    /\ slot' = [slot EXCEPT ![j] = Idle]
    /\ UNCHANGED <<durable, runtime, counters>>

(***************************************************************************)
(* Process death: the kernel drops the flocks, the thread locks die with    *)
(* the process; an IBKR worker subprocess is not killed with its parent.    *)
(***************************************************************************)
HasWorker(c) ==
    /\ c.pc = "collect" /\ c.source \in Ibkr
    /\ c.source \in News => c.route = "normalized" /\ ~Resumes(c)

Die(S) ==
    LET gone(holder) == IF holder \in S THEN Free ELSE holder IN
    /\ slot' = [j \in Slots |-> IF j \in S THEN Idle ELSE slot[j]]
    /\ sourceLock' = [p \in Procs |-> [s \in Sources |-> gone(sourceLock[p][s])]]
    /\ sourceFile' = [s \in Sources |-> gone(sourceFile[s])]
    /\ macroLease' = gone(macroLease)
    /\ gateLock' = [p \in Procs |-> gone(gateLock[p])]
    /\ gateFile' = gone(gateFile)
    /\ abandoned' = abandoned \cup
          {slot[j].source : j \in {i \in S : slot[i].pc \in {"collect", "record"} /\ slot[i].source # NoSource}}
    /\ orphans' = orphans \cup {slot[j].source : j \in {i \in S : HasWorker(slot[i])}}

SidecarDies ==
    /\ up /\ up' = FALSE
    /\ lives < MaxLives
    /\ Die(SidecarSlots)
    /\ UNCHANGED <<row, age, counters>>

CliDies ==
    /\ \E j \in CliSlots : slot[j].pc # "idle"
    /\ faults < MaxFaults /\ faults' = faults + 1
    /\ Die(CliSlots)
    /\ UNCHANGED <<row, age, up, lives, manual>>

OrphanEnds(s) ==
    /\ s \in orphans
    /\ orphans' = orphans \ {s}
    /\ UNCHANGED <<slot, locks, durable, age, up, counters>>

\* every running row is terminalized and its continuation cleared
ReconcileInterruptedRunning ==
    row' = [s \in Sources |-> IF row[s].status = "running"
                              THEN [row[s] EXCEPT !.status = "failed", !.cont = FALSE]
                              ELSE row[s]]

\* lifespan: reconcile_interrupted_runtime_state, then the supervisor's
\* _seed_last_attempts restores how long ago each attempt was
SidecarBoots ==
    /\ ~up /\ up' = TRUE
    /\ lives' = lives + 1
    /\ ReconcileInterruptedRunning
    /\ age' \in [Sources -> 0..Interval]
    /\ UNCHANGED <<slot, locks, abandoned, orphans, faults, manual>>

CallStep(j) ==
    \/ LockSource(j) \/ FlockSource(j) \/ LeaseMacro(j) \/ Gate(j)
    \/ GateThread(j) \/ GateFile(j)
    \/ Attempt(j) \/ RepairSkipped(j) \/ Collect(j) \/ Record(j) \/ Release(j)

Next ==
    \/ \E j \in Slots : CallStep(j)
    \/ \E j \in Slots, s \in Sources : Manual(j, s)
    \/ \E j \in Slots : Session(j)
    \/ Tick
    \/ SidecarDies \/ SidecarBoots \/ CliDies
    \/ \E s \in Sources : OrphanEnds(s)

Spec == Init /\ [][Next]_vars

(***************************************************************************)
(* Properties.                                                              *)
(***************************************************************************)
Fenced == {"macro", "gate", "gateThread", "gateFile", "attempt", "collect", "record", "release"}
InSession(j) ==
    /\ slot[j].pc \in {"attempt", "collect", "record"}
    /\ slot[j].source \in Ibkr \/ slot[j].trigger = "session"

\* The same source is never executed twice at a time, by ticks, Run now and the CLI
\* together, although each process only sees its own thread locks (run_source).
SourceExclusive ==
    \A i, j \in Slots :
        slot[i].pc \in Fenced /\ slot[j].pc \in Fenced /\ slot[i].source = slot[j].source
        /\ slot[i].source # NoSource => i = j

\* At most one call of either process is inside a Gateway session.
GatewayExclusive == \A i, j \in Slots : InSession(i) /\ InSession(j) => i = j

\* At most one call of either process writes macro_calendar.db, whichever macro
\* sources the two processes picked (macro_calendar_writer).
MacroExclusive ==
    \A i, j \in Slots :
        /\ slot[i].source \in Macro /\ slot[i].pc \in Fenced \ {"macro"}
        /\ slot[j].source \in Macro /\ slot[j].pc \in Fenced \ {"macro"}
        => i = j

SourceLocksOwned ==
    \A j \in Slots, p \in Procs, s \in Sources : sourceLock[p][s] = j =>
        ProcOf(j) = p /\ slot[j].source = s /\ slot[j].pc \in Fenced \cup {"flock"}
SourceFilesOwned ==
    \A j \in Slots, s \in Sources : sourceFile[s] = j =>
        sourceLock[ProcOf(j)][s] = j /\ slot[j].pc \in Fenced
MacroLeaseOwned ==
    \A j \in Slots : macroLease = j => slot[j].source \in Macro /\ slot[j].pc \in Fenced \ {"macro"}
GateLocksOwned ==
    \A j \in Slots, p \in Procs : gateLock[p] = j =>
        ProcOf(j) = p /\ slot[j].pc \in {"gateFile", "attempt", "collect", "record", "release"}
GateFileOwned ==
    \A j \in Slots : gateFile = j =>
        gateLock[ProcOf(j)] = j /\ slot[j].pc \in {"attempt", "collect", "record", "release"}

\* No lock outlives its call or its process, on any skip, timeout, busy or crash path,
\* and a file lock is only held together with its thread twin: nothing is wedged.
LocksOwned ==
    SourceLocksOwned /\ SourceFilesOwned /\ MacroLeaseOwned /\ GateLocksOwned /\ GateFileOwned

\* A row says running only while a run is in flight, or after one was killed or could
\* not record its outcome: a skip at any gate leaves the earlier outcome visible.
RunningIsExplained ==
    \A s \in Sources : row[s].status = "running" =>
        s \in abandoned \/ \E j \in Slots : slot[j].source = s /\ slot[j].pc \in {"collect", "record"}

\* The snapshot of the saved scope that a call took at its gate is still true when the
\* run starts, though runs of both processes rewrite the row: no run starts knowing of a
\* scope that is gone or ignoring one that was saved since, and an unattended one starts
\* over no saved scope (pending_cont, record_attempt).  A call whose state read failed
\* knows of none and is excepted.
SnapshotFresh ==
    \A j \in Slots : slot[j].pc = "attempt" /\ ~slot[j].blind =>
        /\ slot[j].pending = PendingContinuation(slot[j].source)
        /\ Unattended(slot[j]) => ~PendingContinuation(slot[j].source)

\* "One TWS/Gateway session total": a collecting call is alone at the Gateway, worker
\* processes included.
OneGatewaySession ==
    \A j \in Slots : HasWorker(slot[j]) \/ (slot[j].trigger = "session" /\ slot[j].pc = "collect") =>
        orphans = {}

\* "The scheduler must not auto-resume it; only a manual trigger processes it": a saved
\* continuation is not run over by an unattended normalized collection.
AttendedScope ==
    [][\A j \in SidecarSlots :
          slot[j].pc = "attempt" /\ slot'[j].pc = "collect" /\ slot[j].trigger = "scheduler"
          /\ slot[j].route = "normalized" => ~row[slot[j].source].cont]_vars

(***************************************************************************)
(* Fairness: the supervisor keeps ticking, a thread that can step does, and *)
(* providers answer (the price worker has no timeout of its own).           *)
(***************************************************************************)
FairSpec == Spec /\ WF_vars(Tick) /\ \A j \in Slots : WF_vars(CallStep(j))

\* An enabled source that comes due is attempted, behind any number of other due
\* writers, long runs and manual calls (tick_once, run_source).
DueIsAttempted ==
    \A s \in Enabled \cap Configured : age[s] = Interval ~> age[s] < Interval
=============================================================================
