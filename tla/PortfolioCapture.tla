--------------------------- MODULE PortfolioCapture ---------------------------
(****************************************************************************)
(* Portfolio capture (src/src/portfolio_capture.py, portfolio_observations.py,*)
(* portfolio_ibkr.py): a run reads the broker, commits what it saw and copies  *)
(* the positions of the accounts in ibkr_auto mode into the canonical tables; *)
(* the user applies the latest reviewable run to the accounts in ibkr_review. *)
(*                                                                           *)
(* Each process has one thread lock; all processes share one file lock.  The *)
(* thread that triggers a capture takes both, writes the run row and hands    *)
(* the locks to a worker thread, which releases them.  A process that boots   *)
(* marks the runs left "running" as interrupted, under the same two locks.    *)
(* Every step is one lock operation, one broker call or one transaction; a    *)
(* process may die between any two, and a transaction may fail.               *)
(*                                                                           *)
(* The broker gateway's lock is the environment's: it is free or it is busy.  *)
(****************************************************************************)
EXTENDS Integers, FiniteSets

CONSTANTS
    Processes,  \* sidecars and CLI processes over one profile database
    Callers,    \* threads that call the service
    Host,       \* the process of each caller
    Accounts,   \* broker accounts
    MaxRuns,    \* bound: run rows
    MaxEdits,   \* bound: changes of an account's settings
    MaxFaults,  \* bound: failed writes
    MaxCrashes, \* bound: process deaths
    None

ASSUME HostAssumption == Host \in [Callers -> Processes]
ASSUME BoundsAssumption == {MaxRuns, MaxEdits, MaxFaults, MaxCrashes} \subseteq Nat
ASSUME NoneAssumption == None \notin Processes

VARIABLES
    runs,       \* portfolio_capture_runs
    last,       \* id of the newest row
    mode,       \* sync_mode of each account
    archived,   \* archived_at is set
    canon,      \* the run whose positions an account's canonical rows hold
    boot,       \* how far each process is with its startup
    threadLock, \* _capture_lock of each process is held
    fileLock,   \* process that holds the portfolio_capture flock, or None
    caller,     \* where each caller is
    worker,     \* where the worker thread of each process is
    edits, faults, crashes

rows == <<runs, last>>
settings == <<mode, archived, edits>>
locks == <<threadLock, fileLock>>
vars == <<rows, settings, canon, boot, locks, caller, worker, faults, crashes>>

RunIds == 1 .. MaxRuns
Terminal == {"succeeded", "partial", "failed", "blocked", "interrupted"}
Absent == [state |-> "absent", complete |-> FALSE, seen |-> {}]

BootSteps == {"down", "claimed", "up"}
CallerSteps == {"idle", "locked", "claimed", "created", "handed", "review",
                "accepted", "copying"}
WorkerSteps == {"none", "gateway", "read", "committed", "copying",
                "finishing", "failing", "releasing"}

CallerIdle == [pc |-> "idle", run |-> 0, left |-> {}]
WorkerNone == [pc |-> "none", run |-> 0, complete |-> FALSE, seen |-> {},
               left |-> {}, outcome |-> "failed"]

Init ==
    /\ runs = [r \in RunIds |-> Absent]
    /\ last = 0
    /\ mode = [a \in Accounts |-> "review"]  \* as commit_capture adds an account
    /\ archived = [a \in Accounts |-> FALSE]
    /\ canon = [a \in Accounts |-> 0]
    /\ boot = [p \in Processes |-> "down"]
    /\ threadLock = [p \in Processes |-> FALSE]
    /\ fileLock = None
    /\ caller = [c \in Callers |-> CallerIdle]
    /\ worker = [p \in Processes |-> WorkerNone]
    /\ edits = 0 /\ faults = 0 /\ crashes = 0

-----------------------------------------------------------------------------
(* The two locks.  Neither is waited for.                                    *)

LockThread(p) == ~threadLock[p] /\ threadLock' = [threadLock EXCEPT ![p] = TRUE]

LockFile(p) == fileLock = None /\ fileLock' = p

\* _release_capture_ownership
Release(p, processHeld) ==
    /\ threadLock' = [threadLock EXCEPT ![p] = FALSE]
    /\ fileLock' = IF processHeld THEN None ELSE fileLock

WriteFails == faults < MaxFaults /\ faults' = faults + 1

\* A row gets a state.
SetState(r, state) == runs' = [runs EXCEPT ![r] = [@ EXCEPT !.state = state]]

\* finish_run refuses a row that is not running.
FinishRun(r, state) ==
    /\ runs[r].state = "running"
    /\ SetState(r, state)
    /\ UNCHANGED last

-----------------------------------------------------------------------------
(* Startup: reconcile_startup, then the service is open to callers.  When the  *)
(* reconciliation raises the process does not come up, which is a Crash.      *)

\* Mutant: the reconciliation does not wait for the file lock.
BootClaimsAlways(p) ==
    /\ boot[p] = "down"
    /\ LockThread(p)
    /\ fileLock' = p
    /\ boot' = [boot EXCEPT ![p] = "claimed"]
    /\ UNCHANGED <<rows, settings, canon, caller, worker, faults, crashes>>

\* No other thread of the process exists yet: its thread lock is free.
BootClaims(p) ==
    /\ boot[p] = "down"
    /\ LockThread(p)
    /\ LockFile(p)
    /\ boot' = [boot EXCEPT ![p] = "claimed"]
    /\ UNCHANGED <<rows, settings, canon, caller, worker, faults, crashes>>

\* Another process captures: nothing is reconciled.
BootSkips(p) ==
    /\ boot[p] = "down"
    /\ fileLock # None
    /\ boot' = [boot EXCEPT ![p] = "up"]
    /\ UNCHANGED <<rows, settings, canon, locks, caller, worker, faults, crashes>>

\* reconcile_interrupted
Interrupted == [r \in RunIds |-> IF runs[r].state = "running"
                                   THEN [runs[r] EXCEPT !.state = "interrupted"]
                                   ELSE runs[r]]

Reconcile(p) ==
    /\ boot[p] = "claimed"
    /\ runs' = Interrupted
    /\ Release(p, TRUE)
    /\ boot' = [boot EXCEPT ![p] = "up"]
    /\ UNCHANGED <<last, settings, canon, caller, worker, faults, crashes>>

-----------------------------------------------------------------------------
(* trigger                                                                   *)

WorkerBecomes(p, new) == worker' = [worker EXCEPT ![p] = new]
CallerBecomes(c, new) == caller' = [caller EXCEPT ![c] = new]
CallerGo(c, pc) == CallerBecomes(c, [caller[c] EXCEPT !.pc = pc])
CallerLeaves(c) == CallerBecomes(c, CallerIdle)

\* Callers that may still write a row; with `last' they bound the rows.
Creating == {c \in Callers : caller[c].pc \in {"locked", "claimed"}}

\* trigger, by a route or by scheduler_tick when a capture is due.
Trigger(c) ==
    /\ boot[Host[c]] = "up"
    /\ caller[c].pc = "idle"
    /\ last + Cardinality(Creating) < MaxRuns
    /\ LockThread(Host[c])
    /\ CallerGo(c, "locked")
    /\ UNCHANGED <<rows, settings, canon, boot, fileLock, worker, faults, crashes>>

\* The write is not permitted, the provider is not configured (which leaves a
\* blocked row) or another process captures.
TriggerRefused(c) ==
    /\ caller[c].pc = "locked"
    /\ \/ UNCHANGED rows
       \/ /\ last < MaxRuns
          /\ last' = last + 1
          /\ SetState(last + 1, "blocked")
    /\ Release(Host[c], FALSE)
    /\ CallerLeaves(c)
    /\ UNCHANGED <<settings, canon, boot, worker, faults, crashes>>

Claim(c) ==
    /\ caller[c].pc = "locked"
    /\ LockFile(Host[c])
    /\ CallerGo(c, "claimed")
    /\ UNCHANGED <<rows, settings, canon, boot, threadLock, worker, faults, crashes>>

CreateRun(c) ==
    /\ caller[c].pc = "claimed"
    /\ last < MaxRuns  \* Trigger has left room
    /\ last' = last + 1
    /\ SetState(last + 1, "running")
    /\ CallerBecomes(c, [caller[c] EXCEPT !.pc = "created", !.run = last + 1])
    /\ UNCHANGED <<settings, canon, boot, locks, worker, faults, crashes>>

CreateRunFails(c) ==
    /\ caller[c].pc = "claimed"
    /\ WriteFails
    /\ Release(Host[c], TRUE)
    /\ CallerLeaves(c)
    /\ UNCHANGED <<rows, settings, canon, boot, worker, crashes>>

\* The worker owns the locks from here; the caller only returns.
StartWorker(c) ==
    /\ caller[c].pc = "created"
    /\ WorkerBecomes(Host[c], [WorkerNone EXCEPT !.pc = "gateway", !.run = caller[c].run])
    /\ CallerGo(c, "handed")
    /\ UNCHANGED <<rows, settings, canon, boot, locks, faults, crashes>>

\* Mutant: the thread cannot be started and the row is forgotten.
StartFailsSilently(c) ==
    /\ caller[c].pc = "created"
    /\ Release(Host[c], TRUE)
    /\ CallerLeaves(c)
    /\ UNCHANGED <<rows, settings, canon, boot, worker, faults, crashes>>

\* The thread cannot be started: the row is finished, if that can be written.
StartFails(c) ==
    /\ caller[c].pc = "created"
    /\ \/ FinishRun(caller[c].run, "failed") /\ UNCHANGED faults
       \/ WriteFails /\ UNCHANGED rows
    /\ Release(Host[c], TRUE)
    /\ CallerLeaves(c)
    /\ UNCHANGED <<settings, canon, boot, worker, crashes>>

\* Mutant: the caller's finally clause releases what it handed over.
ReturnReleasing(c) ==
    /\ caller[c].pc = "handed"
    /\ Release(Host[c], TRUE)
    /\ CallerLeaves(c)
    /\ UNCHANGED <<rows, settings, canon, boot, worker, faults, crashes>>

Return(c) ==
    /\ caller[c].pc = "handed"
    /\ CallerLeaves(c)
    /\ UNCHANGED <<rows, settings, canon, boot, locks, worker, faults, crashes>>

-----------------------------------------------------------------------------
(* _execute, on the worker thread                                            *)

WorkerGo(p, pc) == WorkerBecomes(p, [worker[p] EXCEPT !.pc = pc])

\* The terminal state the worker has decided on is written; if that fails the
\* outer handler writes "failed", except for a busy gateway, whose own handler
\* the exception leaves.
Decide(p, outcome) ==
    WorkerBecomes(p, [WorkerNone EXCEPT !.pc = "finishing", !.run = worker[p].run,
                                        !.outcome = outcome])

GatewayBusy(p) ==
    /\ worker[p].pc = "gateway"
    /\ Decide(p, "blocked")
    /\ UNCHANGED <<rows, settings, canon, boot, locks, caller, faults, crashes>>

\* The gateway is free and the broker answers: whether the position leg is
\* complete and, if it is, which accounts it shows.
Read(p) ==
    /\ worker[p].pc = "gateway"
    /\ \E complete \in BOOLEAN :
       \E seen \in (IF complete THEN SUBSET Accounts ELSE {{}}) :
         WorkerBecomes(p, [worker[p] EXCEPT !.pc = "read", !.seen = seen,
                                            !.complete = complete])
    /\ UNCHANGED <<rows, settings, canon, boot, locks, caller, faults, crashes>>

ReadFails(p) ==
    /\ worker[p].pc = "gateway"
    /\ Decide(p, "failed")
    /\ UNCHANGED <<rows, settings, canon, boot, locks, caller, faults, crashes>>

\* commit_capture: one transaction, refused when the row is not running.
Commit(p) ==
    /\ worker[p].pc = "read"
    /\ runs[worker[p].run].state = "running"
    /\ runs' = [runs EXCEPT ![worker[p].run] =
                   [@ EXCEPT !.complete = worker[p].complete, !.seen = worker[p].seen]]
    /\ WorkerGo(p, "committed")
    /\ UNCHANGED <<last, settings, canon, boot, locks, caller, faults, crashes>>

CommitFails(p) ==
    /\ worker[p].pc = "read"
    /\ WriteFails
    /\ Decide(p, "failed")
    /\ UNCHANGED <<rows, settings, canon, boot, locks, caller, crashes>>

\* _snapshot_for_mode: the accounts in auto mode now, archived ones included.
SelectAuto(p) ==
    /\ worker[p].pc = "committed"
    /\ LET auto == IF worker[p].complete
                      THEN {a \in worker[p].seen : mode[a] = "auto"}
                      ELSE {}
       IN WorkerBecomes(p, [worker[p] EXCEPT !.pc = "copying", !.seen = {}, !.left = auto])
    /\ UNCHANGED <<rows, settings, canon, boot, locks, caller, faults, crashes>>

\* apply_broker_positions: one transaction per account.
Copy(p) ==
    /\ worker[p].pc = "copying"
    /\ \E a \in worker[p].left :
         /\ canon' = [canon EXCEPT ![a] = worker[p].run]
         /\ WorkerBecomes(p, [worker[p] EXCEPT !.left = @ \ {a}])
    /\ UNCHANGED <<rows, settings, boot, locks, caller, faults, crashes>>

CopyFails(p) ==
    /\ worker[p].pc = "copying"
    /\ worker[p].left # {}
    /\ WriteFails
    /\ Decide(p, "partial")
    /\ UNCHANGED <<rows, settings, canon, boot, locks, caller, crashes>>

\* _terminal_result, of the legs and of conflicts among executions.
Conclude(p) ==
    /\ worker[p].pc = "copying"
    /\ worker[p].left = {}
    /\ \E outcome \in (IF worker[p].complete THEN {"succeeded", "partial"}
                                             ELSE {"partial", "failed"}) :
         Decide(p, outcome)
    /\ UNCHANGED <<rows, settings, canon, boot, locks, caller, faults, crashes>>

Finish(p) ==
    /\ worker[p].pc = "finishing"
    /\ FinishRun(worker[p].run, worker[p].outcome)
    /\ WorkerGo(p, "releasing")
    /\ UNCHANGED <<settings, canon, boot, locks, caller, faults, crashes>>

FinishFails(p) ==
    /\ worker[p].pc = "finishing"
    /\ WriteFails
    /\ WorkerGo(p, IF worker[p].outcome = "blocked" THEN "releasing" ELSE "failing")
    /\ UNCHANGED <<rows, settings, canon, boot, locks, caller, crashes>>

\* Mutant: the handler's own failure ends the thread before the locks are back.
FinishFailedDying(p) ==
    /\ worker[p].pc = "failing"
    /\ \/ /\ FinishRun(worker[p].run, "failed") /\ UNCHANGED faults
          /\ WorkerGo(p, "releasing")
       \/ /\ WriteFails /\ UNCHANGED rows
          /\ WorkerBecomes(p, WorkerNone)
    /\ UNCHANGED <<settings, canon, boot, locks, caller, crashes>>

\* The outer handler; when this write fails too the row stays running.
FinishFailed(p) ==
    /\ worker[p].pc = "failing"
    /\ \/ FinishRun(worker[p].run, "failed") /\ UNCHANGED faults
       \/ WriteFails /\ UNCHANGED rows
    /\ WorkerGo(p, "releasing")
    /\ UNCHANGED <<settings, canon, boot, locks, caller, crashes>>

WorkerReleases(p) ==
    /\ worker[p].pc = "releasing"
    /\ Release(p, TRUE)
    /\ WorkerBecomes(p, WorkerNone)
    /\ UNCHANGED <<rows, settings, canon, boot, caller, faults, crashes>>

-----------------------------------------------------------------------------
(* The user: review, and account settings                                    *)

\* latest_reviewable_run_id, or 0
Reviewable(r) == /\ runs[r].complete
                 /\ \E a \in runs[r].seen : mode[a] = "review" /\ ~archived[a]

LatestReviewable == {r \in RunIds : Reviewable(r) /\ \A s \in RunIds :
                                        Reviewable(s) => s <= r}

\* apply_review_run: the thread lock, then the file lock.
Review(c) ==
    /\ boot[Host[c]] = "up"
    /\ caller[c].pc = "idle"
    /\ \E r \in 1 .. last :
         /\ LockThread(Host[c])
         /\ CallerBecomes(c, [caller[c] EXCEPT !.pc = "review", !.run = r])
    /\ UNCHANGED <<rows, settings, canon, boot, fileLock, worker, faults, crashes>>

ReviewBusy(c) ==
    /\ caller[c].pc = "review"
    /\ fileLock # None
    /\ Release(Host[c], FALSE)
    /\ CallerLeaves(c)
    /\ UNCHANGED <<rows, settings, canon, boot, worker, faults, crashes>>

\* Mutant: any complete run may be applied.
ReviewableChoice(r) == runs[r].complete

\* The run asked for is still the latest reviewable one.
ReviewChoice(r) == runs[r].complete /\ r \in LatestReviewable

ReviewClaims(c) ==
    /\ caller[c].pc = "review"
    /\ LockFile(Host[c])
    /\ IF ReviewChoice(caller[c].run) THEN CallerGo(c, "accepted")
                                       ELSE CallerGo(c, "copying")
    /\ UNCHANGED <<rows, settings, canon, boot, threadLock, worker, faults, crashes>>

\* _snapshot_for_mode, a read of its own: the accounts in review mode by now,
\* archived ones included.
ReviewSelects(c) ==
    /\ caller[c].pc = "accepted"
    /\ LET due == {a \in runs[caller[c].run].seen : mode[a] = "review"}
       IN CallerBecomes(c, [caller[c] EXCEPT !.pc = "copying", !.left = due])
    /\ UNCHANGED <<rows, settings, canon, boot, locks, worker, faults, crashes>>

ReviewCopies(c) ==
    /\ caller[c].pc = "copying"
    /\ \E a \in caller[c].left :
         /\ canon' = [canon EXCEPT ![a] = caller[c].run]
         /\ CallerBecomes(c, [caller[c] EXCEPT !.left = @ \ {a}])
    /\ UNCHANGED <<rows, settings, boot, locks, worker, faults, crashes>>

ReviewEnds(c) ==
    /\ caller[c].pc = "copying"
    /\ \/ caller[c].left = {} /\ UNCHANGED faults
       \/ caller[c].left # {} /\ WriteFails
    /\ Release(Host[c], TRUE)
    /\ CallerLeaves(c)
    /\ UNCHANGED <<rows, settings, canon, boot, worker, crashes>>

\* update_account, at any time
Edit == edits < MaxEdits /\ edits' = edits + 1

SetMode(a) ==
    /\ Edit
    /\ mode' = [mode EXCEPT ![a] = IF @ = "auto" THEN "review" ELSE "auto"]
    /\ UNCHANGED <<rows, archived, canon, boot, locks, caller, worker, faults, crashes>>

SetArchived(a) ==
    /\ Edit
    /\ archived' = [archived EXCEPT ![a] = ~@]
    /\ UNCHANGED <<rows, mode, canon, boot, locks, caller, worker, faults, crashes>>

-----------------------------------------------------------------------------
\* A process dies; the kernel drops its flock.
Crash(p) ==
    /\ boot[p] # "down"
    /\ crashes < MaxCrashes
    /\ crashes' = crashes + 1
    /\ boot' = [boot EXCEPT ![p] = "down"]
    /\ threadLock' = [threadLock EXCEPT ![p] = FALSE]
    /\ fileLock' = IF fileLock = p THEN None ELSE fileLock
    /\ caller' = [c \in Callers |-> IF Host[c] = p THEN CallerIdle ELSE caller[c]]
    /\ WorkerBecomes(p, WorkerNone)
    /\ UNCHANGED <<rows, settings, canon, faults>>

BootStep(p) == BootClaims(p) \/ BootSkips(p) \/ Reconcile(p)

CallerStep(c) == \/ TriggerRefused(c) \/ Claim(c) \/ CreateRun(c)
                 \/ CreateRunFails(c) \/ StartWorker(c) \/ StartFails(c) \/ Return(c)
                 \/ ReviewBusy(c) \/ ReviewClaims(c) \/ ReviewSelects(c)
                 \/ ReviewCopies(c) \/ ReviewEnds(c)

WorkerStep(p) == \/ GatewayBusy(p) \/ Read(p) \/ ReadFails(p)
                 \/ Commit(p) \/ CommitFails(p) \/ SelectAuto(p) \/ Copy(p)
                 \/ CopyFails(p) \/ Conclude(p) \/ Finish(p) \/ FinishFails(p)
                 \/ FinishFailed(p) \/ WorkerReleases(p)

Next == \/ \E p \in Processes : BootStep(p) \/ WorkerStep(p) \/ Crash(p)
        \/ \E c \in Callers : Trigger(c) \/ Review(c) \/ CallerStep(c)
        \/ \E a \in Accounts : SetMode(a) \/ SetArchived(a)

Spec == Init /\ [][Next]_vars

\* Threads run: a started call, worker or boot goes on.  Nothing else is fair.
FairSpec == /\ Spec
            /\ \A p \in Processes : WF_vars(BootStep(p)) /\ WF_vars(WorkerStep(p))
            /\ \A c \in Callers : WF_vars(CallerStep(c))

-----------------------------------------------------------------------------
(* Properties *)

RunType == [state : Terminal \cup {"absent", "running"}, complete : BOOLEAN,
            seen : SUBSET Accounts]
CallerType == [pc : CallerSteps, run : 0 .. MaxRuns, left : SUBSET Accounts]
WorkerType == [pc : WorkerSteps, run : 0 .. MaxRuns, complete : BOOLEAN,
               seen : SUBSET Accounts, left : SUBSET Accounts, outcome : Terminal]

\* Every table, lock and thread keeps its type.
TypeOK ==
    /\ runs \in [RunIds -> RunType]
    /\ last \in 0 .. MaxRuns
    /\ mode \in [Accounts -> {"auto", "review"}]
    /\ archived \in [Accounts -> BOOLEAN]
    /\ canon \in [Accounts -> 0 .. MaxRuns]
    /\ boot \in [Processes -> BootSteps]
    /\ threadLock \in [Processes -> BOOLEAN]
    /\ fileLock \in Processes \cup {None}
    /\ caller \in [Callers -> CallerType]
    /\ worker \in [Processes -> WorkerType]
    /\ edits \in 0 .. MaxEdits /\ faults \in 0 .. MaxFaults
    /\ crashes \in 0 .. MaxCrashes

CallersIn(p, steps) == {c \in Callers : Host[c] = p /\ caller[c].pc \in steps}

Others(p) == (IF worker[p].pc # "none" THEN {<<"worker", p>>} ELSE {})
             \cup (IF boot[p] = "claimed" THEN {<<"boot", p>>} ELSE {})

\* The threads of p that believe they hold its thread lock ...
ThreadOwners(p) ==
    {<<"caller", c>> : c \in CallersIn(p, CallerSteps \ {"idle", "handed"})} \cup Others(p)

\* ... and those that hold the file lock for it.
FileOwners(p) ==
    {<<"caller", c>> : c \in CallersIn(p, {"claimed", "created", "accepted", "copying"})}
      \cup Others(p)

\* The two locks change hands without being lost or released twice
\* (portfolio_capture.py:154-227, 539): a lock is held exactly when exactly one
\* thread is responsible for releasing it, through every early return, failed
\* write and failed thread start, and between the caller and its worker.
LocksOwned ==
    \A p \in Processes :
        /\ threadLock[p] <=> ThreadOwners(p) # {}
        /\ fileLock = p <=> FileOwners(p) # {}
        /\ \A a, b \in ThreadOwners(p) : a = b

\* A run somebody is working on is never declared interrupted, whichever process
\* boots meanwhile (portfolio_capture.py:267, portfolio_observations.py:687).
LiveRunIsRunning ==
    /\ \A p \in Processes :
          worker[p].pc \notin {"none", "releasing"}
            => runs[worker[p].run].state = "running"
    /\ \A c \in Callers :
          caller[c].pc = "created" => runs[caller[c].run].state = "running"

Live(r) == \/ \E p \in Processes : worker[p].pc # "none" /\ worker[p].run = r
           \/ \E c \in Callers : caller[c].pc = "created" /\ caller[c].run = r

\* A row is left running with nobody working on it only by a failed write or the
\* death of a process, and each of those leaves at most one
\* (portfolio_capture.py:192-217, 296-376).
StrandedByFailure ==
    Cardinality({r \in RunIds : runs[r].state = "running" /\ ~Live(r)})
      <= faults + crashes

\* A capture never replaces an account's positions by older ones, although the
\* captures of two processes and the user's reviews share the canonical tables
\* (portfolio_capture.py:327).
CaptureNeverOlder ==
    [][\A p \in Processes : \A a \in worker[p].left \ worker'[p].left :
          canon'[a] = worker[p].run => canon[a] <= worker[p].run]_vars

\* While nobody changes an account's settings, no review takes an account back to
\* an older observation (portfolio_capture.py:237-265).  With changed settings it
\* can: latest_reviewable_run_id skips archived accounts and _snapshot_for_mode
\* does not, and the two read the settings one after the other.
ReviewNeverOlder ==
    [][\A a \in Accounts : edits > 0 \/ canon'[a] >= canon[a]]_vars

\* Under the fairness of the threads the ownership of a process always comes
\* back (portfolio_capture.py:225, 324): no failure leaves captures blocked.
LocksReleased == \A p \in Processes : threadLock[p] ~> ~threadLock[p]
=============================================================================
