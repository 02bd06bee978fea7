----------------------------- MODULE BodyRecovery -----------------------------
(***************************************************************************)
(* Recovery of missing Seeking Alpha article bodies: the native journal.    *)
(* A recovery job has one item per article (sa/article_body_recovery_jobs); *)
(* all browsers share one collector ledger with at most one reserved page   *)
(* task (sa/company_collector); article bodies live in another database     *)
(* (repair_article_body).  Every browser call is served by a native host    *)
(* process of its own, so each operation is one transaction, and a save is  *)
(* two: the reservation is read, then the body is compared and stored.      *)
(*                                                                          *)
(* The extension is external.  It calls in any order, repeats calls whose   *)
(* answer it lost, calls with an old revision, and may die while it holds a *)
(* reservation, which is then simply not used again.  Refused calls change  *)
(* nothing and have no action.  Deadlines are blocks that pass.             *)
(***************************************************************************)
EXTENDS Naturals, FiniteSets

CONSTANTS
    Clients,       \* browser installations
    LastArticle,   \* articles 1..LastArticle, in the order of a manifest
    Jobs, Tasks,   \* request ids of starts and of page tasks
    None,
    MaxOutside     \* bound on changes of the collecting browser and of bodies by
                   \* other collection paths, together

Articles == 1..LastArticle

ASSUME RecoveryAssumption ==
    /\ LastArticle \in Nat \ {0}
    /\ None \notin Clients \cup Jobs \cup Tasks \cup Articles
    /\ MaxOutside \in Nat

VARIABLES
    owner, gen,    \* the collecting browser and its generation
    active,        \* the reserved task
    blocks,        \* what keeps body repair from opening pages
    task,          \* the task ledger
    job,           \* the recovery journal
    body,          \* what the article store holds
    saving,        \* tasks with a save that has read its reservation
    stored,        \* tasks that stored a body while reserved (history)
    outside        \* how often the browser or a body was changed from outside

collector == <<owner, gen, active, blocks, task>>
articles == <<body, saving, stored>>
vars == <<collector, job, articles, outside>>

Settled == {"complete", "partial", "cancelled"}
JobStates == {"absent", "pending", "running", "waiting", "paused", "cancelling"} \cup Settled
ItemStates == {"none", "pending", "running", "saved", "skipped", "failed"}
Results == {"ok", "error", "partial", "cancelled", "deferred"}
Bodies == {"bad", "changed", "available"}
\* a rate limit, a pause of the site or of Alpha Picks, the gap between pages
Blocks == {"limited", "paused", "pacing"}

\* a task of no job is one of company financials, in the same collector
Task == [state : {"none", "active"} \cup Results, client : Clients \cup {None}, gen : Nat,
         job : Jobs \cup {None}, article : Articles \cup {None}, rev : Nat,
         reported : BOOLEAN, restricted : BOOLEAN, navigated : BOOLEAN]
NoTask == [state |-> "none", client |-> None, gen |-> 0, job |-> None, article |-> None, rev |-> 0,
           reported |-> FALSE, restricted |-> FALSE, navigated |-> FALSE]
\* want: the body that the job was asked to replace
Job == [state : JobStates, rev : Nat, owner : Clients \cup {None}, gen : Nat,
        item : [Articles -> ItemStates], by : [Articles -> Tasks \cup {None}],
        want : [Articles -> Bodies]]
NoJob == [state |-> "absent", rev |-> 0, owner |-> None, gen |-> 0,
          item |-> [a \in Articles |-> "none"], by |-> [a \in Articles |-> None],
          want |-> [a \in Articles |-> "bad"]]

TypeOK ==
    /\ owner \in Clients /\ gen \in Nat
    /\ active \in Tasks \cup {None}
    /\ blocks \subseteq Blocks
    /\ task \in [Tasks -> Task]
    /\ job \in [Jobs -> Job]
    /\ body \in [Articles -> Bodies]
    /\ saving \subseteq Tasks /\ stored \subseteq Tasks
    /\ outside \in 0..MaxOutside

Init ==
    /\ owner \in Clients /\ gen = 1
    /\ active = None /\ blocks = {}
    /\ task = [t \in Tasks |-> NoTask]
    /\ job = [j \in Jobs |-> NoJob]
    /\ body = [a \in Articles |-> "bad"]
    /\ saving = {} /\ stored = {}
    /\ outside = 0

-----------------------------------------------------------------------------
(* The journal *)

Live(b) == b.state \notin Settled \cup {"absent"}
Cancelling(b) == b.state \in {"cancelling", "cancelled"}
HasRunning(b) == \E a \in Articles : b.item[a] = "running"
OwnJob(c, b) == owner = c /\ b.owner = c /\ b.gen = gen

\* _blocked; a rate limit has a deadline and outweighs a pause, which has none
Blocked == blocks # {}
Paused == "paused" \in blocks /\ "limited" \notin blocks

\* what a manifest may list: any articles without a body, as settings and scope say
Manifests == SUBSET {a \in Articles : body[a] # "available"}
IsTarget(b, a, manifest) == a \in manifest /\ body[a] = b.want[a]

\* a task that ended without a body: again, not, or never to be had
Unsaved(t) ==
    IF t.restricted \/ t.state = "deferred" \/ (t.reported /\ Blocked) THEN "pending"
    ELSE IF t.state = "cancelled" THEN "skipped" ELSE "failed"

\* Mutant: a cancellation is looked at before the store.
OutcomeOfCancel(b, a) ==
    IF Cancelling(b) THEN "skipped"
    ELSE IF body[a] = "available" THEN "saved" ELSE Unsaved(task[b.by[a]])

\* the outcome of an item whose page task has ended
Outcome(b, a) ==
    IF body[a] = "available" THEN "saved"
    ELSE IF Cancelling(b) THEN "skipped" ELSE Unsaved(task[b.by[a]])

\* Mutant: a cancelled job does not wait for its page task.
ReconciledItemAtOnce(b, a) ==
    IF b.item[a] \in {"pending", "running"} /\ Cancelling(b) THEN "skipped"
    ELSE IF b.item[a] = "running" /\ task[b.by[a]].state # "active" THEN Outcome(b, a)
    ELSE b.item[a]

ReconciledItem(b, a) ==
    CASE b.item[a] = "running" /\ task[b.by[a]].state # "active" -> Outcome(b, a)
      [] b.item[a] = "pending" /\ Cancelling(b) -> "skipped"
      [] OTHER -> b.item[a]

Close(b) ==
    IF \E a \in Articles : b.item[a] \in {"pending", "running"} THEN b
    ELSE [b EXCEPT !.state = IF Cancelling(b) THEN "cancelled"
                             ELSE IF \E a \in Articles : b.item[a] = "failed" THEN "partial"
                             ELSE "complete"]

\* _reconcile
Reconciled(b) == Close([b EXCEPT !.item = [a \in Articles |-> ReconciledItem(b, a)]])

\* the pending articles up to the first that is still a target are skipped
Passed(b, manifest) ==
    {a \in Articles : b.item[a] = "pending" /\
        ~\E e \in 1..a : b.item[e] = "pending" /\ IsTarget(b, e, manifest)}

\* _next; without a readable manifest the job waits
Selected(b, manifest, readable) ==
    IF HasRunning(b) THEN [b EXCEPT !.state = "running"]
    ELSE IF Blocked \/ active # None THEN [b EXCEPT !.state = IF Paused THEN "paused" ELSE "waiting"]
    ELSE IF ~readable THEN [b EXCEPT !.state = "waiting"]
    ELSE LET passed == Passed(b, manifest)
             left == [b EXCEPT !.item = [a \in Articles |->
                                           IF a \in passed THEN "skipped" ELSE b.item[a]]]
         IN IF \E a \in Articles : left.item[a] = "pending" THEN [left EXCEPT !.state = "pending"]
            ELSE Reconciled(left)

MayProceed(b) == b.state \notin Settled \cup {"absent", "cancelling", "paused"}

-----------------------------------------------------------------------------
(* Job control: BodyRecoveryJobs.handle *)

Record(j, b) ==
    /\ job' = [job EXCEPT ![j] = b]
    /\ UNCHANGED <<collector, articles, outside>>

\* start; a repeated start with the same request id finds its job
Start(c, j) ==
    /\ owner = c /\ job[j].state = "absent"
    /\ \A i \in Jobs : ~Live(job[i])
    /\ \E targets \in Manifests :
         Record(j, [NoJob EXCEPT !.state = IF targets = {} THEN "complete" ELSE "pending",
                                 !.rev = 1, !.owner = c, !.gen = gen,
                                 !.want = [a \in Articles |-> IF a \in targets THEN body[a] ELSE "bad"],
                                 !.item = [a \in Articles |-> IF a \in targets THEN "pending" ELSE "none"]])

\* rev is the revision that the caller remembers
NextItem(c, j, rev) ==
    LET b == Reconciled(job[j]) IN
    /\ job[j].state # "absent" /\ OwnJob(c, job[j]) /\ rev = job[j].rev
    /\ IF MayProceed(b)
       THEN \E manifest \in Manifests, readable \in BOOLEAN : Record(j, Selected(b, manifest, readable))
       ELSE Record(j, b)

Checkpoint(c, j, rev, a) ==
    /\ job[j].state # "absent" /\ OwnJob(c, job[j]) /\ rev = job[j].rev
    /\ job[j].by[a] # None /\ task[job[j].by[a]].state # "active"
    /\ Record(j, Reconciled(job[j]))

\* a new revision fences every admission under the old one
Withdrawn(b) ==
    IF b.state \in Settled \cup {"cancelling"} THEN b
    ELSE [b EXCEPT !.state = "cancelling", !.rev = b.rev + 1]

\* also of a job that an earlier collecting browser left
Cancel(c, j, rev) ==
    /\ job[j].state # "absent" /\ owner = c
    /\ Cancelling(job[j]) \/ rev = job[j].rev
    /\ Record(j, Reconciled(Withdrawn(job[j])))

Resume(c, j, rev) ==
    /\ OwnJob(c, job[j]) /\ rev = job[j].rev
    /\ job[j].state = "paused" /\ ~Blocked
    /\ Record(j, Reconciled([job[j] EXCEPT !.state = "pending"]))

-----------------------------------------------------------------------------
(* Page tasks: CompanyCollector *)

\* bind_body_task checks every condition of the job again
Bindable(c, j, rev, a) ==
    /\ job[j].state # "absent" /\ OwnJob(c, job[j])
    /\ rev = job[j].rev /\ MayProceed(job[j])
    /\ ~HasRunning(job[j]) /\ job[j].item[a] = "pending"
    /\ \E manifest \in Manifests : IsTarget(job[j], a, manifest)

Reserve(c, t, j, rev, a) ==
    /\ task[t].state = "none" /\ active = None
    /\ active' = t
    /\ task' = [task EXCEPT ![t] = [NoTask EXCEPT !.state = "active", !.client = c, !.gen = gen,
                                                  !.job = j, !.rev = rev, !.article = a]]
    /\ UNCHANGED <<owner, gen, blocks, articles, outside>>

BeginTask(c, t, j, rev, a) ==
    /\ ~Blocked /\ Bindable(c, j, rev, a)
    /\ Reserve(c, t, j, rev, a)
    /\ job' = [job EXCEPT ![j].state = "running", ![j].item[a] = "running", ![j].by[a] = t]

\* company financials use the same reservation; a pause of Alpha Picks is not
\* theirs, and the page gap does not hold back a capture of the current tab
BeginOther(c, t) ==
    /\ owner = c /\ "limited" \notin blocks
    /\ Reserve(c, t, None, 0, None)
    /\ UNCHANGED job

\* _active: the caller presents the token of the reservation
Holds(c, t) == active = t /\ task[t].client = c /\ task[t].gen = gen

\* Mutant: the admission of the task is trusted.
BodyNavigationTrusted(t) ==
    \E manifest \in Manifests : IsTarget(job[task[t].job], task[t].article, manifest)

\* body_navigation_allowed
BodyNavigationAllowed(t) ==
    LET b == job[task[t].job] IN
    /\ Live(b) /\ b.state # "cancelling" /\ b.rev = task[t].rev
    /\ \E manifest \in Manifests : IsTarget(b, task[t].article, manifest)

\* the first page of a task; further ones change nothing here
AdmitNavigation(c, t) ==
    /\ Holds(c, t) /\ ~task[t].navigated
    /\ IF task[t].job = None THEN "limited" \notin blocks
       ELSE BodyNavigationAllowed(t) /\ ~Blocked
    /\ task' = [task EXCEPT ![t].navigated = TRUE]
    /\ UNCHANGED <<owner, gen, active, blocks, job, articles, outside>>

\* _restriction: what it blocks for body repair; a financials task may meet one
\* of financials only
Restrictions(t) == {{"limited"}, {"paused"}} \cup (IF task[t].job = None THEN {{}} ELSE {})

\* observe_restriction
ObserveRestriction(c, t) ==
    /\ Holds(c, t)
    /\ \E met \in Restrictions(t) : blocks' = blocks \cup met
    /\ task' = [task EXCEPT ![t].restricted = TRUE, ![t].reported = TRUE]
    /\ UNCHANGED <<owner, gen, active, job, articles, outside>>

\* _terminal: a page that was opened starts the page gap
Terminal(t, result, reported, restricted, met) ==
    /\ task' = [task EXCEPT ![t].state = result, ![t].reported = @ \/ reported,
                            ![t].restricted = @ \/ restricted]
    /\ blocks' = blocks \cup met \cup (IF task[t].navigated THEN {"pacing"} ELSE {})
    /\ active' = None
    /\ UNCHANGED <<owner, gen, job, articles, outside>>

\* finish_task: the success of a body is verified; the code of an error that was
\* not reported yet may be a restriction.  Nothing here reads the result of a
\* financials task, so that one stands for all
FinishTask(c, t, result) ==
    /\ Holds(c, t)
    /\ IF task[t].job = None THEN result = "ok"
       ELSE result = "ok" => body[task[t].article] = "available"
    /\ \/ Terminal(t, result, result = "error", FALSE, {})
       \/ /\ result = "error" /\ ~task[t].reported
          /\ \E met \in Restrictions(t) : Terminal(t, result, TRUE, TRUE, met)

\* recover: an operator declares, in any browser, that the task has stopped
Recover ==
    /\ active # None
    /\ Terminal(active, "cancelled", TRUE, FALSE, {})

Select(c) ==
    /\ active = None
    /\ outside < MaxOutside /\ outside' = outside + 1
    /\ owner' = c /\ gen' = gen + 1
    /\ UNCHANGED <<active, blocks, task, job, articles>>

\* resume: the operator has handled the pause
ResumeSite ==
    /\ active = None /\ "paused" \in blocks
    /\ blocks' = blocks \ {"paused"}
    /\ UNCHANGED <<owner, gen, active, task, job, articles, outside>>

DeadlinePasses(block) ==
    /\ block \in blocks
    /\ blocks' = blocks \ {block}
    /\ UNCHANGED <<owner, gen, active, task, job, articles, outside>>

-----------------------------------------------------------------------------
(* The article store *)

\* save_article_body_recovery: capture_target reads the reservation ...
AuthorizeSave(c, t) ==
    /\ Holds(c, t) /\ task[t].job # None
    /\ \E manifest \in Manifests : IsTarget(job[task[t].job], task[t].article, manifest)
    /\ saving' = saving \cup {t}
    /\ UNCHANGED <<collector, job, body, stored, outside>>

\* ... then repair_article_body compares and stores, in its own transaction
RepairBody(t) ==
    /\ t \in saving
    /\ body[task[t].article] = job[task[t].job].want[task[t].article]
    /\ body' = [body EXCEPT ![task[t].article] = "available"]
    /\ saving' = saving \ {t}
    /\ stored' = IF active = t THEN stored \cup {t} ELSE stored
    /\ UNCHANGED <<collector, job, outside>>

\* the body is rejected or no longer wanted, or the host process dies
SaveFails(t) ==
    /\ t \in saving
    /\ saving' = saving \ {t}
    /\ UNCHANGED <<collector, job, body, stored, outside>>

\* another collection path replaces the body; before a job lists the article, this
\* shows in the manifest only, which may be any
BodyChanges(a) ==
    /\ \E j \in Jobs : job[j].item[a] # "none"
    /\ outside < MaxOutside /\ outside' = outside + 1
    /\ body[a] # "available"
    /\ \E new \in {"changed", "available"} : body' = [body EXCEPT ![a] = new]
    /\ UNCHANGED <<collector, job, saving, stored>>

-----------------------------------------------------------------------------
Control ==
    \E c \in Clients, j \in Jobs :
        \/ Start(c, j)
        \/ \E rev \in 1..job[j].rev :
             \/ NextItem(c, j, rev) \/ Cancel(c, j, rev) \/ Resume(c, j, rev)
             \/ \E a \in Articles : Checkpoint(c, j, rev, a)

PageTask ==
    \E c \in Clients, t \in Tasks :
        \/ \E j \in Jobs, a \in Articles : \E rev \in 1..job[j].rev : BeginTask(c, t, j, rev, a)
        \/ BeginOther(c, t) \/ AdmitNavigation(c, t) \/ ObserveRestriction(c, t)
        \/ \E result \in Results : FinishTask(c, t, result)
        \/ AuthorizeSave(c, t)

Environment ==
    \/ Recover \/ ResumeSite
    \/ \E c \in Clients : Select(c)
    \/ \E block \in {"limited", "pacing"} : DeadlinePasses(block)
    \/ \E t \in Tasks : RepairBody(t) \/ SaveFails(t)
    \/ \E a \in Articles : BodyChanges(a)

Next == Control \/ PageTask \/ Environment

Spec == Init /\ [][Next]_vars

-----------------------------------------------------------------------------
(* Properties *)

\* A reserved body task is the one running item of a live job of the collecting
\* browser, and a settled job has nothing left to do: no cancel beside a page,
\* recovery, change of browser or repeated call separates the two ledgers
\* (bind_body_task, _reconcile, select).
LedgersAgree ==
    /\ active # None /\ task[active].job # None =>
         LET b == job[task[active].job] IN
         /\ Live(b) /\ OwnJob(task[active].client, b)
         /\ b.item[task[active].article] = "running" /\ b.by[task[active].article] = active
    /\ \A j \in Jobs : job[j].state \in Settled =>
         \A a \in Articles : job[j].item[a] \notin {"pending", "running"}
    /\ \A j \in Jobs : Cardinality({a \in Articles : job[j].item[a] = "running"}) <= 1

\* A body that a reserved task stored is counted as saved when its job settles,
\* although the job was cancelled meanwhile, the task ended as an error or was
\* recovered by an operator, or nobody checkpointed it (_reconcile).
SavesCounted ==
    \A t \in stored : job[task[t].job].state \in Settled =>
        job[task[t].job].item[task[t].article] = "saved"

\* Once a cancellation is acknowledged the job is never revived, no page task
\* begins for it and no page is opened for it, whatever calls with the earlier
\* revision arrive later (cancel, bind_body_task, body_navigation_allowed).
CancelFinal ==
    [][\A j \in Jobs : Cancelling(job[j]) =>
          /\ Cancelling(job'[j])
          /\ \A t \in Tasks : task'[t].job = j =>
                task[t].job = j /\ task'[t].navigated = task[t].navigated]_vars

\* "Parse/save failures remain visible and are not retried indefinitely": an
\* item whose page was opened and failed, without any restriction of the site,
\* does not become pending again.
FailedPageRecorded ==
    [][\A j \in Jobs, a \in Articles :
          job[j].item[a] = "running" /\ job'[j].item[a] = "pending" =>
              LET t == task[job[j].by[a]] IN ~(t.navigated /\ t.state = "error" /\ ~t.restricted)]_vars
=============================================================================
