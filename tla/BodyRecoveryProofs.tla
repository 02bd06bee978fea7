-------------------------- MODULE BodyRecoveryProofs --------------------------
(***************************************************************************)
(* Proofs about BodyRecovery for any browsers, articles, jobs and tasks.    *)
(* The two ledgers are tied by Linked: an item that was handed to a task    *)
(* names it, and the task names the item; and by Bound: the reserved task   *)
(* is the running item of its job.                                          *)
(***************************************************************************)
EXTENDS BodyRecovery, FiniteSetTheorems, TLAPS

-----------------------------------------------------------------------------
(* The inductive invariant *)

\* the reservation and the state of its task say the same
Reserved ==
    /\ active # None => task[active].state = "active"
    /\ \A t \in Tasks : task[t].state = "active" => active = t

\* an item that was handed to a task, and only to that one, is named by it
Linked ==
    \A j \in Jobs, a \in Articles :
        /\ job[j].by[a] # None =>
             /\ task[job[j].by[a]].job = j /\ task[job[j].by[a]].article = a
             /\ task[job[j].by[a]].state # "none"
        /\ job[j].item[a] = "running" => job[j].by[a] # None

\* a body task has an article of a job that was started
Aimed ==
    \A t \in Tasks : task[t].job # None =>
        task[t].state # "none" /\ task[t].article # None /\ job[task[t].job].state # "absent"

\* the reserved body task is the running item of a live job of the collecting browser
Bound ==
    active # None /\ task[active].job # None =>
        LET b == job[task[active].job] IN
        /\ Live(b) /\ OwnJob(task[active].client, b)
        /\ b.item[task[active].article] = "running" /\ b.by[task[active].article] = active

OneRunning ==
    \A j \in Jobs : \A a, e \in Articles :
        job[j].item[a] = "running" /\ job[j].item[e] = "running" => a = e

SettledDone ==
    \A j \in Jobs : job[j].state \in Settled =>
        \A a \in Articles : job[j].item[a] \notin {"pending", "running"}

SavesAimed == \A t \in saving : task[t].job # None

\* a body that was stored under a reservation stays, and so does the item it is for
StoredKept ==
    \A t \in stored :
        /\ task[t].job # None /\ body[task[t].article] = "available"
        /\ job[task[t].job].item[task[t].article] \in {"running", "saved"}

LedgerInv == Reserved /\ Linked /\ Aimed /\ Bound /\ OneRunning /\ SettledDone /\ SavesAimed
IndInv == TypeOK /\ LedgerInv /\ StoredKept

-----------------------------------------------------------------------------
(* Transactions on a job *)

\* What becomes of an item when its job is reconciled.
LEMMA ItemReconciled ==
    ASSUME NEW b \in Job, NEW a \in Articles
    PROVE  /\ ReconciledItem(b, a) \in ItemStates
           /\ ReconciledItem(b, a) = "running" =>
                b.item[a] = "running" /\ task[b.by[a]].state = "active"
           /\ b.item[a] = "running" /\ task[b.by[a]].state = "active" =>
                ReconciledItem(b, a) = "running"
           /\ b.item[a] = "running" /\ body[a] = "available" =>
                ReconciledItem(b, a) \in {"running", "saved"}
           /\ b.item[a] \notin {"pending", "running"} => ReconciledItem(b, a) = b.item[a]
  BY DEF ReconciledItem, Outcome, Unsaved, Job, ItemStates

\* Reconciliation changes items and, when none is left, the state; a cancellation stays one.
LEMMA JobReconciled ==
    ASSUME NEW b \in Job
    PROVE  LET r == Reconciled(b) IN
           /\ r \in Job
           /\ r.rev = b.rev /\ r.owner = b.owner /\ r.gen = b.gen /\ r.by = b.by /\ r.want = b.want
           /\ \A a \in Articles : r.item[a] = ReconciledItem(b, a)
           /\ r.state = b.state \/ r.state \in Settled
           /\ Cancelling(b) => Cancelling(r)
           /\ r.state # b.state => \A a \in Articles : r.item[a] \notin {"pending", "running"}
  <1> DEFINE items == [a \in Articles |-> ReconciledItem(b, a)]
             mid == [b EXCEPT !.item = items]
  <1>1. items \in [Articles -> ItemStates] BY ItemReconciled
  <1>2. /\ mid \in Job /\ mid.rev = b.rev /\ mid.owner = b.owner /\ mid.gen = b.gen
        /\ mid.by = b.by /\ mid.want = b.want /\ mid.item = items /\ mid.state = b.state
    BY <1>1 DEF Job
  <1> HIDE DEF items, mid
  <1>3. LET r == Close(mid) IN
        /\ r \in Job /\ r.rev = mid.rev /\ r.owner = mid.owner /\ r.gen = mid.gen
        /\ r.by = mid.by /\ r.want = mid.want /\ r.item = mid.item
        /\ r.state = mid.state \/ r.state \in Settled
        /\ Cancelling(mid) => Cancelling(r)
        /\ r.state # mid.state => \A a \in Articles : r.item[a] \notin {"pending", "running"}
    BY <1>2 DEF Close, Job, JobStates, Settled, Cancelling
  <1>4. Reconciled(b) = Close(mid) BY DEF Reconciled, mid, items
  <1> QED BY <1>2, <1>3, <1>4 DEF items, Cancelling

\* _next changes the state, or the items that nothing wants any more.
LEMMA JobSelected ==
    ASSUME NEW b \in Job, NEW manifest, NEW readable
    PROVE  LET r == Selected(b, manifest, readable) IN
           /\ r \in Job
           /\ r.rev = b.rev /\ r.owner = b.owner /\ r.gen = b.gen /\ r.by = b.by /\ r.want = b.want
           /\ r.state \in {"running", "waiting", "paused", "pending", b.state} \cup Settled
           /\ \A a \in Articles :
                /\ r.item[a] = "running" => b.item[a] = "running"
                /\ b.item[a] = "running" /\ body[a] = "available" => r.item[a] \in {"running", "saved"}
                /\ b.item[a] \notin {"pending", "running"} => r.item[a] = b.item[a]
           /\ HasRunning(b) => r.item = b.item /\ r.state = "running"
           /\ r.state \in Settled \ {b.state} => \A a \in Articles : r.item[a] \notin {"pending", "running"}
  <1> DEFINE r == Selected(b, manifest, readable)
             items == [a \in Articles |-> IF a \in Passed(b, manifest) THEN "skipped" ELSE b.item[a]]
             left == [b EXCEPT !.item = items]
  <1>1. CASE HasRunning(b) \/ Blocked \/ active # None \/ ~readable
    <2>1. \E s \in {"running", "waiting", "paused"} :
            r = [b EXCEPT !.state = s] /\ (HasRunning(b) => s = "running")
      BY <1>1 DEF Selected
    <2> QED BY <2>1 DEF Job, JobStates, Settled
  <1>2. CASE ~(HasRunning(b) \/ Blocked \/ active # None \/ ~readable)
    <2>1. items \in [Articles -> ItemStates] BY DEF Job, ItemStates
    <2>2. /\ left \in Job /\ left.rev = b.rev /\ left.owner = b.owner /\ left.gen = b.gen
          /\ left.by = b.by /\ left.want = b.want /\ left.item = items /\ left.state = b.state
      BY <2>1 DEF Job
    <2>3. \A a \in Articles : /\ items[a] # "running" /\ b.item[a] # "running"
                              /\ b.item[a] # "pending" => items[a] = b.item[a]
      BY <1>2 DEF HasRunning, Passed
    <2>4. r = IF \E a \in Articles : left.item[a] = "pending" THEN [left EXCEPT !.state = "pending"]
              ELSE Reconciled(left)
      BY <1>2 DEF Selected
    <2> HIDE DEF items, left, r
    <2>5. CASE \E a \in Articles : left.item[a] = "pending"
      <3>1. r = [left EXCEPT !.state = "pending"] BY <2>4, <2>5
      <3>2. /\ r \in Job /\ r.state = "pending" /\ r.item = items
            /\ r.rev = b.rev /\ r.owner = b.owner /\ r.gen = b.gen /\ r.by = b.by /\ r.want = b.want
        BY <2>2, <3>1 DEF Job, JobStates
      <3> QED BY <1>2, <2>3, <3>2 DEF Settled, r
    <2>6. CASE ~\E a \in Articles : left.item[a] = "pending"
      <3>1. r = Reconciled(left) BY <2>4, <2>6
      <3>2. \A a \in Articles : r.item[a] = ReconciledItem(left, a) BY <2>2, <3>1, JobReconciled
      <3>3. \A a \in Articles : r.item[a] = left.item[a]
        BY <2>2, <2>3, <2>6, <3>2, ItemReconciled
      <3>4. /\ r \in Job /\ r.rev = b.rev /\ r.owner = b.owner /\ r.gen = b.gen
            /\ r.by = b.by /\ r.want = b.want /\ (r.state = b.state \/ r.state \in Settled)
        BY <2>2, <3>1, JobReconciled
      <3>5. \A a \in Articles : r.item[a] \notin {"pending", "running"}
        BY <2>2, <2>3, <2>6, <3>3
      <3> QED BY <1>2, <2>2, <2>3, <3>3, <3>4, <3>5 DEF r
    <2> QED BY <2>5, <2>6
  <1> QED BY <1>1, <1>2

\* cancel changes the state and the revision only.
LEMMA JobWithdrawn ==
    ASSUME NEW b \in Job
    PROVE  LET r == Withdrawn(b) IN
           /\ r \in Job /\ r.owner = b.owner /\ r.gen = b.gen /\ r.by = b.by /\ r.want = b.want
           /\ r.item = b.item
           /\ r.state = b.state \/ r.state = "cancelling"
           /\ r.state = "cancelling" \/ r.state \in Settled
  <1>1. CASE b.state \in Settled \cup {"cancelling"}
    BY <1>1 DEF Withdrawn
  <1>2. CASE b.state \notin Settled \cup {"cancelling"}
    <2>1. Withdrawn(b) = [b EXCEPT !.state = "cancelling", !.rev = b.rev + 1]
      BY <1>2 DEF Withdrawn
    <2>2. b.rev + 1 \in Nat /\ b \in Job BY DEF Job
    <2> HIDE DEF Withdrawn
    <2> QED BY <2>1, <2>2 DEF Job, JobStates
  <1> QED BY <1>1, <1>2

-----------------------------------------------------------------------------
(* Types *)

\* An empty journal is well typed.
LEMMA TypeInit == Init => TypeOK
  BY RecoveryAssumption DEF Init, TypeOK, NoTask, NoJob, Task, Job, JobStates, ItemStates, Bodies

\* A transaction of the journal keeps the types.
LEMMA RecordType ==
    ASSUME TypeOK, NEW j \in Jobs, NEW b \in Job, Record(j, b)
    PROVE  TypeOK'
  BY DEF Record, TypeOK, collector, articles

\* Job control keeps the types, and rewrites the job in one of five ways.
LEMMA TypeControl == TypeOK /\ Control => TypeOK'
  <1> SUFFICES ASSUME TypeOK, NEW c \in Clients, NEW j \in Jobs,
                      \/ Start(c, j)
                      \/ \E rev \in 1..job[j].rev :
                           \/ NextItem(c, j, rev) \/ Cancel(c, j, rev) \/ Resume(c, j, rev)
                           \/ \E a \in Articles : Checkpoint(c, j, rev, a)
               PROVE  TypeOK'
    BY DEF Control
  <1>0. job[j] \in Job BY DEF TypeOK
  <1>1. CASE Start(c, j)
    <2>1. PICK targets : Record(j, [NoJob EXCEPT
             !.state = IF targets = {} THEN "complete" ELSE "pending",
             !.rev = 1, !.owner = c, !.gen = gen,
             !.want = [a \in Articles |-> IF a \in targets THEN body[a] ELSE "bad"],
             !.item = [a \in Articles |-> IF a \in targets THEN "pending" ELSE "none"]])
      BY <1>1 DEF Start
    <2> DEFINE b == [NoJob EXCEPT
             !.state = IF targets = {} THEN "complete" ELSE "pending",
             !.rev = 1, !.owner = c, !.gen = gen,
             !.want = [a \in Articles |-> IF a \in targets THEN body[a] ELSE "bad"],
             !.item = [a \in Articles |-> IF a \in targets THEN "pending" ELSE "none"]]
    <2>2. b \in Job BY DEF NoJob, Job, TypeOK, JobStates, ItemStates, Settled, Bodies
    <2> QED BY <2>1, <2>2, RecordType
  <1>2. CASE \E rev \in 1..job[j].rev : NextItem(c, j, rev)
    <2>1. Reconciled(job[j]) \in Job BY <1>0, JobReconciled
    <2>2. \A manifest, readable : Selected(Reconciled(job[j]), manifest, readable) \in Job
      BY <2>1, JobSelected
    <2> QED BY <1>2, <2>1, <2>2, RecordType DEF NextItem
  <1>3. CASE \E rev \in 1..job[j].rev : Cancel(c, j, rev)
    BY <1>0, <1>3, JobWithdrawn, JobReconciled, RecordType DEF Cancel
  <1>4. CASE \E rev \in 1..job[j].rev : Resume(c, j, rev)
    <2>1. [job[j] EXCEPT !.state = "pending"] \in Job BY <1>0 DEF Job, JobStates
    <2> QED BY <1>4, <2>1, JobReconciled, RecordType DEF Resume
  <1>5. CASE \E rev \in 1..job[j].rev : \E a \in Articles : Checkpoint(c, j, rev, a)
    BY <1>0, <1>5, JobReconciled, RecordType DEF Checkpoint
  <1> QED BY <1>1, <1>2, <1>3, <1>4, <1>5

\* A task that ends keeps the types.
LEMMA TerminalType ==
    ASSUME TypeOK, NEW t \in Tasks, NEW result \in Results, NEW reported \in BOOLEAN,
           NEW restricted \in BOOLEAN, NEW met \in SUBSET Blocks,
           Terminal(t, result, reported, restricted, met)
    PROVE  TypeOK'
  <1>1. task[t] \in Task BY DEF TypeOK
  <1>2. (task[t].reported \/ reported) \in BOOLEAN /\ (task[t].restricted \/ restricted) \in BOOLEAN
    OBVIOUS
  <1>3. [task[t] EXCEPT !.state = result, !.reported = task[t].reported \/ reported,
                        !.restricted = task[t].restricted \/ restricted] \in Task
    BY <1>1, <1>2 DEF Task
  <1>4. task' \in [Tasks -> Task] BY <1>3 DEF Terminal, TypeOK
  <1>5. blocks' \subseteq Blocks BY DEF Terminal, TypeOK, Blocks
  <1> QED BY <1>4, <1>5 DEF Terminal, TypeOK, articles

\* A finish ends the reserved task, with the report and the blocks it brings.
LEMMA FinishEnds ==
    ASSUME NEW c \in Clients, NEW t \in Tasks, NEW result \in Results, FinishTask(c, t, result)
    PROVE  active = t /\ \E reported, restricted \in BOOLEAN, met \in SUBSET Blocks :
                           Terminal(t, result, reported, restricted, met)
  <1>1. \A met \in Restrictions(t) : met \in SUBSET Blocks BY DEF Restrictions, Blocks
  <1>2. {} \in SUBSET Blocks /\ (result = "error") \in BOOLEAN OBVIOUS
  <1> QED BY <1>1, <1>2 DEF FinishTask, Holds

\* So does an operator's recovery.
LEMMA RecoveryEnds ==
    ASSUME TypeOK, Recover
    PROVE  active \in Tasks /\ \E reported, restricted \in BOOLEAN, met \in SUBSET Blocks :
                                Terminal(active, "cancelled", reported, restricted, met)
  <1>1. active \in Tasks BY DEF Recover, TypeOK
  <1>2. Terminal(active, "cancelled", TRUE, FALSE, {}) BY DEF Recover
  <1>3. TRUE \in BOOLEAN /\ FALSE \in BOOLEAN /\ {} \in SUBSET Blocks OBVIOUS
  <1> HIDE DEF Terminal
  <1> QED BY <1>1, <1>2, <1>3, Zenon

\* A page task keeps the types.
LEMMA TypePageTask == TypeOK /\ PageTask => TypeOK'
  <1> SUFFICES ASSUME TypeOK, NEW c \in Clients, NEW t \in Tasks,
                      \/ \E j \in Jobs, a \in Articles : \E rev \in 1..job[j].rev : BeginTask(c, t, j, rev, a)
                      \/ BeginOther(c, t) \/ AdmitNavigation(c, t) \/ ObserveRestriction(c, t)
                      \/ \E result \in Results : FinishTask(c, t, result)
                      \/ AuthorizeSave(c, t)
               PROVE  TypeOK'
    BY DEF PageTask
  <1>0. task[t] \in Task BY DEF TypeOK
  <1>1. ASSUME NEW j \in Jobs, NEW a \in Articles, NEW rev \in 1..job[j].rev, BeginTask(c, t, j, rev, a)
        PROVE  TypeOK'
    <2>1. job[j] \in Job /\ rev \in Nat BY DEF TypeOK, Job
    <2>2. [job[j] EXCEPT !.state = "running", !.item[a] = "running", !.by[a] = t] \in Job
      BY <2>1 DEF Job, JobStates, ItemStates
    <2>3. job' \in [Jobs -> Job] BY <1>1, <2>2 DEF BeginTask, TypeOK
    <2>4. task' \in [Tasks -> Task] BY <1>1, <2>1 DEF BeginTask, Reserve, TypeOK, Task, NoTask
    <2> QED BY <1>1, <2>3, <2>4 DEF BeginTask, Reserve, TypeOK, articles
  <1>2. CASE BeginOther(c, t)
    <2>1. task' \in [Tasks -> Task] BY <1>2 DEF BeginOther, Reserve, TypeOK, Task, NoTask
    <2> QED BY <1>2, <2>1 DEF BeginOther, Reserve, TypeOK, articles
  <1>3. CASE AdmitNavigation(c, t)
    <2>1. task' \in [Tasks -> Task] BY <1>0, <1>3 DEF AdmitNavigation, TypeOK, Task
    <2> QED BY <1>3, <2>1 DEF AdmitNavigation, TypeOK, articles
  <1>4. CASE ObserveRestriction(c, t)
    <2>1. task' \in [Tasks -> Task] BY <1>0, <1>4 DEF ObserveRestriction, TypeOK, Task
    <2> QED BY <1>4, <2>1 DEF ObserveRestriction, Restrictions, TypeOK, Blocks, articles
  <1>5. ASSUME NEW result \in Results, FinishTask(c, t, result) PROVE TypeOK'
    <2>1. PICK reported \in BOOLEAN, restricted \in BOOLEAN, met \in SUBSET Blocks :
            Terminal(t, result, reported, restricted, met)
      BY <1>5, FinishEnds
    <2> QED BY <2>1, TerminalType
  <1>6. CASE AuthorizeSave(c, t)
    BY <1>6 DEF AuthorizeSave, TypeOK, collector
  <1> QED BY <1>1, <1>2, <1>3, <1>4, <1>5, <1>6

\* So does the environment.
LEMMA TypeEnvironment == TypeOK /\ Environment => TypeOK'
  <1> SUFFICES ASSUME TypeOK, Environment PROVE TypeOK' OBVIOUS
  <1>1. CASE Recover
    <2>1. PICK reported \in BOOLEAN, restricted \in BOOLEAN, met \in SUBSET Blocks :
            Terminal(active, "cancelled", reported, restricted, met)
      BY <1>1, RecoveryEnds
    <2>2. active \in Tasks /\ "cancelled" \in Results BY <1>1, RecoveryEnds DEF Results
    <2> QED BY <2>1, <2>2, TerminalType
  <1>2. CASE ResumeSite \/ \E block \in {"limited", "pacing"} : DeadlinePasses(block)
    BY <1>2 DEF ResumeSite, DeadlinePasses, TypeOK, articles
  <1>3. CASE \E c \in Clients : Select(c)
    <2>1. outside' \in 0..MaxOutside BY <1>3, RecoveryAssumption DEF Select, TypeOK
    <2> QED BY <1>3, <2>1 DEF Select, TypeOK, articles
  <1>4. CASE \E t \in Tasks : RepairBody(t) \/ SaveFails(t)
    BY <1>4 DEF RepairBody, SaveFails, TypeOK, Bodies, collector
  <1>5. CASE \E a \in Articles : BodyChanges(a)
    <2>1. outside' \in 0..MaxOutside BY <1>5, RecoveryAssumption DEF BodyChanges, TypeOK
    <2> QED BY <1>5, <2>1 DEF BodyChanges, TypeOK, Bodies, collector
  <1> QED BY <1>1, <1>2, <1>3, <1>4, <1>5 DEF Environment

\* Every step keeps the types.
LEMMA TypeStep == TypeOK /\ [Next]_vars => TypeOK'
  <1>1. TypeOK /\ UNCHANGED vars => TypeOK' BY DEF TypeOK, vars, collector, articles
  <1> QED BY <1>1, TypeControl, TypePageTask, TypeEnvironment DEF Next

-----------------------------------------------------------------------------
(* The ledgers: job control *)

\* What a transaction of the journal may do to a job it finds.
JobStep(b, r) ==
    /\ r \in Job /\ r.owner = b.owner /\ r.gen = b.gen /\ r.by = b.by
    /\ b.state # "absent" => r.state # "absent"
    /\ \A a \in Articles :
         /\ r.item[a] = "running" => b.item[a] = "running"
         /\ b.item[a] = "running" /\ task[b.by[a]].state = "active" => r.item[a] = "running"
         /\ b.item[a] = "running" /\ body[a] = "available" => r.item[a] \in {"running", "saved"}
         /\ b.item[a] = "saved" => r.item[a] = "saved"
    /\ (b.state \in Settled => \A a \in Articles : b.item[a] \notin {"pending", "running"}) =>
         (r.state \in Settled => \A a \in Articles : r.item[a] \notin {"pending", "running"})

\* Two such steps make one.
LEMMA JobStepTwice ==
    ASSUME NEW b \in Job, NEW m, NEW r, JobStep(b, m), JobStep(m, r)
    PROVE  JobStep(b, r)
  BY DEF JobStep

\* Reconciling, selecting and withdrawing are such steps.
LEMMA JobSteps ==
    ASSUME NEW b \in Job
    PROVE  /\ JobStep(b, Reconciled(b))
           /\ \A manifest, readable : JobStep(b, Selected(b, manifest, readable))
           /\ JobStep(b, Withdrawn(b))
           /\ b.state = "paused" => JobStep(b, [b EXCEPT !.state = "pending"])
  <1>1. JobStep(b, Reconciled(b))
    <2> DEFINE r == Reconciled(b)
    <2> HIDE DEF r
    <2>1. \A a \in Articles :
            /\ r.item[a] = "running" => b.item[a] = "running"
            /\ b.item[a] = "running" /\ task[b.by[a]].state = "active" => r.item[a] = "running"
            /\ b.item[a] = "running" /\ body[a] = "available" => r.item[a] \in {"running", "saved"}
            /\ b.item[a] \notin {"pending", "running"} => r.item[a] = b.item[a]
      BY JobReconciled, ItemReconciled DEF r
    <2>2. /\ r \in Job /\ r.owner = b.owner /\ r.gen = b.gen /\ r.by = b.by
          /\ r.state = b.state \/ r.state \in Settled
          /\ r.state # b.state => \A a \in Articles : r.item[a] \notin {"pending", "running"}
      BY JobReconciled DEF r
    <2>3. JobStep(b, r) BY <2>1, <2>2 DEF JobStep, Settled
    <2> QED BY <2>3 DEF r
  <1>2. ASSUME NEW manifest, NEW readable PROVE JobStep(b, Selected(b, manifest, readable))
    <2> DEFINE r == Selected(b, manifest, readable)
    <2> HIDE DEF r
    <2>1. /\ r \in Job /\ r.owner = b.owner /\ r.gen = b.gen /\ r.by = b.by
          /\ r.state \in {"running", "waiting", "paused", "pending", b.state} \cup Settled
          /\ \A a \in Articles :
               /\ r.item[a] = "running" => b.item[a] = "running"
               /\ b.item[a] = "running" /\ body[a] = "available" => r.item[a] \in {"running", "saved"}
               /\ b.item[a] \notin {"pending", "running"} => r.item[a] = b.item[a]
          /\ HasRunning(b) => r.item = b.item /\ r.state = "running"
          /\ r.state \in Settled \ {b.state} => \A a \in Articles : r.item[a] \notin {"pending", "running"}
      BY JobSelected DEF r
    <2>2. JobStep(b, r) BY <2>1 DEF JobStep, Settled, HasRunning
    <2> QED BY <2>2 DEF r
  <1>3. JobStep(b, Withdrawn(b))
    BY JobWithdrawn DEF JobStep, Settled
  <1>4. ASSUME b.state = "paused" PROVE JobStep(b, [b EXCEPT !.state = "pending"])
    BY <1>4 DEF JobStep, Job, JobStates, Settled
  <1> QED BY <1>1, <1>2, <1>3, <1>4

\* Such a step keeps the two ledgers together.
LEMMA JobStepKeeps ==
    ASSUME IndInv, NEW j \in Jobs, job[j].state # "absent", NEW b, JobStep(job[j], b), Record(j, b)
    PROVE  LedgerInv' /\ StoredKept'
  <1>0. /\ job' = [job EXCEPT ![j] = b]
        /\ UNCHANGED <<owner, gen, active, blocks, task, body, saving, stored>>
    BY DEF Record, collector, articles
  <1>1. TypeOK /\ job[j] \in Job BY DEF IndInv, TypeOK
  <1>2. \A i \in Jobs : job'[i] = IF i = j THEN b ELSE job[i] BY <1>0, <1>1 DEF TypeOK
  <1>3. Reserved' /\ SavesAimed' BY <1>0 DEF IndInv, LedgerInv, Reserved, SavesAimed
  <1>4. Linked' BY <1>0, <1>2 DEF IndInv, LedgerInv, Linked, JobStep
  <1>5. Aimed' BY <1>0, <1>1, <1>2 DEF IndInv, LedgerInv, Aimed, JobStep, TypeOK, Task
  <1>6. OneRunning' BY <1>2 DEF IndInv, LedgerInv, OneRunning, JobStep
  <1>7. SettledDone' BY <1>2 DEF IndInv, LedgerInv, SettledDone, JobStep
  <1>8. Bound'
    <2> SUFFICES ASSUME active # None, task[active].job # None PROVE Bound'
      BY <1>0 DEF Bound
    <2> DEFINE i == task[active].job
               a == task[active].article
    <2>1. i \in Jobs /\ a \in Articles /\ task[active].state = "active"
      BY <1>1 DEF IndInv, LedgerInv, Reserved, Aimed, TypeOK, Task
    <2>2. Live(job[i]) /\ OwnJob(task[active].client, job[i])
          /\ job[i].item[a] = "running" /\ job[i].by[a] = active
      BY DEF IndInv, LedgerInv, Bound
    <2>3. CASE i # j BY <1>0, <1>2, <2>1, <2>2, <2>3 DEF Bound, OwnJob
    <2>4. CASE i = j
      <3>1. b.item[a] = "running" /\ b.by[a] = active /\ b.owner = job[j].owner /\ b.gen = job[j].gen
            /\ b.state # "absent"
        BY <2>1, <2>2, <2>4 DEF JobStep
      <3>2. Live(b) BY <1>2, <1>7, <2>1, <3>1 DEF Live, SettledDone
      <3> QED BY <1>0, <1>2, <2>1, <2>2, <2>4, <3>1, <3>2 DEF Bound, OwnJob
    <2> QED BY <2>3, <2>4
  <1>9. StoredKept'
    <2> SUFFICES ASSUME NEW t \in stored
                 PROVE  /\ task[t].job # None /\ body[task[t].article] = "available"
                        /\ job'[task[t].job].item[task[t].article] \in {"running", "saved"}
      BY <1>0 DEF StoredKept
    <2>1. task[t].job \in Jobs /\ task[t].article \in Articles /\ body[task[t].article] = "available"
          /\ job[task[t].job].item[task[t].article] \in {"running", "saved"}
      BY <1>1 DEF IndInv, LedgerInv, StoredKept, Aimed, TypeOK, Task
    <2> QED BY <1>2, <2>1, RecoveryAssumption DEF JobStep
  <1> QED BY <1>3, <1>4, <1>5, <1>6, <1>7, <1>8, <1>9 DEF LedgerInv

\* A new job has its items before it, and nothing yet refers to it.
LEMMA StartKeeps ==
    ASSUME IndInv, NEW c \in Clients, NEW j \in Jobs, Start(c, j)
    PROVE  LedgerInv' /\ StoredKept'
  <1> DEFINE new(targets) == [NoJob EXCEPT
             !.state = IF targets = {} THEN "complete" ELSE "pending",
             !.rev = 1, !.owner = c, !.gen = gen,
             !.want = [a \in Articles |-> IF a \in targets THEN body[a] ELSE "bad"],
             !.item = [a \in Articles |-> IF a \in targets THEN "pending" ELSE "none"]]
  <1>1. PICK targets \in Manifests : Record(j, new(targets)) BY DEF Start
  <1> DEFINE b == new(targets)
  <1>2. /\ b.state = IF targets = {} THEN "complete" ELSE "pending"
        /\ \A a \in Articles : b.by[a] = None /\ b.item[a] = IF a \in targets THEN "pending" ELSE "none"
    BY DEF NoJob
  <1> HIDE DEF b, new
  <1>3. /\ job' = [job EXCEPT ![j] = b] /\ job[j].state = "absent"
        /\ UNCHANGED <<owner, gen, active, blocks, task, body, saving, stored>>
    BY <1>1 DEF Start, Record, collector, articles, b
  <1>4. \A i \in Jobs : job'[i] = IF i = j THEN b ELSE job[i] BY <1>3 DEF IndInv, TypeOK
  <1>5. \A t \in Tasks : task[t].job # None =>
          task[t].job \in Jobs \ {j} /\ task[t].article \in Articles /\ job'[task[t].job] = job[task[t].job]
    BY <1>3, <1>4 DEF IndInv, LedgerInv, Aimed, TypeOK, Task
  <1>6. Reserved' /\ SavesAimed' BY <1>3 DEF IndInv, LedgerInv, Reserved, SavesAimed
  <1>7. Linked' BY <1>2, <1>3, <1>4 DEF IndInv, LedgerInv, Linked
  <1>8. Aimed' BY <1>3, <1>5 DEF IndInv, LedgerInv, Aimed
  <1>9. OneRunning' /\ SettledDone'
    BY <1>2, <1>4 DEF IndInv, LedgerInv, OneRunning, SettledDone, Settled
  <1>10. Bound' BY <1>3, <1>5 DEF IndInv, LedgerInv, Bound, OwnJob, TypeOK
  <1>11. StoredKept' BY <1>3, <1>5 DEF IndInv, StoredKept, TypeOK
  <1> QED BY <1>6, <1>7, <1>8, <1>9, <1>10, <1>11 DEF LedgerInv

\* Every call of job control keeps the ledgers together.
LEMMA ControlKeeps == IndInv /\ Control => LedgerInv' /\ StoredKept'
  <1> SUFFICES ASSUME IndInv, NEW c \in Clients, NEW j \in Jobs,
                      \/ Start(c, j)
                      \/ \E rev \in 1..job[j].rev :
                           \/ NextItem(c, j, rev) \/ Cancel(c, j, rev) \/ Resume(c, j, rev)
                           \/ \E a \in Articles : Checkpoint(c, j, rev, a)
               PROVE  LedgerInv' /\ StoredKept'
    BY DEF Control
  <1>0. job[j] \in Job /\ JobStep(job[j], Reconciled(job[j])) /\ Reconciled(job[j]) \in Job
    BY JobSteps, JobReconciled DEF IndInv, TypeOK
  <1>1. CASE Start(c, j) BY <1>1, StartKeeps
  <1>2. ASSUME NEW rev, NextItem(c, j, rev) PROVE LedgerInv' /\ StoredKept'
    <2>1. ASSUME NEW manifest, NEW readable
          PROVE  JobStep(job[j], Selected(Reconciled(job[j]), manifest, readable))
      <3>1. JobStep(Reconciled(job[j]), Selected(Reconciled(job[j]), manifest, readable))
        BY <1>0, JobSteps
      <3> QED BY <1>0, <3>1, JobStepTwice
    <2>2. \E b : JobStep(job[j], b) /\ Record(j, b) BY <1>0, <1>2, <2>1 DEF NextItem
    <2>3. job[j].state # "absent" BY <1>2 DEF NextItem
    <2> QED BY <2>2, <2>3, JobStepKeeps
  <1>3. ASSUME NEW rev, Cancel(c, j, rev) PROVE LedgerInv' /\ StoredKept'
    <2>1. Withdrawn(job[j]) \in Job /\ JobStep(job[j], Withdrawn(job[j])) BY <1>0, JobSteps, JobWithdrawn
    <2>2. JobStep(job[j], Reconciled(Withdrawn(job[j]))) BY <1>0, <2>1, JobSteps, JobStepTwice
    <2> QED BY <1>3, <2>2, JobStepKeeps DEF Cancel
  <1>4. ASSUME NEW rev, Resume(c, j, rev) PROVE LedgerInv' /\ StoredKept'
    <2>1. JobStep(job[j], [job[j] EXCEPT !.state = "pending"]) BY <1>0, <1>4, JobSteps DEF Resume
    <2>2. [job[j] EXCEPT !.state = "pending"] \in Job BY <2>1 DEF JobStep
    <2>3. JobStep(job[j], Reconciled([job[j] EXCEPT !.state = "pending"]))
      BY <1>0, <2>1, <2>2, JobSteps, JobStepTwice
    <2> QED BY <1>4, <2>3, JobStepKeeps DEF Resume
  <1>5. ASSUME NEW rev, NEW a, Checkpoint(c, j, rev, a) PROVE LedgerInv' /\ StoredKept'
    BY <1>0, <1>5, JobStepKeeps DEF Checkpoint
  <1> QED BY <1>1, <1>2, <1>3, <1>4, <1>5

-----------------------------------------------------------------------------
(* The ledgers: page tasks and the environment *)

\* A task begins for the one article that its job has pending and binds both ledgers.
LEMMA BeginTaskKeeps ==
    ASSUME IndInv, NEW c \in Clients, NEW t \in Tasks, NEW j \in Jobs, NEW a \in Articles,
           NEW rev \in 1..job[j].rev, BeginTask(c, t, j, rev, a)
    PROVE  LedgerInv' /\ StoredKept'
  <1> DEFINE b == [job[j] EXCEPT !.state = "running", !.item[a] = "running", !.by[a] = t]
             new == [NoTask EXCEPT !.state = "active", !.client = c, !.gen = gen,
                                   !.job = j, !.rev = rev, !.article = a]
  <1>1. /\ job' = [job EXCEPT ![j] = b] /\ task' = [task EXCEPT ![t] = new]
        /\ active' = t /\ active = None /\ task[t].state = "none"
        /\ UNCHANGED <<owner, gen, blocks, body, saving, stored>>
    BY DEF BeginTask, Reserve, articles
  <1>2. job[j] \in Job BY DEF IndInv, TypeOK
  <1>3. /\ b.state = "running" /\ b.owner = job[j].owner /\ b.gen = job[j].gen
        /\ \A e \in Articles : b.item[e] = (IF e = a THEN "running" ELSE job[j].item[e])
                               /\ b.by[e] = (IF e = a THEN t ELSE job[j].by[e])
    BY <1>2 DEF Job
  <1>4. /\ new.state = "active" /\ new.client = c /\ new.job = j /\ new.article = a
    BY DEF NoTask
  <1> HIDE DEF b, new
  <1>5. /\ \A i \in Jobs : job'[i] = IF i = j THEN b ELSE job[i]
        /\ \A u \in Tasks : task'[u] = IF u = t THEN new ELSE task[u]
    BY <1>1 DEF IndInv, TypeOK
  <1>6. OwnJob(c, job[j]) /\ Live(job[j]) /\ job[j].item[a] = "pending"
        /\ \A e \in Articles : job[j].item[e] # "running"
    BY DEF BeginTask, Bindable, HasRunning, MayProceed, Live, Settled
  <1>7. j # None /\ a # None /\ t # None BY RecoveryAssumption
  <1>8. Reserved' BY <1>1, <1>4, <1>5, RecoveryAssumption DEF IndInv, LedgerInv, Reserved
  <1>9. Linked' BY <1>1, <1>3, <1>4, <1>5, <1>7 DEF IndInv, LedgerInv, Linked, TypeOK, Job
  <1>10. Aimed' BY <1>3, <1>4, <1>5, <1>7 DEF IndInv, LedgerInv, Aimed, TypeOK, Task
  <1>11. Bound' BY <1>1, <1>3, <1>4, <1>5, <1>6 DEF Bound, OwnJob, Live, Settled
  <1>12. OneRunning' BY <1>3, <1>5, <1>6 DEF IndInv, LedgerInv, OneRunning
  <1>13. SettledDone' BY <1>3, <1>5 DEF IndInv, LedgerInv, SettledDone, Settled
  <1>14. \A u \in Tasks : task[u].job # None =>
           u # t /\ task'[u] = task[u] /\ task[u].job \in Jobs /\ task[u].article \in Articles
    BY <1>1, <1>5 DEF IndInv, LedgerInv, Aimed, TypeOK, Task
  <1>15. SavesAimed' BY <1>1, <1>14 DEF IndInv, LedgerInv, SavesAimed, TypeOK
  <1>16. StoredKept'
    <2> SUFFICES ASSUME NEW u \in stored
                 PROVE  /\ task'[u].job # None /\ body[task'[u].article] = "available"
                        /\ job'[task'[u].job].item[task'[u].article] \in {"running", "saved"}
      BY <1>1 DEF StoredKept
    <2>1. /\ u \in Tasks /\ task[u].job # None /\ body[task[u].article] = "available"
          /\ job[task[u].job].item[task[u].article] \in {"running", "saved"}
      BY DEF IndInv, TypeOK, StoredKept
    <2> QED BY <1>3, <1>5, <1>14, <2>1
  <1> QED BY <1>8, <1>9, <1>10, <1>11, <1>12, <1>13, <1>15, <1>16 DEF LedgerInv

\* What a step of the collector may change: flags of tasks, and the reservation by
\* beginning a task of no job or ending the reserved one.
LEMMA CollectorKeeps ==
    ASSUME IndInv,
           UNCHANGED <<job, body, stored>>, (gen' = gen /\ owner' = owner) \/ active = None,
           saving' \subseteq saving \cup {t \in Tasks : task[t].job # None},
           task' \in [Tasks -> Task],
           \A t \in Tasks : \/ /\ task'[t].job = task[t].job /\ task'[t].article = task[t].article
                               /\ task'[t].client = task[t].client
                               /\ task[t].state # "none" => task'[t].state # "none"
                            \/ task[t].state = "none" /\ task'[t].job = None,
           active' = active \/ active' = None \/ (active' \in Tasks /\ task'[active'].job = None),
           Reserved'
    PROVE  LedgerInv' /\ StoredKept'
  <1>1. \A t \in Tasks : task[t].job # None =>
          /\ task'[t].job = task[t].job /\ task'[t].article = task[t].article
          /\ task'[t].client = task[t].client /\ task'[t].state # "none"
    BY DEF IndInv, LedgerInv, Aimed
  <1>2. \A t \in Tasks : task'[t].job # None =>
          /\ task'[t].job = task[t].job /\ task'[t].article = task[t].article
          /\ task'[t].client = task[t].client
    OBVIOUS
  <1>3. Linked'
    <2> SUFFICES ASSUME NEW j \in Jobs, NEW a \in Articles, job[j].by[a] # None
                 PROVE  /\ task'[job[j].by[a]].job = j /\ task'[job[j].by[a]].article = a
                        /\ task'[job[j].by[a]].state # "none"
      BY DEF IndInv, LedgerInv, Linked
    <2>1. job[j].by[a] \in Tasks BY DEF IndInv, TypeOK, Job
    <2>2. /\ task[job[j].by[a]].job = j /\ task[job[j].by[a]].article = a /\ j # None
      BY RecoveryAssumption DEF IndInv, LedgerInv, Linked
    <2> QED BY <1>1, <2>1, <2>2
  <1>4. Aimed' BY <1>1, <1>2 DEF IndInv, LedgerInv, Aimed
  <1>5. Bound'
    <2> SUFFICES ASSUME active' # None, task'[active'].job # None PROVE Bound' BY DEF Bound
    <2>1. active' = active /\ active \in Tasks BY DEF IndInv, TypeOK
    <2>2. task'[active].job = task[active].job /\ task'[active].article = task[active].article
          /\ task'[active].client = task[active].client
      BY <1>2, <2>1
    <2> QED BY <2>1, <2>2 DEF IndInv, LedgerInv, Bound, OwnJob
  <1>6. OneRunning' /\ SettledDone' BY DEF IndInv, LedgerInv, OneRunning, SettledDone
  <1>7. SavesAimed' BY <1>1 DEF IndInv, LedgerInv, SavesAimed, TypeOK
  <1>8. StoredKept' BY <1>1 DEF IndInv, StoredKept, TypeOK
  <1> QED BY <1>3, <1>4, <1>5, <1>6, <1>7, <1>8 DEF LedgerInv

\* A task that ends gives the reservation back.
LEMMA TerminalKeeps ==
    ASSUME IndInv, NEW result \in Results, NEW reported \in BOOLEAN, NEW restricted \in BOOLEAN,
           NEW met \in SUBSET Blocks, active \in Tasks,
           Terminal(active, result, reported, restricted, met)
    PROVE  LedgerInv' /\ StoredKept'
  <1>1. task' \in [Tasks -> Task] BY TerminalType DEF IndInv, TypeOK
  <1>2. \A t \in Tasks : /\ task'[t].job = task[t].job /\ task'[t].article = task[t].article
                         /\ task'[t].client = task[t].client
                         /\ task'[t].state = IF t = active THEN result ELSE task[t].state
    BY DEF Terminal, IndInv, TypeOK, Task
  <1>3. result \notin {"none", "active"} BY DEF Results
  <1>4. UNCHANGED <<job, body, stored, saving, gen, owner>> /\ active' = None
    BY DEF Terminal, articles
  <1>5. Reserved' BY <1>2, <1>3, <1>4 DEF IndInv, LedgerInv, Reserved
  <1> QED BY <1>1, <1>2, <1>3, <1>4, <1>5, CollectorKeeps

\* Every call of a page task keeps the ledgers together.
LEMMA PageTaskKeeps == IndInv /\ PageTask => LedgerInv' /\ StoredKept'
  <1> SUFFICES ASSUME IndInv, NEW c \in Clients, NEW t \in Tasks,
                      \/ \E j \in Jobs, a \in Articles : \E rev \in 1..job[j].rev : BeginTask(c, t, j, rev, a)
                      \/ BeginOther(c, t) \/ AdmitNavigation(c, t) \/ ObserveRestriction(c, t)
                      \/ \E result \in Results : FinishTask(c, t, result)
                      \/ AuthorizeSave(c, t)
               PROVE  LedgerInv' /\ StoredKept'
    BY DEF PageTask
  <1>0. TypeOK /\ task \in [Tasks -> Task] BY DEF IndInv, TypeOK
  <1>1. CASE \E j \in Jobs, a \in Articles : \E rev \in 1..job[j].rev : BeginTask(c, t, j, rev, a)
    BY <1>1, BeginTaskKeeps
  <1>2. CASE BeginOther(c, t)
    <2>0. TypeOK'
      <3>1. PageTask BY <1>2 DEF PageTask
      <3> QED BY <1>0, <3>1, TypePageTask
    <2>1. /\ UNCHANGED <<job, body, stored, saving, gen, owner>> /\ active' = t /\ active = None
          /\ task[t].state = "none" /\ task' \in [Tasks -> Task]
      BY <1>2, <2>0 DEF BeginOther, Reserve, articles, TypeOK
    <2>2. /\ task'[t].state = "active" /\ task'[t].job = None
          /\ \A u \in Tasks : u # t => task'[u] = task[u]
      BY <1>0, <1>2 DEF BeginOther, Reserve, NoTask
    <2>3. Reserved' BY <2>1, <2>2, RecoveryAssumption DEF IndInv, LedgerInv, Reserved
    <2> QED BY <2>1, <2>2, <2>3, CollectorKeeps
  <1>3. CASE AdmitNavigation(c, t) \/ ObserveRestriction(c, t)
    <2>0. TypeOK'
      <3>1. PageTask BY <1>3 DEF PageTask
      <3> QED BY <1>0, <3>1, TypePageTask
    <2>1. /\ UNCHANGED <<job, body, stored, saving, gen, owner, active>>
          /\ task' \in [Tasks -> Task]
      BY <1>3, <2>0 DEF AdmitNavigation, ObserveRestriction, articles, TypeOK
    <2>2. \A u \in Tasks : /\ task'[u].job = task[u].job /\ task'[u].article = task[u].article
                           /\ task'[u].client = task[u].client /\ task'[u].state = task[u].state
      BY <1>0, <1>3 DEF AdmitNavigation, ObserveRestriction, Task
    <2>3. Reserved' BY <1>0, <2>1, <2>2 DEF IndInv, LedgerInv, Reserved, TypeOK
    <2> QED BY <2>1, <2>2, <2>3, CollectorKeeps
  <1>4. ASSUME NEW result \in Results, FinishTask(c, t, result) PROVE LedgerInv' /\ StoredKept'
    <2>1. active = t BY <1>4, FinishEnds
    <2>2. PICK reported \in BOOLEAN, restricted \in BOOLEAN, met \in SUBSET Blocks :
            Terminal(active, result, reported, restricted, met)
      BY <1>4, <2>1, FinishEnds
    <2> QED BY <2>1, <2>2, TerminalKeeps
  <1>5. CASE AuthorizeSave(c, t)
    <2>1. UNCHANGED <<owner, gen, active, task, job, body, stored>> /\ saving' = saving \cup {t}
          /\ task[t].job # None
      BY <1>5 DEF AuthorizeSave, collector
    <2>2. Reserved' BY <2>1 DEF IndInv, LedgerInv, Reserved
    <2> QED BY <1>0, <2>1, <2>2, CollectorKeeps
  <1> QED BY <1>1, <1>2, <1>3, <1>4, <1>5

\* A stored body settles the item of its task, and bodies stay where they are.
LEMMA StoreKeeps ==
    ASSUME IndInv, NEW t \in Tasks, RepairBody(t)
    PROVE  LedgerInv' /\ StoredKept'
  <1>1. /\ UNCHANGED <<owner, gen, active, task, job>> /\ t \in saving /\ saving' = saving \ {t}
        /\ body' = [body EXCEPT ![task[t].article] = "available"]
        /\ stored' \subseteq stored \cup {t} /\ (t \in stored' \ stored => active = t)
    BY DEF RepairBody, collector
  <1>2. task[t].job # None /\ task[t].job \in Jobs /\ task[t].article \in Articles
    BY <1>1 DEF IndInv, LedgerInv, SavesAimed, Aimed, TypeOK, Task
  <1>3. \A a \in Articles : body[a] = "available" => body'[a] = "available"
    BY <1>1 DEF IndInv, TypeOK
  <1>4. body'[task[t].article] = "available" BY <1>1, <1>2 DEF IndInv, TypeOK
  <1>5. LedgerInv'
    BY <1>1 DEF IndInv, LedgerInv, Reserved, Linked, Aimed, Bound, OneRunning, SettledDone,
                SavesAimed, OwnJob
  <1>6. StoredKept'
    <2> SUFFICES ASSUME NEW u \in stored'
                 PROVE  /\ task[u].job # None /\ body'[task[u].article] = "available"
                        /\ job[task[u].job].item[task[u].article] \in {"running", "saved"}
      BY <1>1 DEF StoredKept
    <2>1. CASE u \in stored
      <3>1. /\ u \in Tasks /\ task[u].job # None /\ body[task[u].article] = "available"
            /\ job[task[u].job].item[task[u].article] \in {"running", "saved"}
        BY <2>1 DEF IndInv, TypeOK, StoredKept
      <3>2. task[u].article \in Articles BY <3>1 DEF IndInv, LedgerInv, Aimed, TypeOK, Task
      <3> QED BY <1>3, <3>1, <3>2
    <2>2. CASE u \notin stored
      <3>1. u = t /\ active = t /\ t # None BY <1>1, <2>2, RecoveryAssumption
      <3> QED BY <1>2, <1>4, <3>1 DEF IndInv, LedgerInv, Bound
    <2> QED BY <2>1, <2>2
  <1> QED BY <1>5, <1>6

\* The environment keeps the ledgers together.
LEMMA EnvironmentKeeps == IndInv /\ Environment => LedgerInv' /\ StoredKept'
  <1> SUFFICES ASSUME IndInv, Environment PROVE LedgerInv' /\ StoredKept' OBVIOUS
  <1>0. TypeOK /\ task \in [Tasks -> Task] BY DEF IndInv, TypeOK
  <1>1. CASE Recover
    <2>1. PICK reported \in BOOLEAN, restricted \in BOOLEAN, met \in SUBSET Blocks :
            Terminal(active, "cancelled", reported, restricted, met)
      BY <1>0, <1>1, RecoveryEnds
    <2>2. active \in Tasks /\ "cancelled" \in Results BY <1>0, <1>1, RecoveryEnds DEF Results
    <2> QED BY <2>1, <2>2, TerminalKeeps
  <1>2. CASE \/ ResumeSite \/ \E block \in {"limited", "pacing"} : DeadlinePasses(block)
             \/ \E c \in Clients : Select(c)
             \/ \E t \in Tasks : SaveFails(t)
    <2>1. /\ UNCHANGED <<active, task, job, body, stored>> /\ saving' \subseteq saving
          /\ UNCHANGED <<owner, gen>> \/ active = None
      BY <1>2 DEF ResumeSite, DeadlinePasses, Select, SaveFails, articles, collector
    <2>2. Reserved' BY <2>1 DEF IndInv, LedgerInv, Reserved
    <2> QED BY <1>0, <2>1, <2>2, CollectorKeeps
  <1>3. CASE \E t \in Tasks : RepairBody(t) BY <1>3, StoreKeeps
  <1>4. CASE \E a \in Articles : BodyChanges(a)
    <2>1. PICK a \in Articles : BodyChanges(a) BY <1>4
    <2>2. UNCHANGED <<owner, gen, active, task, job, saving, stored>> BY <2>1 DEF BodyChanges, collector
    <2>3. \A e \in Articles : body[e] = "available" => body'[e] = "available"
      BY <1>0, <2>1 DEF BodyChanges, TypeOK
    <2>4. LedgerInv'
      BY <2>2 DEF IndInv, LedgerInv, Reserved, Linked, Aimed, Bound, OneRunning, SettledDone,
                  SavesAimed, OwnJob
    <2>5. \A t \in stored : t \in Tasks /\ task[t].job # None /\ task[t].article \in Articles
      BY <1>0 DEF IndInv, LedgerInv, StoredKept, Aimed, TypeOK, Task
    <2>6. StoredKept' BY <2>2, <2>3, <2>5 DEF IndInv, StoredKept
    <2> QED BY <2>4, <2>6
  <1> QED BY <1>1, <1>2, <1>3, <1>4 DEF Environment

\* The inductive invariant holds at first and is kept by every step.
LEMMA IndInit == Init => IndInv
  <1> SUFFICES ASSUME Init PROVE IndInv OBVIOUS
  <1>1. TypeOK BY TypeInit
  <1>2. LedgerInv
    BY RecoveryAssumption DEF Init, LedgerInv, Reserved, Linked, Aimed, Bound, OneRunning, SettledDone,
       SavesAimed, NoTask, NoJob, Settled
  <1>3. StoredKept BY DEF Init, StoredKept
  <1> QED BY <1>1, <1>2, <1>3 DEF IndInv

\* Every step keeps the inductive invariant.
LEMMA IndStep == IndInv /\ [Next]_vars => IndInv'
  <1> SUFFICES ASSUME IndInv, [Next]_vars PROVE LedgerInv' /\ StoredKept'
    BY TypeStep DEF IndInv
  <1>1. CASE Next BY <1>1, ControlKeeps, PageTaskKeeps, EnvironmentKeeps DEF Next
  <1>2. CASE UNCHANGED vars
    BY <1>2 DEF IndInv, LedgerInv, Reserved, Linked, Aimed, Bound, OneRunning, SettledDone, SavesAimed,
       StoredKept, OwnJob, vars, collector, articles
  <1> QED BY <1>1, <1>2

-----------------------------------------------------------------------------
(* The theorems *)

\* In every reachable state the journal, the collector ledger and the store are well typed.
THEOREM TypeCorrect == Spec => []TypeOK
  <1>1. Init => TypeOK BY TypeInit
  <1>2. TypeOK /\ [Next]_vars => TypeOK' BY TypeStep
  <1> QED BY <1>1, <1>2, PTL DEF Spec

\* The inductive invariant of this module.
LEMMA Inductive == Spec => []IndInv
  <1> QED BY IndInit, IndStep, PTL DEF Spec

\* A set of articles no two of which differ has at most one element.
LEMMA AtMostOne ==
    ASSUME NEW S \in SUBSET Articles, \A a, e \in S : a = e
    PROVE  Cardinality(S) <= 1
  <1>1. CASE S = {} BY <1>1, FS_EmptySet
  <1>2. CASE S # {}
    <2>1. PICK a : S = {a} BY <1>2
    <2> QED BY <2>1, FS_Singleton
  <1> QED BY <1>1, <1>2

\* The reservation and the journal agree (LedgersAgree), whatever calls the
\* browsers repeat, lose or send late.
THEOREM LedgersTogether == Spec => []LedgersAgree
  <1>1. IndInv => LedgersAgree
    <2> SUFFICES ASSUME IndInv PROVE LedgersAgree OBVIOUS
    <2>1. ASSUME NEW j \in Jobs PROVE Cardinality({a \in Articles : job[j].item[a] = "running"}) <= 1
      BY AtMostOne DEF IndInv, LedgerInv, OneRunning
    <2> QED BY <2>1 DEF IndInv, LedgerInv, LedgersAgree, Bound, SettledDone
  <1> QED BY <1>1, Inductive, PTL

\* A body stored under a reservation is counted as saved by its job
\* (SavesCounted), also when the job was cancelled or the task recovered.
THEOREM SavesAreCounted == Spec => []SavesCounted
  <1>1. IndInv => SavesCounted
    <2> SUFFICES ASSUME IndInv, NEW t \in stored, job[task[t].job].state \in Settled
                 PROVE  job[task[t].job].item[task[t].article] = "saved"
      BY DEF SavesCounted
    <2>1. task[t].job \in Jobs /\ task[t].article \in Articles
          /\ job[task[t].job].item[task[t].article] \in {"running", "saved"}
      BY DEF IndInv, LedgerInv, StoredKept, Aimed, TypeOK, Task
    <2> QED BY <2>1 DEF IndInv, LedgerInv, SettledDone
  <1> QED BY <1>1, Inductive, PTL

-----------------------------------------------------------------------------
(* Cancellation *)

\* A cancelled job is rewritten by reconciliation only, and stays cancelled.
LEMMA CancelledControl ==
    ASSUME TypeOK, Control, NEW j \in Jobs, Cancelling(job[j])
    PROVE  Cancelling(job'[j]) /\ UNCHANGED task
  <1>1. PICK c \in Clients, i \in Jobs :
          \/ Start(c, i)
          \/ \E rev \in 1..job[i].rev :
               \/ NextItem(c, i, rev) \/ Cancel(c, i, rev) \/ Resume(c, i, rev)
               \/ \E a \in Articles : Checkpoint(c, i, rev, a)
    BY DEF Control
  <1>2. \E b : Record(i, b)
    BY <1>1 DEF Start, NextItem, Cancel, Resume, Checkpoint
  <1>3. UNCHANGED task /\ (i # j => job'[j] = job[j]) BY <1>2 DEF Record, collector, TypeOK
  <1>4. CASE i = j
    <2>0. job[j] \in Job BY DEF TypeOK
    <2>1. job[j].state \in {"cancelling", "cancelled"} BY DEF Cancelling
    <2>2. Withdrawn(job[j]) = job[j] BY <2>1 DEF Withdrawn, Settled
    <2>3. Cancelling(Reconciled(job[j])) BY <2>0, JobReconciled
    <2>4. ~MayProceed(Reconciled(job[j])) BY <2>3 DEF MayProceed, Cancelling, Settled
    <2>5. Record(j, Reconciled(job[j]))
      BY <1>1, <1>4, <2>1, <2>2, <2>4 DEF Start, NextItem, Cancel, Resume, Checkpoint
    <2> QED BY <1>3, <2>3, <2>5 DEF Record, TypeOK
  <1> QED BY <1>3, <1>4

\* An acknowledged cancellation is final: no revival, no page task, no page (CancelFinal).
THEOREM CancellationFinal == Spec => CancelFinal
  <1> DEFINE Fin(j) == Cancelling(job[j]) =>
                         /\ Cancelling(job'[j])
                         /\ \A t \in Tasks : task'[t].job = j =>
                               task[t].job = j /\ task'[t].navigated = task[t].navigated
  <1>1. ASSUME TypeOK, [Next]_vars, NEW j \in Jobs, Cancelling(job[j])
        PROVE  /\ Cancelling(job'[j])
               /\ \A t \in Tasks : task'[t].job = j =>
                     task[t].job = j /\ task'[t].navigated = task[t].navigated
    <2>0. j # None /\ task \in [Tasks -> Task] /\ job \in [Jobs -> Job]
      BY <1>1, RecoveryAssumption DEF TypeOK
    <2>1. CASE Control BY <1>1, <2>1, CancelledControl
    <2>2. CASE PageTask
      <3> SUFFICES ASSUME NEW c \in Clients, NEW t \in Tasks,
                      \/ \E i \in Jobs, a \in Articles : \E rev \in 1..job[i].rev : BeginTask(c, t, i, rev, a)
                      \/ BeginOther(c, t) \/ AdmitNavigation(c, t) \/ ObserveRestriction(c, t)
                      \/ \E result \in Results : FinishTask(c, t, result)
                      \/ AuthorizeSave(c, t)
                   PROVE  /\ Cancelling(job'[j])
                          /\ \A u \in Tasks : task'[u].job = j =>
                                task[u].job = j /\ task'[u].navigated = task[u].navigated
        BY <2>2 DEF PageTask
      <3>1. ASSUME NEW i \in Jobs, NEW a \in Articles, NEW rev \in 1..job[i].rev, BeginTask(c, t, i, rev, a)
            PROVE  i # j /\ job'[j] = job[j] /\ task'[t].job = i
                   /\ \A u \in Tasks \ {t} : task'[u] = task[u]
        <4>1. i # j BY <1>1, <3>1 DEF BeginTask, Bindable, MayProceed, Cancelling, Settled
        <4> QED BY <2>0, <3>1, <4>1 DEF BeginTask, Reserve, NoTask
      <3>2. CASE BeginOther(c, t)
        BY <1>1, <2>0, <3>2 DEF BeginOther, Reserve, NoTask
      <3>3. CASE AdmitNavigation(c, t)
        <4>1. task[t].job # j BY <1>1, <2>0, <3>3 DEF AdmitNavigation, BodyNavigationAllowed, Live, Cancelling, Settled
        <4>2. UNCHANGED job /\ task'[t].job = task[t].job /\ \A u \in Tasks \ {t} : task'[u] = task[u]
          BY <2>0, <3>3 DEF AdmitNavigation, Task
        <4> QED BY <1>1, <4>1, <4>2
      <3>4. CASE ObserveRestriction(c, t)
        BY <1>1, <2>0, <3>4 DEF ObserveRestriction, Task
      <3>5. ASSUME NEW result \in Results, FinishTask(c, t, result)
            PROVE  UNCHANGED job /\ \A u \in Tasks : /\ task'[u].job = task[u].job
                                                   /\ task'[u].navigated = task[u].navigated
        <4>1. PICK reported, restricted, met : Terminal(t, result, reported, restricted, met)
          BY <3>5, FinishEnds
        <4> QED BY <2>0, <4>1 DEF Terminal, Task
      <3>6. CASE AuthorizeSave(c, t) BY <1>1, <3>6 DEF AuthorizeSave, collector
      <3> QED BY <1>1, <3>1, <3>2, <3>3, <3>4, <3>5, <3>6
    <2>3. CASE Environment
      BY <1>1, <2>0, <2>3 DEF Environment, Recover, Terminal, ResumeSite, Select, DeadlinePasses, RepairBody,
         SaveFails, BodyChanges, collector, Task
    <2>4. CASE UNCHANGED vars BY <1>1, <2>4 DEF vars, collector
    <2> QED BY <1>1, <2>1, <2>2, <2>3, <2>4 DEF Next
  <1>2. TypeOK /\ [Next]_vars => [\A j \in Jobs : Fin(j)]_vars BY <1>1
  <1> QED BY <1>2, TypeCorrect, PTL DEF Spec, CancelFinal
=============================================================================
