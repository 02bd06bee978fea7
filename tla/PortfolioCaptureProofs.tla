------------------------ MODULE PortfolioCaptureProofs ------------------------
(***************************************************************************)
(* Proofs about PortfolioCapture for any processes, callers and accounts and *)
(* any bounds.  LocksOwned is inductive together with the types; everything   *)
(* else rests on it: whoever holds the file lock is alone in all processes.   *)
(***************************************************************************)
EXTENDS PortfolioCapture, FiniteSetTheorems, TLAPS

-----------------------------------------------------------------------------
(* The inductive invariant *)

\* Who holds the thread lock of a process, and who holds the file lock for it.
HoldsThread(c) == caller[c].pc \notin {"idle", "handed"}
HoldsFile(c) == caller[c].pc \in {"claimed", "created", "accepted", "copying"}
Works(p) == worker[p].pc # "none"
Boots(p) == boot[p] = "claimed"

\* LocksOwned, spelled out.
Owned ==
    \A p \in Processes :
        /\ threadLock[p] <=> \/ Works(p) \/ Boots(p)
                             \/ \E c \in Callers : Host[c] = p /\ HoldsThread(c)
        /\ fileLock = p <=> \/ Works(p) \/ Boots(p)
                            \/ \E c \in Callers : Host[c] = p /\ HoldsFile(c)
        /\ ~(Works(p) /\ Boots(p))
        /\ \A c \in Callers : Host[c] = p /\ HoldsThread(c) =>
              /\ ~Works(p) /\ ~Boots(p)
              /\ \A d \in Callers : Host[d] = p /\ HoldsThread(d) => d = c

\* Runs are referred to by the ids of rows that exist.
Referred ==
    /\ \A a \in Accounts : canon[a] <= last
    /\ \A p \in Processes : Works(p) => worker[p].run \in 1 .. last
    /\ \A c \in Callers : caller[c].pc \in {"created", "review", "accepted", "copying"}
                             => caller[c].run \in 1 .. last

\* A run is not complete before it is committed.
Uncommitted ==
    /\ \A r \in RunIds : r > last => ~runs[r].complete
    /\ \A p \in Processes : worker[p].pc \in {"gateway", "read"}
                               => ~runs[worker[p].run].complete
    /\ \A c \in Callers : caller[c].pc = "created" => ~runs[caller[c].run].complete

\* What is captured is at least as new as what the accounts hold.
Newest ==
    \A a \in Accounts :
        /\ \A p \in Processes : Works(p) => canon[a] <= worker[p].run
        /\ \A c \in Callers : caller[c].pc = "created" => canon[a] <= caller[c].run

\* Before the first change of settings only reviews copy, and a review that was
\* accepted is at least as new as what the accounts hold.
ReviewedOnly ==
    edits = 0 =>
        /\ \A a \in Accounts : mode[a] = "review" /\ ~archived[a]
        /\ \A p \in Processes : worker[p].left = {}
        /\ \A a \in Accounts : canon[a] # 0 => /\ runs[canon[a]].complete
                                               /\ a \in runs[canon[a]].seen
        /\ \A c \in Callers : caller[c].pc = "accepted" =>
              runs[caller[c].run].complete /\ \A a \in Accounts : canon[a] <= caller[c].run
        /\ \A c \in Callers : caller[c].pc # "copying" => caller[c].left = {}
        /\ \A c \in Callers : caller[c].pc = "copying" => \A a \in caller[c].left :
              /\ runs[caller[c].run].complete
              /\ a \in runs[caller[c].run].seen
              /\ canon[a] <= caller[c].run

\* A run is worked on until its worker only has the locks to give back.
WorkedOn(r) ==
    \/ \E p \in Processes : worker[p].pc \notin {"none", "releasing"} /\ worker[p].run = r
    \/ \E c \in Callers : caller[c].pc = "created" /\ caller[c].run = r

Left == {r \in RunIds : runs[r].state = "running" /\ ~WorkedOn(r)}

LeftByFailure == Cardinality(Left) <= faults + crashes

IndInv == /\ TypeOK /\ Owned /\ LiveRunIsRunning /\ Referred /\ Uncommitted
          /\ Newest /\ ReviewedOnly /\ LeftByFailure

-----------------------------------------------------------------------------
(* Types *)

\* What the assumptions say of each constant.
LEMMA Given ==
    /\ MaxRuns \in Nat /\ MaxEdits \in Nat /\ MaxFaults \in Nat /\ MaxCrashes \in Nat
    /\ Host \in [Callers -> Processes]
    /\ None \notin Processes
  <1>1. \A n \in {MaxRuns, MaxEdits, MaxFaults, MaxCrashes} : n \in Nat BY BoundsAssumption
  <1> QED BY <1>1, HostAssumption, NoneAssumption

\* The records of idle threads and absent rows are well typed.
LEMMA IdleTyped == CallerIdle \in CallerType /\ WorkerNone \in WorkerType /\ Absent \in RunType
  BY Given DEF CallerIdle, CallerType, CallerSteps, WorkerNone, WorkerType, WorkerSteps, Absent,
     RunType, Terminal

\* A row keeps its type when its state, or what was seen, is written.
LEMMA RunFields ==
    ASSUME NEW x \in RunType, NEW s \in Terminal \cup {"absent", "running"},
           NEW b \in BOOLEAN, NEW A \in SUBSET Accounts
    PROVE  /\ x.complete \in BOOLEAN /\ x.seen \in SUBSET Accounts
           /\ [x EXCEPT !.state = s] \in RunType
           /\ [[x EXCEPT !.complete = b] EXCEPT !.seen = A] \in RunType
  BY DEF RunType

\* Only one caller changes, to a well typed one.
LEMMA CallerTyped ==
    ASSUME TypeOK, NEW c \in Callers, NEW x \in CallerType, CallerBecomes(c, x)
    PROVE  caller' \in [Callers -> CallerType]
  BY DEF TypeOK, CallerBecomes

\* Only one worker changes, to a well typed one.
LEMMA WorkerTyped ==
    ASSUME TypeOK, NEW p \in Processes, NEW x \in WorkerType, WorkerBecomes(p, x)
    PROVE  worker' \in [Processes -> WorkerType]
  BY DEF TypeOK, WorkerBecomes

\* Writing a state keeps the rows well typed.
LEMMA RowsTyped ==
    ASSUME TypeOK, NEW r, NEW s \in Terminal \cup {"absent", "running"}, SetState(r, s)
    PROVE  runs' \in [RunIds -> RunType]
  <1>1. \A i \in RunIds : [runs[i] EXCEPT !.state = s] \in RunType
    BY RunFields DEF TypeOK
  <1> QED BY <1>1 DEF TypeOK, SetState

\* Taking and giving back locks keeps their types.
LEMMA LocksTyped ==
    ASSUME TypeOK, NEW p \in Processes, NEW b \in BOOLEAN
    PROVE  /\ LockThread(p) => threadLock' \in [Processes -> BOOLEAN]
           /\ LockFile(p) => fileLock' \in Processes \cup {None}
           /\ Release(p, b) => /\ threadLock' \in [Processes -> BOOLEAN]
                               /\ fileLock' \in Processes \cup {None}
           /\ WriteFails => faults' \in 0 .. MaxFaults
  <1>1. \A v \in BOOLEAN : [threadLock EXCEPT ![p] = v] \in [Processes -> BOOLEAN]
    BY Zenon DEF TypeOK
  <1>2. WriteFails => faults' \in 0 .. MaxFaults BY Given DEF WriteFails, TypeOK
  <1> QED BY <1>1, <1>2 DEF TypeOK, LockThread, LockFile, Release

\* The startup keeps the types.
LEMMA TypeBoot == ASSUME TypeOK, NEW p \in Processes, BootStep(p) PROVE TypeOK'
  <1>1. CASE BootClaims(p) BY <1>1, LocksTyped DEF BootClaims, TypeOK, BootSteps, rows, settings
  <1>2. CASE BootSkips(p) BY <1>2 DEF BootSkips, TypeOK, BootSteps, rows, settings, locks
  <1>3. CASE Reconcile(p)
    <2>1. runs' \in [RunIds -> RunType]
      <3>1. \A r \in RunIds : [runs[r] EXCEPT !.state = "interrupted"] \in RunType
        BY RunFields DEF TypeOK, Terminal
      <3> QED BY <1>3, <3>1 DEF Reconcile, Interrupted, TypeOK
    <2> QED BY <1>3, <2>1, LocksTyped DEF Reconcile, TypeOK, BootSteps, settings
  <1> QED BY <1>1, <1>2, <1>3 DEF BootStep

\* The worker keeps the types.
LEMMA TypeWorker == ASSUME TypeOK, NEW p \in Processes, WorkerStep(p) PROVE TypeOK'
  <1> DEFINE w == worker[p]
  <1>0. w \in WorkerType BY DEF TypeOK
  <1>a. /\ w.run \in 0 .. MaxRuns /\ w.complete \in BOOLEAN /\ w.outcome \in Terminal
        /\ w.seen \in SUBSET Accounts /\ w.left \in SUBSET Accounts
    BY <1>0 DEF WorkerType
  <1>b. \A s \in WorkerSteps : WorkerGo(p, s) => worker' \in [Processes -> WorkerType]
    <2> SUFFICES ASSUME NEW s \in WorkerSteps, WorkerGo(p, s)
                 PROVE  worker' \in [Processes -> WorkerType]
      OBVIOUS
    <2>1. [w EXCEPT !.pc = s] \in WorkerType BY <1>0 DEF WorkerType
    <2> QED BY <2>1, WorkerTyped DEF WorkerGo
  <1>c. \A o \in Terminal : Decide(p, o) => worker' \in [Processes -> WorkerType]
    <2> SUFFICES ASSUME NEW o \in Terminal, Decide(p, o) PROVE worker' \in [Processes -> WorkerType]
      OBVIOUS
    <2>1. [WorkerNone EXCEPT !.pc = "finishing", !.run = w.run, !.outcome = o] \in WorkerType
      BY <1>a DEF WorkerNone, WorkerType, WorkerSteps
    <2> QED BY <2>1, WorkerTyped DEF Decide
  <1>d. {"read", "committed", "copying", "releasing", "failing"} \subseteq WorkerSteps
    BY DEF WorkerSteps
  <1>e. {"blocked", "failed", "partial", "succeeded"} \subseteq Terminal BY DEF Terminal
  <1>f. Terminal \subseteq Terminal \cup {"absent", "running"} OBVIOUS
  <1> HIDE DEF w
  <1>1. CASE GatewayBusy(p)
    BY <1>1, <1>b, <1>c, <1>d, <1>e, LocksTyped DEF GatewayBusy, TypeOK, rows, settings, locks
  <1>2. CASE Read(p)
    <2>1. PICK b \in BOOLEAN, A \in SUBSET Accounts :
             WorkerBecomes(p, [w EXCEPT !.pc = "read", !.seen = A, !.complete = b])
      BY <1>2 DEF Read, w
    <2>2. [w EXCEPT !.pc = "read", !.seen = A, !.complete = b] \in WorkerType
      BY <1>0, <1>d DEF WorkerType
    <2>3. worker' \in [Processes -> WorkerType] BY <2>1, <2>2, WorkerTyped
    <2> QED BY <1>2, <2>3 DEF Read, TypeOK, rows, settings, locks
  <1>3. CASE ReadFails(p)
    BY <1>3, <1>b, <1>c, <1>d, <1>e, LocksTyped DEF ReadFails, TypeOK, rows, settings, locks
  <1>4. CASE Commit(p)
    <2>1. [runs[w.run] EXCEPT !.complete = w.complete, !.seen = w.seen] \in RunType
             \/ w.run \notin RunIds
      BY <1>a DEF TypeOK, RunType
    <2>2. runs' \in [RunIds -> RunType] BY <1>4, <2>1 DEF Commit, TypeOK, w
    <2> QED BY <1>4, <1>b, <1>d, <2>2 DEF Commit, TypeOK, settings, locks
  <1>5. CASE CommitFails(p)
    BY <1>5, <1>b, <1>c, <1>d, <1>e, LocksTyped DEF CommitFails, TypeOK, rows, settings, locks
  <1>6. CASE SelectAuto(p)
    <2>1. PICK A \in SUBSET Accounts :
             WorkerBecomes(p, [w EXCEPT !.pc = "copying", !.seen = {}, !.left = A])
      BY <1>6, <1>a DEF SelectAuto, w
    <2>2. [w EXCEPT !.pc = "copying", !.seen = {}, !.left = A] \in WorkerType
      BY <1>0, <1>d DEF WorkerType
    <2>3. worker' \in [Processes -> WorkerType] BY <2>1, <2>2, WorkerTyped
    <2> QED BY <1>6, <2>3 DEF SelectAuto, TypeOK, rows, settings, locks
  <1>7. CASE Copy(p)
    <2>1. PICK a \in w.left : /\ canon' = [canon EXCEPT ![a] = w.run]
                               /\ WorkerBecomes(p, [w EXCEPT !.left = w.left \ {a}])
      BY <1>7 DEF Copy, w
    <2>2. [w EXCEPT !.left = w.left \ {a}] \in WorkerType BY <1>0, <1>a DEF WorkerType
    <2>3. worker' \in [Processes -> WorkerType] BY <2>1, <2>2, WorkerTyped
    <2>4. canon' \in [Accounts -> 0 .. MaxRuns] BY <2>1, <1>a DEF TypeOK
    <2> QED BY <1>7, <2>3, <2>4 DEF Copy, TypeOK, rows, settings, locks
  <1>8. CASE CopyFails(p)
    BY <1>8, <1>b, <1>c, <1>d, <1>e, LocksTyped DEF CopyFails, TypeOK, rows, settings, locks
  <1>9. CASE Conclude(p)
    BY <1>9, <1>b, <1>c, <1>d, <1>e, LocksTyped DEF Conclude, TypeOK, rows, settings, locks
  <1>10. CASE Finish(p)
    <2>1. runs' \in [RunIds -> RunType] BY <1>10, <1>a, <1>f, RowsTyped DEF Finish, FinishRun, w
    <2> QED BY <1>10, <1>b, <1>d, <2>1 DEF Finish, FinishRun, TypeOK, settings, locks
  <1>11. CASE FinishFails(p)
    BY <1>11, <1>b, <1>c, <1>d, <1>e, LocksTyped DEF FinishFails, TypeOK, rows, settings, locks
  <1>12. CASE FinishFailed(p)
    <2>1. runs' \in [RunIds -> RunType] /\ last' = last /\ faults' \in 0 .. MaxFaults
      BY <1>12, <1>e, <1>f, RowsTyped, LocksTyped DEF FinishFailed, FinishRun, TypeOK, rows
    <2> QED BY <1>12, <1>b, <1>d, <2>1 DEF FinishFailed, TypeOK, settings, locks
  <1>13. CASE WorkerReleases(p)
    <2>1. worker' \in [Processes -> WorkerType] BY <1>13, IdleTyped, WorkerTyped DEF WorkerReleases
    <2> QED BY <1>13, <2>1, LocksTyped DEF WorkerReleases, TypeOK, rows, settings
  <1> QED BY <1>1, <1>2, <1>3, <1>4, <1>5, <1>6, <1>7, <1>8, <1>9, <1>10, <1>11, <1>12, <1>13 DEF WorkerStep

\* The caller keeps the types.
LEMMA TypeCaller ==
    ASSUME TypeOK, Referred, NEW c \in Callers, CallerStep(c) \/ Trigger(c) \/ Review(c) PROVE TypeOK'
  <1> DEFINE x == caller[c]
  <1>0. x \in CallerType /\ Host[c] \in Processes BY Given DEF TypeOK
  <1>a. x.run \in 0 .. MaxRuns /\ x.left \in SUBSET Accounts BY <1>0 DEF CallerType
  <1>b. \A s \in CallerSteps : CallerGo(c, s) => caller' \in [Callers -> CallerType]
    <2> SUFFICES ASSUME NEW s \in CallerSteps, CallerGo(c, s)
                 PROVE  caller' \in [Callers -> CallerType]
      OBVIOUS
    <2>1. [x EXCEPT !.pc = s] \in CallerType BY <1>0 DEF CallerType
    <2> QED BY <2>1, CallerTyped DEF CallerGo
  <1>c. CallerLeaves(c) => caller' \in [Callers -> CallerType]
    BY IdleTyped, CallerTyped DEF CallerLeaves
  <1>d. {"locked", "claimed", "created", "handed", "review", "accepted", "copying"} \subseteq CallerSteps
    BY DEF CallerSteps
  <1>e. {"blocked", "running", "failed"} \subseteq Terminal \cup {"absent", "running"} BY DEF Terminal
  <1> HIDE DEF x
  <1>1. CASE TriggerRefused(c)
    <2>1. runs' \in [RunIds -> RunType] /\ last' \in 0 .. MaxRuns
      BY <1>1, <1>e, RowsTyped, Given DEF TriggerRefused, TypeOK, rows
    <2> QED BY <1>1, <1>0, <1>c, <2>1, LocksTyped DEF TriggerRefused, TypeOK, settings
  <1>2. CASE Claim(c)
    BY <1>2, <1>0, <1>b, <1>c, <1>d, LocksTyped DEF Claim, TypeOK, rows, settings, locks
  <1>3. CASE CreateRun(c)
    <2>1. runs' \in [RunIds -> RunType] /\ last + 1 \in 0 .. MaxRuns
      BY <1>3, <1>e, RowsTyped, Given DEF CreateRun, TypeOK
    <2>2. [x EXCEPT !.pc = "created", !.run = last + 1] \in CallerType
      BY <1>0, <1>d, <2>1 DEF CallerType
    <2>3. caller' \in [Callers -> CallerType] BY <1>3, <2>2, CallerTyped DEF CreateRun, x
    <2> QED BY <1>3, <2>1, <2>3 DEF CreateRun, TypeOK, settings, locks
  <1>4. CASE CreateRunFails(c)
    BY <1>4, <1>0, <1>b, <1>c, <1>d, LocksTyped DEF CreateRunFails, TypeOK, rows, settings, locks
  <1>5. CASE StartWorker(c)
    <2>1. [WorkerNone EXCEPT !.pc = "gateway", !.run = x.run] \in WorkerType
      BY <1>a DEF WorkerNone, WorkerType, WorkerSteps, Terminal
    <2>2. worker' \in [Processes -> WorkerType] BY <1>5, <1>0, <2>1, WorkerTyped DEF StartWorker, x
    <2> QED BY <1>5, <1>b, <1>d, <2>2 DEF StartWorker, TypeOK, rows, settings, locks
  <1>6. CASE StartFails(c)
    <2>1. runs' \in [RunIds -> RunType] /\ last' = last /\ faults' \in 0 .. MaxFaults
      BY <1>6, <1>0, <1>e, RowsTyped, LocksTyped DEF StartFails, FinishRun, TypeOK, rows
    <2> QED BY <1>6, <1>0, <1>c, <2>1, LocksTyped DEF StartFails, TypeOK, settings
  <1>7. CASE Return(c)
    BY <1>7, <1>0, <1>b, <1>c, <1>d, LocksTyped DEF Return, TypeOK, rows, settings, locks
  <1>8. CASE ReviewBusy(c)
    BY <1>8, <1>0, <1>b, <1>c, <1>d, LocksTyped DEF ReviewBusy, TypeOK, rows, settings, locks
  <1>9. CASE ReviewClaims(c)
    BY <1>9, <1>0, <1>b, <1>c, <1>d, LocksTyped DEF ReviewClaims, TypeOK, rows, settings, locks
  <1>10. CASE ReviewSelects(c)
    <2>1. PICK A \in SUBSET Accounts : CallerBecomes(c, [x EXCEPT !.pc = "copying", !.left = A])
      <3>1. x.run \in RunIds BY <1>10, Given DEF ReviewSelects, Referred, x, TypeOK, RunIds
      <3>2. runs[x.run].seen \in SUBSET Accounts BY <3>1 DEF TypeOK, RunType
      <3> QED BY <1>10, <3>2 DEF ReviewSelects, x
    <2>2. [x EXCEPT !.pc = "copying", !.left = A] \in CallerType BY <1>0, <1>d DEF CallerType
    <2>3. caller' \in [Callers -> CallerType] BY <2>1, <2>2, CallerTyped
    <2> QED BY <1>10, <2>3 DEF ReviewSelects, TypeOK, rows, settings, locks
  <1>11. CASE ReviewCopies(c)
    <2>1. PICK a \in x.left : /\ canon' = [canon EXCEPT ![a] = x.run]
                               /\ CallerBecomes(c, [x EXCEPT !.left = x.left \ {a}])
      BY <1>11 DEF ReviewCopies, x
    <2>2. [x EXCEPT !.left = x.left \ {a}] \in CallerType BY <1>0, <1>a DEF CallerType
    <2>3. caller' \in [Callers -> CallerType] BY <2>1, <2>2, CallerTyped
    <2>4. canon' \in [Accounts -> 0 .. MaxRuns] BY <2>1, <1>a DEF TypeOK
    <2> QED BY <1>11, <2>3, <2>4 DEF ReviewCopies, TypeOK, rows, settings, locks
  <1>12. CASE ReviewEnds(c)
    BY <1>12, <1>0, <1>b, <1>c, <1>d, LocksTyped DEF ReviewEnds, TypeOK, rows, settings, locks
  <1>13. CASE Trigger(c)
    BY <1>13, <1>0, <1>b, <1>c, <1>d, LocksTyped DEF Trigger, TypeOK, rows, settings, locks
  <1>14. CASE Review(c)
    <2>1. PICK r \in 1 .. last : CallerBecomes(c, [x EXCEPT !.pc = "review", !.run = r])
      BY <1>14 DEF Review, x
    <2>0. r \in 0 .. MaxRuns BY Given DEF TypeOK
    <2>2. [x EXCEPT !.pc = "review", !.run = r] \in CallerType BY <1>0, <1>d, <2>0 DEF CallerType
    <2>3. caller' \in [Callers -> CallerType] BY <2>1, <2>2, CallerTyped
    <2> QED BY <1>14, <1>0, <2>3, LocksTyped DEF Review, TypeOK, rows, settings
  <1> QED BY <1>1, <1>2, <1>3, <1>4, <1>5, <1>6, <1>7, <1>8, <1>9, <1>10, <1>11, <1>12, <1>13, <1>14 DEF CallerStep

\* A change of settings keeps the types.
LEMMA TypeSettings ==
    ASSUME TypeOK, NEW a \in Accounts, SetMode(a) \/ SetArchived(a) PROVE TypeOK'
  <1>1. edits' \in 0 .. MaxEdits BY Given DEF SetMode, SetArchived, Edit, TypeOK
  <1>2. mode' \in [Accounts -> {"auto", "review"}] BY DEF SetMode, SetArchived, TypeOK
  <1>3. archived' \in [Accounts -> BOOLEAN] BY Zenon DEF SetMode, SetArchived, TypeOK
  <1> QED BY <1>1, <1>2, <1>3 DEF SetMode, SetArchived, TypeOK, rows, locks

\* The death of a process keeps the types.
LEMMA TypeCrash == ASSUME TypeOK, NEW p \in Processes, Crash(p) PROVE TypeOK'
  <1>1. caller' \in [Callers -> CallerType] BY IdleTyped DEF Crash, TypeOK
  <1>2. worker' \in [Processes -> WorkerType] BY IdleTyped, WorkerTyped DEF Crash
  <1>3. crashes' \in 0 .. MaxCrashes BY Given DEF Crash, TypeOK
  <1>4. threadLock' \in [Processes -> BOOLEAN] BY Zenon DEF Crash, TypeOK
  <1> QED BY <1>1, <1>2, <1>3, <1>4 DEF Crash, TypeOK, BootSteps, rows, settings

\* Every step keeps the types.
LEMMA TypeStep == TypeOK /\ Referred /\ [Next]_vars => TypeOK'
  <1> SUFFICES ASSUME TypeOK, Referred, [Next]_vars PROVE TypeOK' OBVIOUS
  <1>1. CASE Next BY <1>1, TypeBoot, TypeWorker, TypeCaller, TypeSettings, TypeCrash DEF Next
  <1>2. CASE UNCHANGED vars BY <1>2 DEF vars, rows, settings, locks, TypeOK
  <1> QED BY <1>1, <1>2

-----------------------------------------------------------------------------
(* The locks *)

\* Whoever holds the file lock is the only one to hold it, in all processes.
LEMMA Alone ==
    ASSUME TypeOK, Owned
    PROVE  /\ \A p, q \in Processes : Works(p) => ~Boots(q) /\ (Works(q) => q = p)
           /\ \A c \in Callers, q \in Processes : HoldsFile(c) => ~Works(q) /\ ~Boots(q)
           /\ \A c, d \in Callers : HoldsFile(c) /\ HoldsFile(d) => c = d
           /\ \A p, q \in Processes : Boots(p) /\ Boots(q) => p = q
  <1> DEFINE holds(p) == \/ Works(p) \/ Boots(p)
                         \/ \E c \in Callers : Host[c] = p /\ HoldsFile(c)
  <1>1. \A p \in Processes : holds(p) => fileLock = p BY DEF Owned
  <1>2. \A p, q \in Processes : holds(p) /\ holds(q) => p = q BY <1>1, Zenon
  <1>3. \A c \in Callers : Host[c] \in Processes BY Given
  <1>4. \A c \in Callers : HoldsFile(c) => HoldsThread(c) BY DEF HoldsFile, HoldsThread
  <1>5. \A c \in Callers : HoldsFile(c) => holds(Host[c]) BY <1>3
  <1>6. \A p \in Processes : ~(Works(p) /\ Boots(p)) BY DEF Owned
  <1>7. \A c \in Callers : HoldsFile(c) => ~Works(Host[c]) /\ ~Boots(Host[c])
    BY <1>3, <1>4 DEF Owned
  <1>8. \A c, d \in Callers : HoldsFile(c) /\ HoldsFile(d) /\ Host[c] = Host[d] => c = d
    BY <1>3, <1>4 DEF Owned
  <1>9. \A p \in Processes : Works(p) \/ Boots(p) => holds(p) OBVIOUS
  <1> HIDE DEF holds
  <1> QED BY <1>2, <1>3, <1>5, <1>6, <1>7, <1>8, <1>9

\* While nobody comes to hold a lock or ceases to, the locks stay owned.
LEMMA OwnedKept ==
    ASSUME Owned, UNCHANGED locks,
           \A p \in Processes : (Works(p)' <=> Works(p)) /\ (Boots(p)' <=> Boots(p)),
           \A c \in Callers : /\ HoldsThread(c)' <=> HoldsThread(c)
                              /\ HoldsFile(c)' <=> HoldsFile(c)
    PROVE  Owned'
  BY DEF Owned, locks

\* A worker that neither starts nor ends leaves the locks owned.
LEMMA WorkerKeepsOwned ==
    ASSUME TypeOK, Owned, UNCHANGED <<boot, locks, caller>>, NEW p \in Processes, NEW w,
           Works(p), w.pc # "none", WorkerBecomes(p, w)
    PROVE  Owned'
  <1>1. \A q \in Processes : Works(q)' <=> Works(q) BY DEF TypeOK, WorkerBecomes, Works
  <1> QED BY <1>1, OwnedKept DEF Boots, HoldsThread, HoldsFile

\* Only caller c moves: what every caller holds afterwards.
LEMMA CallerMoves ==
    ASSUME TypeOK, NEW c \in Callers, NEW x, CallerBecomes(c, x), UNCHANGED <<boot, worker>>
    PROVE  /\ \A d \in Callers : d # c => /\ HoldsThread(d)' <=> HoldsThread(d)
                                          /\ HoldsFile(d)' <=> HoldsFile(d)
           /\ HoldsThread(c)' <=> x.pc \notin {"idle", "handed"}
           /\ HoldsFile(c)' <=> x.pc \in {"claimed", "created", "accepted", "copying"}
           /\ \A p \in Processes : (Works(p)' <=> Works(p)) /\ (Boots(p)' <=> Boots(p))
           /\ Host[c] \in Processes
  BY Given DEF TypeOK, CallerBecomes, HoldsThread, HoldsFile, Works, Boots

\* The thread lock a caller takes was nobody's.
LEMMA CallerTakes ==
    ASSUME TypeOK, Owned, NEW c \in Callers, NEW x, CallerBecomes(c, x),
           UNCHANGED <<boot, worker, fileLock>>,
           x.pc \in {"locked", "review"}, LockThread(Host[c])
    PROVE  Owned'
  <1>1. /\ threadLock' = [threadLock EXCEPT ![Host[c]] = TRUE] /\ ~threadLock[Host[c]]
        /\ \A p \in Processes : threadLock'[p] <=> (p = Host[c] \/ threadLock[p])
    BY Zenon DEF LockThread, TypeOK
  <1>2. HoldsThread(c)' /\ ~HoldsFile(c)' BY CallerMoves
  <1>3. ~HoldsThread(c) /\ ~HoldsFile(c)
    BY <1>1, CallerMoves DEF Owned, HoldsThread, HoldsFile
  <1> QED BY <1>1, <1>2, <1>3, CallerMoves DEF Owned

\* The file lock a caller takes for its process was nobody's.
LEMMA CallerClaims ==
    ASSUME TypeOK, Owned, NEW c \in Callers, NEW x, CallerBecomes(c, x),
           UNCHANGED <<boot, worker, threadLock>>, HoldsThread(c),
           x.pc \in {"claimed", "accepted", "copying"}, LockFile(Host[c])
    PROVE  Owned'
  <1>1. HoldsThread(c)' /\ HoldsFile(c)' BY CallerMoves
  <1>2. fileLock = None /\ fileLock' = Host[c] BY DEF LockFile
  <1>3. \A p \in Processes : fileLock # p BY <1>2, Given
  <1>4. \A p \in Processes : ~Works(p) /\ ~Boots(p)
          /\ \A d \in Callers : Host[d] = p => ~HoldsFile(d) BY <1>3 DEF Owned
  <1> QED BY <1>1, <1>2, <1>4, CallerMoves DEF Owned

\* What a caller gives back is what it held.
LEMMA CallerReleases ==
    ASSUME TypeOK, Owned, NEW c \in Callers, CallerLeaves(c),
           UNCHANGED <<boot, worker>>, HoldsThread(c),
           NEW b \in BOOLEAN, b <=> HoldsFile(c), Release(Host[c], b)
    PROVE  Owned'
  <1>1. ~HoldsThread(c)' /\ ~HoldsFile(c)' BY CallerMoves DEF CallerLeaves, CallerIdle
  <1>2. \A p \in Processes : threadLock'[p] <=> (p # Host[c] /\ threadLock[p])
    BY CallerMoves, Zenon DEF Release, TypeOK
  <1>3. /\ ~Works(Host[c]) /\ ~Boots(Host[c])
        /\ \A d \in Callers : d # c /\ Host[d] = Host[c] => ~HoldsThread(d) /\ ~HoldsFile(d)
    <2>1. Host[c] \in Processes BY Given
    <2>2. \A d \in Callers : HoldsFile(d) => HoldsThread(d) BY DEF HoldsFile, HoldsThread
    <2> QED BY <2>1, <2>2 DEF Owned
  <1>4. \A p \in Processes : fileLock' = p <=> (fileLock = p /\ p # Host[c])
    BY <1>3, Given DEF Release, Owned
  <1> QED BY <1>1, <1>2, <1>3, <1>4, CallerMoves DEF Owned, CallerLeaves

\* The startup takes and gives back both locks.
LEMMA OwnedBoot == ASSUME TypeOK, Owned, NEW p \in Processes, BootStep(p) PROVE Owned'
  <1>1. CASE BootClaims(p)
    <2>1. /\ \A q \in Processes : Boots(q)' <=> (q = p \/ Boots(q))
          /\ \A q \in Processes : Works(q)' <=> Works(q)
          /\ \A c \in Callers : /\ HoldsThread(c)' <=> HoldsThread(c)
                                /\ HoldsFile(c)' <=> HoldsFile(c)
      BY <1>1 DEF BootClaims, TypeOK, Boots, Works, HoldsThread, HoldsFile
    <2>2. ~threadLock[p] /\ \A q \in Processes : threadLock'[q] <=> (q = p \/ threadLock[q])
      BY <1>1, Zenon DEF BootClaims, LockThread, TypeOK
    <2>3. fileLock = None /\ fileLock' = p BY <1>1 DEF BootClaims, LockFile
    <2>4. \A q \in Processes : fileLock # q BY <2>3, Given
    <2> QED BY <2>1, <2>2, <2>3, <2>4 DEF Owned
  <1>2. CASE BootSkips(p)
    <2>1. \A q \in Processes : Boots(q)' <=> Boots(q) BY <1>2 DEF BootSkips, Boots, TypeOK
    <2> QED BY <1>2, <2>1, OwnedKept DEF BootSkips, Works, HoldsThread, HoldsFile
  <1>3. CASE Reconcile(p)
    <2>1. /\ \A q \in Processes : Boots(q)' <=> (q # p /\ Boots(q))
          /\ \A q \in Processes : Works(q)' <=> Works(q)
          /\ \A c \in Callers : /\ HoldsThread(c)' <=> HoldsThread(c)
                                /\ HoldsFile(c)' <=> HoldsFile(c)
      BY <1>3 DEF Reconcile, TypeOK, Boots, Works, HoldsThread, HoldsFile
    <2>2. \A q \in Processes : threadLock'[q] <=> (q # p /\ threadLock[q])
      BY <1>3, Zenon DEF Reconcile, Release, TypeOK
    <2>3. Boots(p) /\ fileLock' = None BY <1>3 DEF Reconcile, Release, Boots
    <2>4. /\ \A q \in Processes : ~Works(q) /\ (Boots(q) => q = p)
          /\ \A c \in Callers : ~HoldsFile(c)
      BY <2>3, Alone
    <2>5. \A c \in Callers : Host[c] = p => ~HoldsThread(c) BY <2>3 DEF Owned
    <2>6. \A q \in Processes : fileLock' # q BY <2>3, Given
    <2> QED BY <2>1, <2>2, <2>3, <2>4, <2>5, <2>6 DEF Owned
  <1> QED BY <1>1, <1>2, <1>3 DEF BootStep

\* The worker keeps what it was handed until it gives back both locks.
LEMMA OwnedWorker == ASSUME TypeOK, Owned, NEW p \in Processes, WorkerStep(p) PROVE Owned'
  <1>1. Works(p) /\ Host \in [Callers -> Processes]
    BY Given DEF WorkerStep, GatewayBusy, Read, ReadFails, Commit, CommitFails, SelectAuto, Copy,
       CopyFails, Conclude, Finish, FinishFails, FinishFailed, WorkerReleases, Works
  <1>2. CASE WorkerReleases(p)
    <2>1. /\ \A q \in Processes : Works(q)' <=> (q # p /\ Works(q))
          /\ \A q \in Processes : Boots(q)' <=> Boots(q)
          /\ \A c \in Callers : /\ HoldsThread(c)' <=> HoldsThread(c)
                                /\ HoldsFile(c)' <=> HoldsFile(c)
      BY <1>2 DEF WorkerReleases, WorkerBecomes, WorkerNone, TypeOK, Boots, Works,
         HoldsThread, HoldsFile
    <2>2. \A q \in Processes : threadLock'[q] <=> (q # p /\ threadLock[q])
      BY <1>2, Zenon DEF WorkerReleases, Release, TypeOK
    <2>3. fileLock' = None BY <1>2 DEF WorkerReleases, Release
    <2>4. /\ \A q \in Processes : ~Boots(q) /\ (Works(q) => q = p)
          /\ \A c \in Callers : ~HoldsFile(c)
      BY <1>1, Alone
    <2>5. \A c \in Callers : Host[c] = p => ~HoldsThread(c) BY <1>1 DEF Owned
    <2>6. \A q \in Processes : fileLock' # q BY <2>3, Given
    <2> QED BY <2>1, <2>2, <2>3, <2>4, <2>5, <2>6 DEF Owned
  <1>3. CASE ~WorkerReleases(p)
    <2>1. UNCHANGED <<boot, locks, caller>>
      BY <1>3 DEF WorkerStep, GatewayBusy, Read, ReadFails, Commit, CommitFails, SelectAuto, Copy,
         CopyFails, Conclude, Finish, FinishFails, FinishFailed
    <2>2. \E w : w.pc # "none" /\ WorkerBecomes(p, w)
      <3>0. worker[p] \in WorkerType BY DEF TypeOK
      <3>1. \A s : WorkerGo(p, s) /\ s # "none" => \E w : w.pc # "none" /\ WorkerBecomes(p, w)
        <4> SUFFICES ASSUME NEW s, WorkerGo(p, s), s # "none"
                     PROVE  \E w : w.pc # "none" /\ WorkerBecomes(p, w)
          OBVIOUS
        <4>1. [worker[p] EXCEPT !.pc = s].pc = s BY <3>0 DEF WorkerType
        <4> QED BY <4>1 DEF WorkerGo
      <3>2. \A o : Decide(p, o) => \E w : w.pc # "none" /\ WorkerBecomes(p, w)
        <4> SUFFICES ASSUME NEW o, Decide(p, o)
                     PROVE  \E w : w.pc # "none" /\ WorkerBecomes(p, w)
          OBVIOUS
        <4>1. [WorkerNone EXCEPT !.pc = "finishing", !.run = worker[p].run, !.outcome = o].pc
                 = "finishing"
          BY DEF WorkerNone
        <4> QED BY <4>1 DEF Decide
      <3>3. CASE Read(p)
        <4>1. PICK b, A : WorkerBecomes(p, [worker[p] EXCEPT !.pc = "read", !.seen = A,
                                                             !.complete = b])
          BY <3>3 DEF Read
        <4>2. [worker[p] EXCEPT !.pc = "read", !.seen = A, !.complete = b].pc = "read"
          BY <3>0 DEF WorkerType
        <4> QED BY <4>1, <4>2
      <3>4. CASE SelectAuto(p)
        <4>1. PICK A : WorkerBecomes(p, [worker[p] EXCEPT !.pc = "copying", !.seen = {},
                                                          !.left = A])
          BY <3>4 DEF SelectAuto
        <4>2. [worker[p] EXCEPT !.pc = "copying", !.seen = {}, !.left = A].pc = "copying"
          BY <3>0 DEF WorkerType
        <4> QED BY <4>1, <4>2
      <3>5. CASE Copy(p)
        <4>1. PICK A : WorkerBecomes(p, [worker[p] EXCEPT !.left = A]) BY <3>5 DEF Copy
        <4>2. [worker[p] EXCEPT !.left = A].pc # "none" BY <3>0, <3>5 DEF WorkerType, Copy
        <4> QED BY <4>1, <4>2
      <3>6. CASE GatewayBusy(p) BY <3>6, <3>2 DEF GatewayBusy
      <3>7. CASE ReadFails(p) BY <3>7, <3>2 DEF ReadFails
      <3>8. CASE Commit(p) BY <3>8, <3>1 DEF Commit
      <3>9. CASE CommitFails(p) BY <3>9, <3>2 DEF CommitFails
      <3>10. CASE CopyFails(p) BY <3>10, <3>2 DEF CopyFails
      <3>11. CASE Conclude(p) BY <3>11, <3>2 DEF Conclude
      <3>12. CASE Finish(p) BY <3>12, <3>1 DEF Finish
      <3>13. CASE FinishFails(p)
        <4>1. (IF worker[p].outcome = "blocked" THEN "releasing" ELSE "failing") # "none" OBVIOUS
        <4> QED BY <4>1, <3>13, <3>1 DEF FinishFails
      <3>14. CASE FinishFailed(p) BY <3>14, <3>1 DEF FinishFailed
      <3> QED BY <1>3, <3>3, <3>4, <3>5, <3>6, <3>7, <3>8, <3>9, <3>10, <3>11, <3>12, <3>13,
                 <3>14 DEF WorkerStep
    <2> QED BY <1>1, <2>1, <2>2, WorkerKeepsOwned
  <1> QED BY <1>2, <1>3

\* A caller takes the locks one after the other and gives back what it holds, or
\* hands both to its worker.
LEMMA OwnedCaller ==
    ASSUME TypeOK, Owned, NEW c \in Callers, CallerStep(c) \/ Trigger(c) \/ Review(c)
    PROVE  Owned'
  <1> DEFINE x == caller[c]
  <1>0. x \in CallerType /\ Host[c] \in Processes BY Given DEF TypeOK
  <1>a. \A s : [x EXCEPT !.pc = s].pc = s BY <1>0 DEF CallerType
  <1>b. \A s, r : [x EXCEPT !.pc = s, !.run = r].pc = s BY <1>0 DEF CallerType
  <1>c. \A s, A : [x EXCEPT !.pc = s, !.left = A].pc = s BY <1>0 DEF CallerType
  <1>d. \A A : [x EXCEPT !.left = A].pc = x.pc BY <1>0 DEF CallerType
  <1> HIDE DEF x
  <1>1. CASE Trigger(c) BY <1>1, <1>a, CallerTakes DEF Trigger, CallerGo, x
  <1>2. CASE Review(c)
    <2>1. PICK r : CallerBecomes(c, [x EXCEPT !.pc = "review", !.run = r]) /\ LockThread(Host[c])
      BY <1>2 DEF Review, x
    <2>2. [x EXCEPT !.pc = "review", !.run = r].pc = "review" BY <1>b
    <2>3. UNCHANGED <<boot, worker, fileLock>> BY <1>2 DEF Review
    <2> QED BY <2>1, <2>2, <2>3, CallerTakes
  <1>3. CASE Claim(c)
    <2>1. HoldsThread(c) BY <1>3 DEF Claim, HoldsThread
    <2> QED BY <1>3, <2>1, <1>a, CallerClaims DEF Claim, CallerGo, x
  <1>4. CASE ReviewClaims(c)
    <2>1. HoldsThread(c) BY <1>4 DEF ReviewClaims, HoldsThread
    <2>2. \E s \in {"accepted", "copying"} : CallerBecomes(c, [x EXCEPT !.pc = s])
      BY <1>4 DEF ReviewClaims, CallerGo, x
    <2> QED BY <1>4, <2>1, <2>2, <1>a, CallerClaims DEF ReviewClaims
  <1>5. CASE TriggerRefused(c)
    <2>1. HoldsThread(c) /\ ~HoldsFile(c) BY <1>5 DEF TriggerRefused, HoldsThread, HoldsFile
    <2> QED BY <1>5, <2>1, CallerReleases DEF TriggerRefused
  <1>6. CASE ReviewBusy(c)
    <2>1. HoldsThread(c) /\ ~HoldsFile(c) BY <1>6 DEF ReviewBusy, HoldsThread, HoldsFile
    <2> QED BY <1>6, <2>1, CallerReleases DEF ReviewBusy
  <1>7. CASE CreateRunFails(c) \/ StartFails(c) \/ ReviewEnds(c)
    <2>1. /\ HoldsThread(c) /\ HoldsFile(c)
          /\ Release(Host[c], TRUE) /\ CallerLeaves(c) /\ UNCHANGED <<boot, worker>>
      BY <1>7 DEF CreateRunFails, StartFails, ReviewEnds, HoldsThread, HoldsFile
    <2> QED BY <2>1, CallerReleases
  <1>8. CASE CreateRun(c) \/ ReviewSelects(c) \/ ReviewCopies(c)
    <2>1. /\ HoldsThread(c) /\ HoldsFile(c) /\ UNCHANGED <<boot, locks, worker>>
      BY <1>8 DEF CreateRun, ReviewSelects, ReviewCopies, HoldsThread, HoldsFile
    <2>2. \E y : /\ CallerBecomes(c, y)
                 /\ y.pc \in {"created", "copying"}
      <3>1. CASE CreateRun(c) BY <3>1, <1>b DEF CreateRun, x
      <3>2. CASE ReviewSelects(c) BY <3>2, <1>c DEF ReviewSelects, x
      <3>3. CASE ReviewCopies(c)
        <4>1. PICK A : CallerBecomes(c, [x EXCEPT !.left = A]) BY <3>3 DEF ReviewCopies, x
        <4>2. x.pc = "copying" BY <3>3 DEF ReviewCopies, x
        <4> QED BY <4>1, <4>2, <1>d
      <3> QED BY <1>8, <3>1, <3>2, <3>3
    <2> QED BY <2>1, <2>2, CallerMoves, OwnedKept
  <1>9. CASE Return(c)
    <2>1. /\ ~HoldsThread(c) /\ ~HoldsFile(c) /\ UNCHANGED <<boot, locks, worker>>
          /\ CallerBecomes(c, CallerIdle)
      BY <1>9 DEF Return, HoldsThread, HoldsFile, CallerLeaves
    <2> QED BY <2>1, CallerMoves, OwnedKept DEF CallerIdle
  <1>10. CASE StartWorker(c)
    <2>1. /\ \A q \in Processes : Works(q)' <=> (q = Host[c] \/ Works(q))
          /\ \A q \in Processes : Boots(q)' <=> Boots(q)
      BY <1>10, <1>0 DEF StartWorker, WorkerBecomes, WorkerNone, TypeOK, Boots, Works
    <2>2. /\ \A d \in Callers : HoldsThread(d)' <=> (d # c /\ HoldsThread(d))
          /\ \A d \in Callers : HoldsFile(d)' <=> (d # c /\ HoldsFile(d))
      BY <1>10, <1>a DEF StartWorker, CallerGo, CallerBecomes, TypeOK, HoldsThread, HoldsFile, x
    <2>3. HoldsThread(c) /\ HoldsFile(c) BY <1>10 DEF StartWorker, HoldsThread, HoldsFile
    <2>4. UNCHANGED <<threadLock, fileLock>> BY <1>10 DEF StartWorker, locks
    <2>5. \A d \in Callers : HoldsFile(d) => HoldsThread(d) BY DEF HoldsFile, HoldsThread
    <2>6. /\ threadLock[Host[c]] /\ fileLock = Host[c] /\ ~Works(Host[c]) /\ ~Boots(Host[c])
          /\ \A d \in Callers : Host[d] = Host[c] /\ HoldsThread(d) => d = c
      BY <1>0, <2>3 DEF Owned
    <2> QED BY <1>0, <2>1, <2>2, <2>3, <2>4, <2>5, <2>6 DEF Owned
  <1> QED BY <1>1, <1>2, <1>3, <1>4, <1>5, <1>6, <1>7, <1>8, <1>9, <1>10 DEF CallerStep

\* A death gives back whatever the process held.
LEMMA OwnedCrash == ASSUME TypeOK, Owned, NEW p \in Processes, Crash(p) PROVE Owned'
  <1>1. /\ \A q \in Processes : Works(q)' <=> (q # p /\ Works(q))
        /\ \A q \in Processes : Boots(q)' <=> (q # p /\ Boots(q))
    BY DEF Crash, WorkerBecomes, WorkerNone, TypeOK, Boots, Works
  <1>2. /\ \A c \in Callers : HoldsThread(c)' <=> (Host[c] # p /\ HoldsThread(c))
        /\ \A c \in Callers : HoldsFile(c)' <=> (Host[c] # p /\ HoldsFile(c))
    BY DEF Crash, TypeOK, CallerIdle, HoldsThread, HoldsFile
  <1>3. \A q \in Processes : threadLock'[q] <=> (q # p /\ threadLock[q])
    BY Zenon DEF Crash, TypeOK
  <1>4. \A q \in Processes : fileLock' = q <=> (q # p /\ fileLock = q)
    BY Given DEF Crash
  <1> QED BY <1>1, <1>2, <1>3, <1>4 DEF Owned

\* Every step leaves the locks owned.
LEMMA OwnedStep == TypeOK /\ Owned /\ [Next]_vars => Owned'
  <1> SUFFICES ASSUME TypeOK, Owned, [Next]_vars PROVE Owned' OBVIOUS
  <1>1. CASE \E a \in Accounts : SetMode(a) \/ SetArchived(a)
    BY <1>1, OwnedKept DEF SetMode, SetArchived, Works, Boots, HoldsThread, HoldsFile
  <1>2. CASE UNCHANGED vars
    BY <1>2, OwnedKept DEF vars, Works, Boots, HoldsThread, HoldsFile
  <1> QED BY <1>1, <1>2, OwnedBoot, OwnedWorker, OwnedCaller, OwnedCrash DEF Next

-----------------------------------------------------------------------------
(* What one step of a worker or a caller does to the rows and the accounts *)

\* A worker writes to its own row and copies under its own id.
WorkerEffect(p) ==
    LET w == worker[p]
        v == worker'[p]
    IN /\ UNCHANGED <<last, mode, archived, edits, crashes, caller>>
       /\ \A q \in Processes : q # p => worker'[q] = worker[q]
       /\ Works(p)
       /\ v.pc = "none" \/ v.run = w.run
       /\ v.pc \in {"gateway", "read"} => w.pc = "gateway"
       /\ \A a \in Accounts : canon'[a] = canon[a] \/ (a \in w.left /\ canon'[a] = w.run)
       /\ v.left \subseteq w.left \cup {a \in Accounts : mode[a] = "auto"}
       /\ \A r \in RunIds :
             /\ runs'[r].state = runs[r].state
                  \/ (r = w.run /\ v.pc = "releasing" /\ runs'[r].state # "running")
             /\ \/ runs'[r].complete = runs[r].complete /\ runs'[r].seen = runs[r].seen
                \/ r = w.run /\ w.pc = "read"
       /\ faults' = faults \/ faults' = faults + 1
       /\ faults' = faults /\ v.pc \in {"none", "releasing"} /\ w.pc # "releasing"
             => runs'[w.run].state # "running"
       /\ w.pc = "releasing" => UNCHANGED <<runs, canon>> /\ v.pc = "none"

\* The action has the effect.
LEMMA WorkerDoes ==
    ASSUME TypeOK, Referred, NEW p \in Processes, WorkerStep(p)
    PROVE  WorkerEffect(p)
  <1> DEFINE w == worker[p]
  <1>0. w \in WorkerType BY DEF TypeOK
  <1>a. \A v : WorkerBecomes(p, v) =>
          worker'[p] = v /\ \A q \in Processes : q # p => worker'[q] = worker[q]
    BY DEF WorkerBecomes, TypeOK
  <1>b. \A s : LET v == [w EXCEPT !.pc = s] IN
          v.pc = s /\ v.run = w.run /\ v.left = w.left
    BY <1>0 DEF WorkerType
  <1>c. \A o : Decide(p, o) => /\ worker'[p].pc = "finishing" /\ worker'[p].run = w.run
                               /\ worker'[p].left = {}
                               /\ \A q \in Processes : q # p => worker'[q] = worker[q]
    <2>1. \A o : LET v == [WorkerNone EXCEPT !.pc = "finishing", !.run = w.run, !.outcome = o]
                 IN  v.pc = "finishing" /\ v.run = w.run /\ v.left = {}
      BY DEF WorkerNone
    <2> QED BY <1>a, <2>1 DEF Decide
  <1>d. \A s : WorkerGo(p, s) => /\ worker'[p].pc = s /\ worker'[p].run = w.run
                                 /\ worker'[p].left = w.left
                                 /\ \A q \in Processes : q # p => worker'[q] = worker[q]
    BY <1>a, <1>b DEF WorkerGo
  <1>i. \A A : LET v == [w EXCEPT !.pc = "copying", !.seen = {}, !.left = A] IN
          v.pc = "copying" /\ v.run = w.run /\ v.left = A
    BY <1>0 DEF WorkerType
  <1>j. \A A : LET v == [w EXCEPT !.left = A] IN v.pc = w.pc /\ v.run = w.run /\ v.left = A
    BY <1>0 DEF WorkerType
  <1>e. \A r \in RunIds : runs[r] \in RunType BY DEF TypeOK
  <1>f. Works(p) => w.run \in RunIds BY Given DEF Referred, TypeOK, RunIds
  <1>g. \A t, s : \A r \in RunIds : SetState(r, s) =>
          /\ runs'[t].state = s \/ t # r
          /\ t \in RunIds => /\ t # r => runs'[t] = runs[t]
                             /\ runs'[t].complete = runs[t].complete
                             /\ runs'[t].seen = runs[t].seen
    BY <1>e DEF SetState, TypeOK, RunType
  <1> HIDE DEF w
  <1>1. CASE GatewayBusy(p) \/ ReadFails(p)
    <2>1. w.pc = "gateway" /\ Works(p) /\ \E o : Decide(p, o)
      BY <1>1 DEF GatewayBusy, ReadFails, Works, w
    <2> QED BY <1>1, <1>c, <2>1 DEF GatewayBusy, ReadFails, WorkerEffect, rows, settings, w
  <1>2. CASE Read(p)
    <2>1. PICK b, A : WorkerBecomes(p, [w EXCEPT !.pc = "read", !.seen = A, !.complete = b])
      BY <1>2 DEF Read, w
    <2> DEFINE v == [w EXCEPT !.pc = "read", !.seen = A, !.complete = b]
    <2>2. v.pc = "read" /\ v.run = w.run /\ v.left = w.left BY <1>0 DEF WorkerType
    <2>3. WorkerBecomes(p, v) BY <2>1
    <2> HIDE DEF v
    <2>4. /\ worker'[p].pc = "read" /\ worker'[p].run = w.run /\ worker'[p].left = w.left
          /\ \A q \in Processes : q # p => worker'[q] = worker[q]
      BY <2>2, <2>3, <1>a
    <2> QED BY <1>2, <2>4 DEF Read, WorkerEffect, Works, rows, settings, w
  <1>3. CASE Commit(p)
    <2>1. /\ w.pc = "read" /\ Works(p) /\ WorkerGo(p, "committed")
          /\ runs' = [runs EXCEPT ![w.run] = [@ EXCEPT !.complete = w.complete, !.seen = w.seen]]
      BY <1>3 DEF Commit, Works, w
    <2>2. \A r \in RunIds : /\ r # w.run => runs'[r] = runs[r]
                            /\ runs'[r].state = runs[r].state
      BY <2>1, <1>e DEF TypeOK, RunType
    <2> QED BY <1>3, <2>1, <2>2, <1>d DEF Commit, WorkerEffect, settings, w
  <1>4. CASE CommitFails(p) \/ CopyFails(p)
    <2>1. /\ w.pc \in {"read", "copying"} /\ Works(p) /\ faults' = faults + 1
          /\ \E o : Decide(p, o)
      BY <1>4 DEF CommitFails, CopyFails, WriteFails, Works, w
    <2> QED BY <1>4, <2>1, <1>c DEF CommitFails, CopyFails, WorkerEffect, rows, settings, w
  <1>5. CASE SelectAuto(p)
    <2>1. PICK A \in SUBSET Accounts :
             /\ A \subseteq {a \in Accounts : mode[a] = "auto"}
             /\ WorkerBecomes(p, [w EXCEPT !.pc = "copying", !.seen = {}, !.left = A])
      <3>1. w.seen \in SUBSET Accounts BY <1>0 DEF WorkerType
      <3> QED BY <1>5, <3>1 DEF SelectAuto, w
    <2>2. /\ worker'[p].pc = "copying" /\ worker'[p].run = w.run /\ worker'[p].left = A
          /\ \A q \in Processes : q # p => worker'[q] = worker[q]
      BY <2>1, <1>i, <1>a
    <2>3. w.pc = "committed" /\ Works(p) BY <1>5 DEF SelectAuto, Works, w
    <2> QED BY <1>5, <2>1, <2>2, <2>3 DEF SelectAuto, WorkerEffect, rows, settings, w
  <1>6. CASE Copy(p)
    <2>1. PICK a \in w.left : /\ canon' = [canon EXCEPT ![a] = w.run]
                               /\ WorkerBecomes(p, [w EXCEPT !.left = w.left \ {a}])
      BY <1>6 DEF Copy, w
    <2>2. /\ worker'[p].pc = w.pc /\ worker'[p].run = w.run /\ worker'[p].left \subseteq w.left
          /\ \A q \in Processes : q # p => worker'[q] = worker[q]
      BY <2>1, <1>j, <1>a
    <2>3. w.pc = "copying" /\ Works(p) BY <1>6 DEF Copy, Works, w
    <2>4. \A b \in Accounts : canon'[b] = canon[b] \/ (b \in w.left /\ canon'[b] = w.run)
      BY <2>1 DEF TypeOK
    <2> QED BY <1>6, <2>2, <2>3, <2>4 DEF Copy, WorkerEffect, rows, settings, w
  <1>7. CASE Conclude(p)
    <2>1. w.pc = "copying" /\ Works(p) /\ \E o : Decide(p, o) BY <1>7 DEF Conclude, Works, w
    <2> QED BY <1>7, <2>1, <1>c DEF Conclude, WorkerEffect, rows, settings, w
  <1>8. CASE Finish(p) \/ (FinishFailed(p) /\ FinishRun(w.run, "failed") /\ UNCHANGED faults)
    <2>0. w.outcome \in Terminal /\ "failed" \in Terminal BY <1>0 DEF WorkerType, Terminal
    <2>1. /\ w.pc \in {"finishing", "failing"} /\ Works(p) /\ WorkerGo(p, "releasing")
          /\ \E s \in Terminal : SetState(w.run, s)
          /\ UNCHANGED <<last, mode, archived, edits, crashes, caller, canon, faults>>
      BY <1>8, <2>0 DEF Finish, FinishFailed, FinishRun, Works, settings, w
    <2>2. "running" \notin Terminal BY DEF Terminal
    <2>3. PICK s \in Terminal : SetState(w.run, s) BY <2>1
    <2>4. w.run \in RunIds BY <2>1, <1>f
    <2>5. /\ runs'[w.run].state # "running"
          /\ \A t \in RunIds : /\ t # w.run => runs'[t] = runs[t]
                               /\ runs'[t].complete = runs[t].complete
                               /\ runs'[t].seen = runs[t].seen
      BY <2>2, <2>3, <2>4, <1>g
    <2>6. /\ worker'[p].pc = "releasing" /\ worker'[p].run = w.run /\ worker'[p].left = w.left
          /\ \A q \in Processes : q # p => worker'[q] = worker[q]
      BY <2>1, <1>d
    <2> QED BY <2>1, <2>5, <2>6 DEF WorkerEffect, w
  <1>9. CASE FinishFails(p) \/ (FinishFailed(p) /\ WriteFails /\ UNCHANGED rows)
    <2>1. /\ w.pc \in {"finishing", "failing"} /\ Works(p)
          /\ \E s \in {"releasing", "failing"} : WorkerGo(p, s)
          /\ UNCHANGED <<runs, last, mode, archived, edits, crashes, caller, canon>>
          /\ faults' = faults + 1
      BY <1>9 DEF FinishFails, FinishFailed, WriteFails, Works, rows, settings, w
    <2> QED BY <2>1, <1>d DEF WorkerEffect, w
  <1>10. CASE WorkerReleases(p)
    <2>1. /\ w.pc = "releasing" /\ Works(p) /\ worker'[p].pc = "none" /\ worker'[p].left = {}
          /\ \A q \in Processes : q # p => worker'[q] = worker[q]
      BY <1>10, <1>a DEF WorkerReleases, WorkerNone, Works, w
    <2> QED BY <1>10, <2>1 DEF WorkerReleases, WorkerEffect, rows, settings, w
  <1> QED BY <1>1, <1>2, <1>3, <1>4, <1>5, <1>6, <1>7, <1>8, <1>9, <1>10
          DEF WorkerStep, FinishFailed, w

\* A caller writes a new row, ends its own, or copies a review it has locked.
CallerEffect(c) ==
    LET x == caller[c]
        y == caller'[c]
        h == Host[c]
    IN /\ UNCHANGED <<mode, archived, edits, crashes>>
       /\ \A d \in Callers : d # c => caller'[d] = caller[d]
       /\ \A q \in Processes : q # h => worker'[q] = worker[q]
       /\ \/ worker'[h] = worker[h]
          \/ /\ x.pc = "created" /\ y.pc = "handed"
             /\ worker'[h].pc = "gateway" /\ worker'[h].run = x.run /\ worker'[h].left = {}
             /\ UNCHANGED <<runs, last, canon, faults>>
       /\ last' = last \/ last' = last + 1
       /\ x.pc = "created" => last' = last
       /\ \A r \in RunIds :
             /\ runs'[r].complete = runs[r].complete /\ runs'[r].seen = runs[r].seen
             /\ \/ runs'[r].state = runs[r].state
                \/ r > last /\ runs'[r].state # "running"
                \/ r > last /\ y.pc = "created" /\ y.run = r
                \/ x.pc = "created" /\ x.run = r /\ runs'[r].state # "running"
       /\ \A a \in Accounts : \/ canon'[a] = canon[a]
                              \/ x.pc = "copying" /\ a \in x.left /\ canon'[a] = x.run
       /\ \/ /\ y.pc \notin {"created", "review", "accepted", "copying"}
             /\ y.left = {} \/ (x.pc # "copying" /\ y.left = x.left)
          \/ /\ y.pc = "created" /\ x.pc = "claimed" /\ y.run = last' /\ last' = last + 1
             /\ runs'[y.run].state = "running" /\ y.left = x.left /\ UNCHANGED canon
          \/ y.pc = "review" /\ y.run \in 1 .. last /\ y.left = x.left /\ x.pc = "idle"
          \/ y.pc = "accepted" /\ x.pc = "review" /\ y.run = x.run /\ y.left = x.left
               /\ ReviewChoice(x.run) /\ UNCHANGED <<runs, canon>>
          \/ y.pc = "copying" /\ y.run = x.run /\ UNCHANGED runs
               /\ \/ x.pc = "review" /\ y.left = x.left /\ UNCHANGED canon
                  \/ /\ x.pc = "accepted" /\ UNCHANGED canon
                     /\ y.left = {a \in runs[x.run].seen : mode[a] = "review"}
                  \/ x.pc = "copying" /\ y.left \subseteq x.left
       /\ faults' = faults \/ faults' = faults + 1
       /\ faults' = faults /\ x.pc = "created" /\ y.pc # "handed" => runs'[x.run].state # "running"
       /\ y.pc = "handed" => x.pc = "created" /\ worker'[h].pc = "gateway" /\ worker'[h].run = x.run

\* The action has the effect.
LEMMA CallerDoes ==
    ASSUME TypeOK, Referred, NEW c \in Callers, CallerStep(c) \/ Trigger(c) \/ Review(c)
    PROVE  CallerEffect(c)
  <1> DEFINE x == caller[c]
  <1>0. x \in CallerType /\ Host[c] \in Processes BY Given DEF TypeOK
  <1>a. \A v : CallerBecomes(c, v) =>
          caller'[c] = v /\ \A d \in Callers : d # c => caller'[d] = caller[d]
    BY DEF CallerBecomes, TypeOK
  <1>b. CallerLeaves(c) => /\ caller'[c].pc = "idle" /\ caller'[c].left = {}
                           /\ \A d \in Callers : d # c => caller'[d] = caller[d]
    BY <1>a DEF CallerLeaves, CallerIdle
  <1>c. \A s : LET v == [x EXCEPT !.pc = s] IN v.pc = s /\ v.run = x.run /\ v.left = x.left
    BY <1>0 DEF CallerType
  <1>f. \A A : LET v == [x EXCEPT !.left = A] IN v.pc = x.pc /\ v.run = x.run /\ v.left = A
    BY <1>0 DEF CallerType
  <1>g. \A s : \A r \in RunIds : SetState(r, s) =>
          /\ runs'[r].state = s
          /\ \A t \in RunIds : /\ t # r => runs'[t] = runs[t]
                               /\ runs'[t].complete = runs[t].complete
                               /\ runs'[t].seen = runs[t].seen
    <2>1. \A r \in RunIds : runs[r] \in RunType BY DEF TypeOK
    <2> QED BY <2>1 DEF SetState, TypeOK, RunType
  <1>h. \A s : CallerGo(c, s) => /\ caller'[c].pc = s /\ caller'[c].run = x.run
                                 /\ caller'[c].left = x.left
                                 /\ \A d \in Callers : d # c => caller'[d] = caller[d]
    BY <1>a, <1>c DEF CallerGo
  <1> HIDE DEF x
  <1>1. CASE Trigger(c)
    <2>1. x.pc = "idle" /\ CallerGo(c, "locked") BY <1>1 DEF Trigger, x
    <2> QED BY <1>1, <2>1, <1>h DEF Trigger, CallerEffect, rows, settings, x
  <1>12. CASE Claim(c)
    <2>1. x.pc = "locked" /\ CallerGo(c, "claimed") BY <1>12 DEF Claim, x
    <2> QED BY <1>12, <2>1, <1>h DEF Claim, CallerEffect, rows, settings, x
  <1>13. CASE Return(c)
    <2>1. x.pc = "handed" /\ CallerLeaves(c) BY <1>13 DEF Return, x
    <2> QED BY <1>13, <2>1, <1>b DEF Return, CallerEffect, rows, settings, x
  <1>2. CASE TriggerRefused(c)
    <2>1. x.pc = "locked" /\ CallerLeaves(c) BY <1>2 DEF TriggerRefused, x
    <2>2. CASE UNCHANGED rows
      BY <1>2, <2>1, <2>2, <1>b DEF TriggerRefused, CallerEffect, rows, settings, x
    <2>3. CASE last < MaxRuns /\ last' = last + 1 /\ SetState(last + 1, "blocked")
      <3>1. last + 1 \in RunIds /\ last + 1 > last BY <2>3, Given DEF TypeOK, RunIds
      <3>2. /\ runs'[last + 1].state = "blocked"
            /\ \A t \in RunIds : /\ t # last + 1 => runs'[t] = runs[t]
                                 /\ runs'[t].complete = runs[t].complete
                                 /\ runs'[t].seen = runs[t].seen
        BY <2>3, <3>1, <1>g
      <3> QED BY <1>2, <2>1, <2>3, <3>1, <3>2, <1>b DEF TriggerRefused, CallerEffect, settings, x
    <2> QED BY <1>2, <2>2, <2>3 DEF TriggerRefused
  <1>3. CASE CreateRun(c)
    <2>1. last + 1 \in RunIds /\ last + 1 > last BY <1>3, Given DEF CreateRun, TypeOK, RunIds
    <2>2. /\ runs'[last + 1].state = "running"
          /\ \A t \in RunIds : /\ t # last + 1 => runs'[t] = runs[t]
                               /\ runs'[t].complete = runs[t].complete
                               /\ runs'[t].seen = runs[t].seen
      BY <1>3, <2>1, <1>g DEF CreateRun
    <2>3. /\ caller'[c].pc = "created" /\ caller'[c].run = last + 1 /\ caller'[c].left = x.left
          /\ \A d \in Callers : d # c => caller'[d] = caller[d]
      <3> DEFINE v == [x EXCEPT !.pc = "created", !.run = last + 1]
      <3>1. v.pc = "created" /\ v.run = last + 1 /\ v.left = x.left BY <1>0 DEF CallerType
      <3>2. CallerBecomes(c, v) BY <1>3 DEF CreateRun, x
      <3> HIDE DEF v
      <3> QED BY <3>1, <3>2, <1>a
    <2> QED BY <1>3, <2>1, <2>2, <2>3 DEF CreateRun, CallerEffect, settings, x
  <1>4. CASE CreateRunFails(c)
    BY <1>4, <1>b DEF CreateRunFails, WriteFails, CallerEffect, rows, settings
  <1>5. CASE StartWorker(c)
    <2>0. LET v == [WorkerNone EXCEPT !.pc = "gateway", !.run = x.run] IN
            v.pc = "gateway" /\ v.run = x.run /\ v.left = {}
      BY DEF WorkerNone
    <2>1. /\ worker'[Host[c]] = [WorkerNone EXCEPT !.pc = "gateway", !.run = x.run]
          /\ \A q \in Processes : q # Host[c] => worker'[q] = worker[q]
      BY <1>5, <1>0 DEF StartWorker, WorkerBecomes, TypeOK, x
    <2>2. worker'[Host[c]].pc = "gateway" /\ worker'[Host[c]].run = x.run
          /\ worker'[Host[c]].left = {}
      BY <2>0, <2>1
    <2>3. x.pc = "created" /\ CallerGo(c, "handed") BY <1>5 DEF StartWorker, x
    <2>4. UNCHANGED <<runs, last, mode, archived, edits, canon, faults, crashes>>
      BY <1>5 DEF StartWorker, rows, settings
    <2> QED BY <2>1, <2>2, <2>3, <2>4, <1>h DEF CallerEffect, x
  <1>6. CASE StartFails(c)
    <2>1. x.pc = "created" /\ CallerLeaves(c) /\ UNCHANGED <<settings, canon, worker, crashes>>
      BY <1>6 DEF StartFails, x
    <2>2. CASE WriteFails /\ UNCHANGED rows
      <3>1. /\ UNCHANGED <<runs, last, mode, archived, edits, canon, worker, crashes>>
            /\ faults' = faults + 1
        BY <2>1, <2>2 DEF WriteFails, rows, settings
      <3>2. faults' # faults
        <4>1. faults \in Nat BY Given DEF TypeOK
        <4> QED BY <4>1, <3>1
      <3> QED BY <2>1, <3>1, <3>2, <1>b DEF CallerEffect, x
    <2>3. CASE FinishRun(x.run, "failed") /\ UNCHANGED faults
      <3>1. x.run \in RunIds BY <2>1, Given DEF Referred, TypeOK, RunIds, x
      <3>2. /\ runs'[x.run].state = "failed"
            /\ \A t \in RunIds : /\ t # x.run => runs'[t] = runs[t]
                                 /\ runs'[t].complete = runs[t].complete
                                 /\ runs'[t].seen = runs[t].seen
        BY <2>3, <3>1, <1>g DEF FinishRun
      <3> QED BY <2>1, <2>3, <3>2, <1>b DEF FinishRun, CallerEffect, settings, x
    <2> QED BY <1>6, <2>2, <2>3 DEF StartFails, x
  <1>7. CASE ReviewBusy(c) \/ ReviewEnds(c)
    <2>1. /\ x.pc # "created" /\ CallerLeaves(c)
          /\ UNCHANGED <<rows, settings, canon, worker, crashes>>
          /\ faults' = faults \/ faults' = faults + 1
      BY <1>7 DEF ReviewBusy, ReviewEnds, WriteFails, x
    <2> QED BY <2>1, <1>b DEF CallerEffect, rows, settings, x
  <1>8. CASE Review(c)
    <2>1. PICK r \in 1 .. last : CallerBecomes(c, [x EXCEPT !.pc = "review", !.run = r])
      BY <1>8 DEF Review, x
    <2>2. /\ caller'[c].pc = "review" /\ caller'[c].run = r /\ caller'[c].left = x.left
          /\ \A d \in Callers : d # c => caller'[d] = caller[d]
      <3> DEFINE v == [x EXCEPT !.pc = "review", !.run = r]
      <3>1. v.pc = "review" /\ v.run = r /\ v.left = x.left BY <1>0 DEF CallerType
      <3>2. CallerBecomes(c, v) BY <2>1
      <3> HIDE DEF v
      <3> QED BY <3>1, <3>2, <1>a
    <2> QED BY <1>8, <2>2 DEF Review, CallerEffect, rows, settings, x
  <1>9. CASE ReviewClaims(c)
    <2>1. x.pc = "review" /\ UNCHANGED <<rows, settings, canon, worker, faults, crashes>>
      BY <1>9 DEF ReviewClaims, x
    <2>2. \/ ReviewChoice(x.run) /\ CallerGo(c, "accepted")
          \/ CallerGo(c, "copying")
      BY <1>9 DEF ReviewClaims, x
    <2> QED BY <2>1, <2>2, <1>h DEF CallerEffect, rows, settings, x
  <1>10. CASE ReviewSelects(c)
    <2>1. /\ x.pc = "accepted" /\ UNCHANGED <<rows, settings, canon, worker, faults, crashes>>
          /\ CallerBecomes(c, [x EXCEPT !.pc = "copying",
                                 !.left = {a \in runs[x.run].seen : mode[a] = "review"}])
      BY <1>10 DEF ReviewSelects, x
    <2>2. /\ caller'[c].pc = "copying" /\ caller'[c].run = x.run
          /\ caller'[c].left = {a \in runs[x.run].seen : mode[a] = "review"}
          /\ \A d \in Callers : d # c => caller'[d] = caller[d]
      <3> DEFINE A == {a \in runs[x.run].seen : mode[a] = "review"}
                 v == [x EXCEPT !.pc = "copying", !.left = A]
      <3>1. v.pc = "copying" /\ v.run = x.run /\ v.left = A BY <1>0 DEF CallerType
      <3>2. CallerBecomes(c, v) BY <2>1
      <3> HIDE DEF v
      <3> QED BY <3>1, <3>2, <1>a
    <2> QED BY <2>1, <2>2 DEF CallerEffect, rows, settings, x
  <1>11. CASE ReviewCopies(c)
    <2>1. x.pc = "copying" /\ UNCHANGED <<rows, settings, worker, faults, crashes>>
      BY <1>11 DEF ReviewCopies, x
    <2>2. PICK a \in x.left : /\ canon' = [canon EXCEPT ![a] = x.run]
                               /\ CallerBecomes(c, [x EXCEPT !.left = x.left \ {a}])
      BY <1>11 DEF ReviewCopies, x
    <2>3. /\ caller'[c].pc = "copying" /\ caller'[c].run = x.run
          /\ caller'[c].left \subseteq x.left
          /\ \A d \in Callers : d # c => caller'[d] = caller[d]
      BY <2>1, <2>2, <1>a, <1>f
    <2>4. \A b \in Accounts : canon'[b] = canon[b] \/ (b \in x.left /\ canon'[b] = x.run)
      BY <2>2 DEF TypeOK
    <2> QED BY <2>1, <2>3, <2>4 DEF CallerEffect, rows, settings, x
  <1> QED BY <1>1, <1>2, <1>3, <1>4, <1>5, <1>6, <1>7, <1>8, <1>9, <1>10, <1>11, <1>12,
             <1>13 DEF CallerStep

\* A startup ends the runs left running, once it has the locks.
BootEffect(p) ==
    /\ UNCHANGED <<last, mode, archived, edits, canon, caller, worker, faults, crashes>>
    /\ \A r \in RunIds :
          /\ runs'[r].complete = runs[r].complete /\ runs'[r].seen = runs[r].seen
          /\ runs'[r].state = runs[r].state \/ (Boots(p) /\ runs'[r].state # "running")

\* The threads of a dead process are gone; what it stored stays.
CrashEffect(p) ==
    /\ UNCHANGED <<runs, last, mode, archived, edits, canon, faults>>
    /\ crashes' = crashes + 1
    /\ \A q \in Processes : q # p => worker'[q] = worker[q]
    /\ worker'[p].pc = "none" /\ worker'[p].left = {}
    /\ \A c \in Callers : \/ caller'[c].pc = "idle" /\ caller'[c].left = {}
                          \/ caller'[c] = caller[c]

\* A change of settings leaves everything else alone.
SettingsEffect ==
    /\ UNCHANGED <<runs, last, canon, caller, worker, faults, crashes>>
    /\ edits' = edits + 1

\* Every step is of one of these kinds.
LEMMA Effects ==
    ASSUME TypeOK, Referred, [Next]_vars
    PROVE  \/ \E p \in Processes : BootEffect(p) \/ WorkerEffect(p) \/ CrashEffect(p)
           \/ \E c \in Callers : CallerEffect(c)
           \/ SettingsEffect
           \/ UNCHANGED vars
  <1>1. ASSUME NEW p \in Processes, BootStep(p) PROVE BootEffect(p)
    <2>1. CASE BootClaims(p) \/ BootSkips(p)
      BY <2>1 DEF BootClaims, BootSkips, BootEffect, rows, settings
    <2>2. CASE Reconcile(p)
      <3>1. \A r \in RunIds : runs[r] \in RunType BY DEF TypeOK
      <3>2. \A r \in RunIds :
              /\ runs'[r].complete = runs[r].complete /\ runs'[r].seen = runs[r].seen
              /\ runs'[r].state = runs[r].state \/ runs'[r].state # "running"
        BY <2>2, <3>1 DEF Reconcile, Interrupted, RunType
      <3> QED BY <2>2, <3>2 DEF Reconcile, BootEffect, Boots, settings
    <2> QED BY <1>1, <2>1, <2>2 DEF BootStep
  <1>2. ASSUME NEW p \in Processes, Crash(p) PROVE CrashEffect(p)
    <2>1. \A q \in Processes : worker'[q] = IF q = p THEN WorkerNone ELSE worker[q]
      BY <1>2 DEF Crash, WorkerBecomes, TypeOK
    <2>2. \A c \in Callers : caller'[c] = IF Host[c] = p THEN CallerIdle ELSE caller[c]
      BY <1>2 DEF Crash
    <2>3. WorkerNone.pc = "none" /\ WorkerNone.left = {} /\ CallerIdle.pc = "idle"
            /\ CallerIdle.left = {}
      BY DEF WorkerNone, CallerIdle
    <2> QED BY <1>2, <2>1, <2>2, <2>3 DEF Crash, CrashEffect, rows, settings
  <1>3. ASSUME NEW a \in Accounts, SetMode(a) \/ SetArchived(a) PROVE SettingsEffect
    BY <1>3 DEF SetMode, SetArchived, Edit, SettingsEffect, rows
  <1> QED BY <1>1, <1>2, <1>3, WorkerDoes, CallerDoes DEF Next

-----------------------------------------------------------------------------
(* What is captured, and by whom *)

\* Ids stay those of rows that exist.
LEMMA ReferredStep == ASSUME TypeOK, Referred, [Next]_vars PROVE Referred'
  <1>0. last \in Nat /\ last <= MaxRuns /\ \A a \in Accounts : canon[a] \in Nat
    BY Given DEF TypeOK
  <1>1. ASSUME NEW p \in Processes, BootEffect(p) PROVE Referred'
    BY <1>1 DEF BootEffect, Referred, Works
  <1>2. ASSUME NEW p \in Processes, WorkerEffect(p) PROVE Referred'
    BY <1>0, <1>2 DEF WorkerEffect, Referred, Works
  <1>3. ASSUME NEW p \in Processes, CrashEffect(p) PROVE Referred'
    BY <1>3 DEF CrashEffect, Referred, Works
  <1>4. ASSUME NEW c \in Callers, CallerEffect(c) PROVE Referred'
    <2>1. last' \in Nat /\ last <= last' BY <1>0, <1>4 DEF CallerEffect
    <2>2. \A a \in Accounts : canon'[a] <= last'
      BY <1>0, <1>4, <2>1 DEF CallerEffect, Referred
    <2>3. \A p \in Processes : Works(p)' => worker'[p].run \in 1 .. last'
      BY <1>0, <1>4, <2>1 DEF CallerEffect, Referred, Works
    <2>4. ASSUME NEW d \in Callers, caller'[d].pc \in {"created", "review", "accepted", "copying"}
          PROVE  caller'[d].run \in 1 .. last'
      <3>1. CASE d = c BY <1>0, <1>4, <2>1, <2>4, <3>1 DEF CallerEffect, Referred
      <3>2. CASE d # c BY <1>0, <1>4, <2>1, <2>4, <3>2 DEF CallerEffect, Referred
      <3> QED BY <3>1, <3>2
    <2> QED BY <2>2, <2>3, <2>4 DEF Referred
  <1>5. SettingsEffect => Referred' BY DEF SettingsEffect, Referred, Works
  <1>6. UNCHANGED vars => Referred' BY DEF vars, rows, Referred, Works
  <1> QED BY <1>1, <1>2, <1>3, <1>4, <1>5, <1>6, Effects

\* Whoever works on a run is the only one to, and finds it running.
LEMMA LiveStep ==
    ASSUME TypeOK, Owned, Referred, LiveRunIsRunning, [Next]_vars PROVE LiveRunIsRunning'
  <1>0. /\ last \in Nat /\ MaxRuns \in Nat /\ last <= MaxRuns
        /\ \A p \in Processes : Works(p) => worker[p].run \in RunIds /\ worker[p].run <= last
        /\ \A c \in Callers : caller[c].pc = "created" =>
                                 caller[c].run \in RunIds /\ caller[c].run <= last
    BY Given DEF TypeOK, Referred, RunIds
  <1>a. \A c \in Callers : caller[c].pc = "created" => HoldsFile(c) BY DEF HoldsFile
  <1>1. ASSUME NEW p \in Processes, BootEffect(p) PROVE LiveRunIsRunning'
    <2>1. CASE Boots(p)
      <3>1. /\ \A q \in Processes : ~Works(q)
            /\ \A c \in Callers : caller[c].pc # "created"
        BY <2>1, <1>a, Alone
      <3> QED BY <1>1, <3>1 DEF BootEffect, LiveRunIsRunning, Works
    <2>2. CASE ~Boots(p) BY <1>0, <1>1, <2>2 DEF BootEffect, LiveRunIsRunning, Works
    <2> QED BY <2>1, <2>2
  <1>2. ASSUME NEW p \in Processes, WorkerEffect(p) PROVE LiveRunIsRunning'
    <2>1. /\ Works(p) /\ \A q \in Processes : Works(q) => q = p
          /\ \A c \in Callers : caller[c].pc # "created"
      BY <1>2, <1>a, Alone DEF WorkerEffect
    <2>2. worker'[p].pc \notin {"none", "releasing"} => runs'[worker'[p].run].state = "running"
      <3> SUFFICES ASSUME worker'[p].pc \notin {"none", "releasing"}
                   PROVE  runs'[worker'[p].run].state = "running"
        OBVIOUS
      <3>1. worker'[p].run = worker[p].run /\ worker[p].pc \notin {"none", "releasing"}
        BY <1>2, <2>1 DEF WorkerEffect, Works
      <3>2. worker[p].run \in RunIds BY <1>0, <2>1
      <3>3. runs'[worker[p].run].state = runs[worker[p].run].state
        BY <1>2, <3>2 DEF WorkerEffect
      <3> QED BY <3>1, <3>3 DEF LiveRunIsRunning
    <2>3. \A q \in Processes : q # p => worker'[q].pc = "none"
      BY <1>2, <2>1 DEF WorkerEffect, Works
    <2>4. caller' = caller BY <1>2 DEF WorkerEffect
    <2> QED BY <2>1, <2>2, <2>3, <2>4 DEF LiveRunIsRunning
  <1>3. ASSUME NEW p \in Processes, CrashEffect(p) PROVE LiveRunIsRunning'
    BY <1>3 DEF CrashEffect, LiveRunIsRunning
  <1>4. ASSUME NEW c \in Callers, CallerEffect(c) PROVE LiveRunIsRunning'
    <2> DEFINE h == Host[c]
    <2>0. h \in Processes BY Given
    <2>1. ASSUME NEW q \in Processes, worker'[q].pc \notin {"none", "releasing"}
          PROVE  runs'[worker'[q].run].state = "running"
      <3>1. CASE worker'[q] = worker[q]
        <4>1. Works(q) /\ runs[worker[q].run].state = "running"
          BY <2>1, <3>1 DEF LiveRunIsRunning, Works
        <4>2. caller[c].pc # "created" BY <4>1, <1>a, Alone
        <4>3. worker[q].run \in RunIds /\ worker[q].run \in Nat /\ ~(worker[q].run > last)
          BY <1>0, <4>1 DEF RunIds
        <4>4. runs'[worker[q].run].state = runs[worker[q].run].state
          BY <1>4, <4>2, <4>3 DEF CallerEffect
        <4> QED BY <3>1, <4>1, <4>4
      <3>2. CASE worker'[q] # worker[q]
        <4>1. caller[c].pc = "created" /\ worker'[q].run = caller[c].run /\ runs' = runs
          BY <1>4, <3>2 DEF CallerEffect
        <4> QED BY <4>1 DEF LiveRunIsRunning
      <3> QED BY <3>1, <3>2
    <2>2. ASSUME NEW d \in Callers, caller'[d].pc = "created"
          PROVE  runs'[caller'[d].run].state = "running"
      <3>1. CASE d = c BY <1>4, <2>2, <3>1 DEF CallerEffect
      <3>2. CASE d # c
        <4>1. caller'[d] = caller[d] BY <1>4, <3>2 DEF CallerEffect
        <4>2. caller[c].pc # "created" BY <1>a, <2>2, <3>2, <4>1, Alone
        <4>3. caller[d].run \in RunIds /\ caller[d].run \in Nat /\ ~(caller[d].run > last)
          BY <1>0, <2>2, <4>1 DEF RunIds
        <4>4. runs'[caller[d].run].state = runs[caller[d].run].state
          BY <1>4, <4>2, <4>3 DEF CallerEffect
        <4> QED BY <2>2, <4>1, <4>4 DEF LiveRunIsRunning
      <3> QED BY <3>1, <3>2
    <2> QED BY <2>1, <2>2 DEF LiveRunIsRunning
  <1>5. SettingsEffect => LiveRunIsRunning' BY DEF SettingsEffect, LiveRunIsRunning
  <1>6. UNCHANGED vars => LiveRunIsRunning' BY DEF vars, rows, LiveRunIsRunning
  <1> QED BY <1>1, <1>2, <1>3, <1>4, <1>5, <1>6, Effects

\* Only the worker of a run commits it, once it has read.
LEMMA UncommittedStep ==
    ASSUME TypeOK, Owned, Referred, Uncommitted, [Next]_vars PROVE Uncommitted'
  <1>0. /\ last \in Nat /\ MaxRuns \in Nat /\ last <= MaxRuns
        /\ \A p \in Processes : Works(p) => worker[p].run \in RunIds /\ worker[p].run <= last
        /\ \A c \in Callers : caller[c].pc = "created" =>
                                 caller[c].run \in RunIds /\ caller[c].run <= last
    BY Given DEF TypeOK, Referred, RunIds
  <1>a. \A c \in Callers : caller[c].pc = "created" => HoldsFile(c) BY DEF HoldsFile
  <1>b. \A r \in RunIds : r \in Nat BY DEF RunIds
  <1>1. ASSUME NEW p \in Processes, BootEffect(p) PROVE Uncommitted'
    BY <1>0, <1>1 DEF BootEffect, Uncommitted, Works
  <1>2. ASSUME NEW p \in Processes, WorkerEffect(p) PROVE Uncommitted'
    <2>1. /\ Works(p) /\ \A q \in Processes : Works(q) => q = p
          /\ \A c \in Callers : caller[c].pc # "created"
      BY <1>2, <1>a, Alone DEF WorkerEffect
    <2>2. ASSUME NEW r \in RunIds, r > last PROVE ~runs'[r].complete
      <3>1. r # worker[p].run BY <1>0, <1>b, <2>1, <2>2
      <3> QED BY <1>2, <2>2, <3>1 DEF WorkerEffect, Uncommitted
    <2>3. worker'[p].pc \in {"gateway", "read"} => ~runs'[worker'[p].run].complete
      BY <1>0, <1>2, <2>1 DEF WorkerEffect, Uncommitted
    <2>4. \A q \in Processes : q # p => worker'[q].pc = "none"
      BY <1>2, <2>1 DEF WorkerEffect, Works
    <2>5. caller' = caller /\ last' = last BY <1>2 DEF WorkerEffect
    <2> QED BY <2>1, <2>2, <2>3, <2>4, <2>5 DEF Uncommitted
  <1>3. ASSUME NEW p \in Processes, CrashEffect(p) PROVE Uncommitted'
    BY <1>3 DEF CrashEffect, Uncommitted
  <1>4. ASSUME NEW c \in Callers, CallerEffect(c) PROVE Uncommitted'
    <2>1. last' \in Nat /\ last <= last' BY <1>0, <1>4 DEF CallerEffect
    <2>2. \A r \in RunIds : r > last' => ~runs'[r].complete
      BY <1>b, <1>0, <1>4, <2>1 DEF CallerEffect, Uncommitted
    <2>3. ASSUME NEW q \in Processes, worker'[q].pc \in {"gateway", "read"}
          PROVE  ~runs'[worker'[q].run].complete
      <3>1. CASE worker'[q] = worker[q]
        BY <1>0, <1>4, <2>3, <3>1 DEF CallerEffect, Uncommitted, Works
      <3>2. CASE worker'[q] # worker[q]
        <4>1. caller[c].pc = "created" /\ worker'[q].run = caller[c].run /\ runs' = runs
          BY <1>4, <3>2 DEF CallerEffect
        <4> QED BY <4>1 DEF Uncommitted
      <3> QED BY <3>1, <3>2
    <2>4. ASSUME NEW d \in Callers, caller'[d].pc = "created"
          PROVE  ~runs'[caller'[d].run].complete
      <3>1. CASE d = c
        <4>1. caller'[c].run = last' /\ last' = last + 1 BY <1>4, <2>4, <3>1 DEF CallerEffect
        <4>2. last' \in RunIds /\ last' > last
          BY <1>0, <4>1, Given, TypeStep DEF TypeOK, RunIds
        <4> QED BY <1>4, <3>1, <4>1, <4>2 DEF CallerEffect, Uncommitted
      <3>2. CASE d # c
        BY <1>0, <1>4, <2>4, <3>2 DEF CallerEffect, Uncommitted
      <3> QED BY <3>1, <3>2
    <2> QED BY <2>2, <2>3, <2>4 DEF Uncommitted
  <1>5. SettingsEffect => Uncommitted' BY DEF SettingsEffect, Uncommitted
  <1>6. UNCHANGED vars => Uncommitted' BY DEF vars, rows, Uncommitted
  <1> QED BY <1>1, <1>2, <1>3, <1>4, <1>5, <1>6, Effects

\* Nobody else copies while a run is worked on, and its id was the newest.
LEMMA NewestStep ==
    ASSUME TypeOK, Owned, Referred, Newest, [Next]_vars PROVE Newest'
  <1>0. last \in Nat /\ \A a \in Accounts : canon[a] \in Nat BY Given DEF TypeOK
  <1>a. /\ \A c \in Callers : caller[c].pc = "created" => HoldsFile(c)
        /\ \A c \in Callers : caller[c].pc = "copying" => HoldsFile(c)
    BY DEF HoldsFile
  <1>1. ASSUME NEW p \in Processes, BootEffect(p) PROVE Newest'
    BY <1>1 DEF BootEffect, Newest, Works
  <1>2. ASSUME NEW p \in Processes, WorkerEffect(p) PROVE Newest'
    <2>1. /\ Works(p) /\ \A q \in Processes : Works(q) => q = p
          /\ \A c \in Callers : caller[c].pc # "created"
      BY <1>2, <1>a, Alone DEF WorkerEffect
    <2>2. worker[p].run \in Nat BY <2>1, <1>0 DEF Referred
    <2>3. \A a \in Accounts : canon'[a] <= worker[p].run
      BY <1>0, <1>2, <2>1, <2>2 DEF WorkerEffect, Newest
    <2>4. \A q \in Processes : Works(q)' => worker'[q].run = worker[p].run
      BY <1>2, <2>1 DEF WorkerEffect, Works
    <2>5. caller' = caller BY <1>2 DEF WorkerEffect
    <2> QED BY <2>1, <2>3, <2>4, <2>5 DEF Newest
  <1>3. ASSUME NEW p \in Processes, CrashEffect(p) PROVE Newest'
    BY <1>3 DEF CrashEffect, Newest, Works
  <1>4. ASSUME NEW c \in Callers, CallerEffect(c) PROVE Newest'
    <2>1. CASE caller[c].pc = "copying"
      <3>1. /\ \A q \in Processes : ~Works(q)
            /\ \A d \in Callers : d # c => caller[d].pc # "created"
        BY <2>1, <1>a, Alone
      <3>2. \A q \in Processes : ~Works(q)'
        BY <1>4, <2>1, <3>1, Given DEF CallerEffect, Works
      <3>3. \A d \in Callers : caller'[d].pc # "created" BY <1>4, <2>1, <3>1 DEF CallerEffect
      <3> QED BY <3>2, <3>3 DEF Newest
    <2>2. CASE caller[c].pc # "copying"
      <3>1. \A a \in Accounts : canon'[a] = canon[a] BY <1>4, <2>2 DEF CallerEffect
      <3>2. ASSUME NEW a \in Accounts, NEW q \in Processes, Works(q)'
            PROVE  canon[a] <= worker'[q].run
        <4>1. CASE worker'[q] = worker[q] BY <3>2, <4>1 DEF Newest, Works
        <4>2. CASE worker'[q] # worker[q]
          BY <1>4, <3>2, <4>2 DEF CallerEffect, Newest
        <4> QED BY <4>1, <4>2
      <3>3. ASSUME NEW a \in Accounts, NEW d \in Callers, caller'[d].pc = "created"
            PROVE  canon[a] <= caller'[d].run
        <4>1. CASE d = c BY <1>0, <1>4, <3>3, <4>1 DEF CallerEffect, Referred
        <4>2. CASE d # c BY <1>4, <3>3, <4>2 DEF CallerEffect, Newest
        <4> QED BY <4>1, <4>2
      <3> QED BY <3>1, <3>2, <3>3 DEF Newest
    <2> QED BY <2>1, <2>2
  <1>5. SettingsEffect => Newest' BY DEF SettingsEffect, Newest, Works
  <1>6. UNCHANGED vars => Newest' BY DEF vars, rows, Newest, Works
  <1> QED BY <1>1, <1>2, <1>3, <1>4, <1>5, <1>6, Effects

\* An accepted review is of the latest reviewable run; while nobody changes the
\* settings every run an account was taken from stays reviewable.
LEMMA ReviewedStep ==
    ASSUME TypeOK, Owned, Referred, Uncommitted, ReviewedOnly, [Next]_vars PROVE ReviewedOnly'
  <1>0. /\ last \in Nat /\ MaxRuns \in Nat /\ last <= MaxRuns /\ edits \in Nat
        /\ \A a \in Accounts : canon[a] \in Nat /\ canon[a] <= last
        /\ \A a \in Accounts : canon[a] # 0 => canon[a] \in RunIds
    BY Given DEF TypeOK, Referred, RunIds
  <1>a. \A c \in Callers : caller[c].pc \in {"accepted", "copying"} => HoldsFile(c)
    BY DEF HoldsFile
  <1>b. \A c \in Callers : caller[c].pc \in {"review", "accepted", "copying"} =>
          caller[c].run \in RunIds /\ caller[c].run \in Nat /\ caller[c].run # 0
    BY <1>0 DEF Referred, RunIds
  <1> SUFFICES ASSUME edits' = 0 PROVE ReviewedOnly' BY DEF ReviewedOnly
  <1>1. ASSUME NEW p \in Processes, BootEffect(p) PROVE ReviewedOnly'
    BY <1>0, <1>b, <1>1 DEF BootEffect, ReviewedOnly
  <1>2. ASSUME NEW p \in Processes, WorkerEffect(p) PROVE ReviewedOnly'
    <2>1. /\ Works(p) /\ \A c \in Callers : caller[c].pc \notin {"accepted", "copying"}
      BY <1>2, <1>a, Alone DEF WorkerEffect
    <2>2. edits = 0 /\ UNCHANGED <<mode, archived, caller>> BY <1>2 DEF WorkerEffect
    <2>3. \A a \in Accounts : mode[a] = "review" /\ ~archived[a] BY <2>2 DEF ReviewedOnly
    <2>4. \A q \in Processes : worker'[q].left = {}
      BY <1>2, <2>2, <2>3 DEF WorkerEffect, ReviewedOnly
    <2>5. \A a \in Accounts : canon'[a] = canon[a]
      BY <1>2, <2>2 DEF WorkerEffect, ReviewedOnly
    <2>6. ASSUME NEW a \in Accounts, canon[a] # 0
          PROVE  runs'[canon[a]].complete /\ a \in runs'[canon[a]].seen
      <3>1. runs[canon[a]].complete /\ a \in runs[canon[a]].seen
        BY <2>2, <2>6 DEF ReviewedOnly
      <3>2. ~(canon[a] = worker[p].run /\ worker[p].pc = "read") BY <3>1 DEF Uncommitted
      <3>3. canon[a] \in RunIds BY <1>0, <2>6
      <3> QED BY <1>2, <3>1, <3>2, <3>3 DEF WorkerEffect
    <2> QED BY <2>1, <2>2, <2>3, <2>4, <2>5, <2>6 DEF ReviewedOnly
  <1>3. ASSUME NEW p \in Processes, CrashEffect(p) PROVE ReviewedOnly'
    <2>1. edits = 0 BY <1>3 DEF CrashEffect
    <2>2. \A q \in Processes : worker'[q].left = {} BY <1>3, <2>1 DEF CrashEffect, ReviewedOnly
    <2>3. \A c \in Callers : \/ caller'[c].pc = "idle" /\ caller'[c].left = {}
                             \/ caller'[c] = caller[c]
      BY <1>3 DEF CrashEffect
    <2> QED BY <1>3, <2>1, <2>2, <2>3 DEF CrashEffect, ReviewedOnly
  <1>4. ASSUME NEW c \in Callers, CallerEffect(c) PROVE ReviewedOnly'
    <2> DEFINE x == caller[c]
               y == caller'[c]
    <2>1. edits = 0 /\ UNCHANGED <<mode, archived>> BY <1>4 DEF CallerEffect
    <2>2. \A a \in Accounts : mode[a] = "review" /\ ~archived[a] BY <2>1 DEF ReviewedOnly
    <2>3. \A q \in Processes : worker'[q].left = {}
      <3>1. \A q \in Processes : worker[q].left = {} BY <2>1 DEF ReviewedOnly
      <3> QED BY <1>4, <3>1, Given DEF CallerEffect
    <2>4. \A r \in RunIds : runs'[r].complete = runs[r].complete /\ runs'[r].seen = runs[r].seen
      BY <1>4 DEF CallerEffect
    <2>5. \A a \in Accounts : canon[a] # 0 => runs[canon[a]].complete /\ a \in runs[canon[a]].seen
      BY <2>1 DEF ReviewedOnly
    <2>6. ASSUME NEW a \in Accounts, canon'[a] # 0
          PROVE  runs'[canon'[a]].complete /\ a \in runs'[canon'[a]].seen
      <3>1. CASE canon'[a] = canon[a] BY <1>0, <2>4, <2>5, <2>6, <3>1
      <3>2. CASE x.pc = "copying" /\ a \in x.left /\ canon'[a] = x.run
        <4>1. runs[x.run].complete /\ a \in runs[x.run].seen BY <2>1, <3>2 DEF ReviewedOnly
        <4> QED BY <1>b, <2>4, <3>2, <4>1
      <3> QED BY <1>4, <3>1, <3>2 DEF CallerEffect
    <2>7. \A a \in Accounts : canon'[a] = canon[a] \/ (x.pc = "copying" /\ canon'[a] = x.run)
      BY <1>4 DEF CallerEffect
    <2>8. ASSUME NEW d \in Callers, d # c, caller[d].pc \in {"accepted", "copying"}
          PROVE  \A a \in Accounts : canon'[a] = canon[a]
      <3>1. x.pc # "copying" BY <1>a, <2>8, Alone
      <3> QED BY <2>7, <3>1
    <2>9. ASSUME NEW d \in Callers, caller'[d].pc = "accepted"
          PROVE  runs'[caller'[d].run].complete
                   /\ \A a \in Accounts : canon'[a] <= caller'[d].run
      <3>1. CASE d # c
        <4>1. caller'[d] = caller[d] BY <1>4, <3>1 DEF CallerEffect
        <4>2. \A a \in Accounts : canon'[a] = canon[a] BY <2>8, <2>9, <3>1, <4>1
        <4>3. runs[caller[d].run].complete /\ \A a \in Accounts : canon[a] <= caller[d].run
          BY <2>1, <2>9, <4>1 DEF ReviewedOnly
        <4> QED BY <1>b, <2>4, <2>9, <4>1, <4>2, <4>3
      <3>2. CASE d = c
        <4>1. /\ x.pc = "review" /\ y.run = x.run /\ ReviewChoice(x.run) /\ UNCHANGED <<runs, canon>>
          BY <1>4, <2>9, <3>2 DEF CallerEffect
        <4>2. runs[x.run].complete /\ \A r \in RunIds : Reviewable(r) => r <= x.run
          BY <4>1 DEF ReviewChoice, LatestReviewable
        <4>3. \A a \in Accounts : canon[a] # 0 => Reviewable(canon[a])
          BY <2>2, <2>5 DEF Reviewable
        <4>4. \A a \in Accounts : canon[a] <= x.run BY <1>0, <1>b, <4>1, <4>2, <4>3
        <4> QED BY <3>2, <4>1, <4>2, <4>4
      <3> QED BY <3>1, <3>2
    <2>10. ASSUME NEW d \in Callers, caller'[d].pc # "copying" PROVE caller'[d].left = {}
      <3>1. CASE d # c BY <1>4, <2>1, <2>10, <3>1 DEF CallerEffect, ReviewedOnly
      <3>2. CASE d = c /\ x.pc # "copying"
        <4>1. x.left = {} BY <2>1, <3>2 DEF ReviewedOnly
        <4> QED BY <1>4, <2>10, <3>2, <4>1 DEF CallerEffect
      <3>3. CASE d = c /\ x.pc = "copying"
        BY <1>4, <2>10, <3>3 DEF CallerEffect
      <3> QED BY <3>1, <3>2, <3>3
    <2>11. ASSUME NEW d \in Callers, caller'[d].pc = "copying", NEW a \in caller'[d].left
           PROVE  /\ runs'[caller'[d].run].complete
                  /\ a \in runs'[caller'[d].run].seen
                  /\ canon'[a] <= caller'[d].run
      <3>1. CASE d # c
        <4>1. caller'[d] = caller[d] BY <1>4, <3>1 DEF CallerEffect
        <4>2. /\ runs[caller[d].run].complete /\ a \in runs[caller[d].run].seen
              /\ canon[a] <= caller[d].run
          BY <2>1, <2>11, <4>1 DEF ReviewedOnly
        <4>3. a \in Accounts BY <2>11, <4>1 DEF TypeOK, CallerType
        <4>4. canon'[a] = canon[a] BY <2>8, <2>11, <3>1, <4>1, <4>3
        <4> QED BY <1>b, <2>4, <2>11, <4>1, <4>2, <4>4
      <3>2. CASE d = c
        <4>0. y.run = x.run /\ UNCHANGED runs BY <1>4, <2>11, <3>2 DEF CallerEffect
        <4>1. CASE x.pc = "review"
          <5>1. x.left = {} BY <2>1, <4>1 DEF ReviewedOnly
          <5> QED BY <1>4, <2>11, <3>2, <4>1, <5>1 DEF CallerEffect
        <4>2. CASE x.pc = "accepted"
          <5>1. /\ a \in runs[x.run].seen /\ UNCHANGED canon
            BY <1>4, <2>11, <3>2, <4>2 DEF CallerEffect
          <5>2. runs[x.run].complete /\ \A b \in Accounts : canon[b] <= x.run
            BY <2>1, <4>2 DEF ReviewedOnly
          <5>3. a \in Accounts BY <1>b, <4>2, <5>1 DEF TypeOK, RunType
          <5> QED BY <3>2, <4>0, <5>1, <5>2, <5>3
        <4>3. CASE x.pc = "copying"
          <5>1. a \in x.left /\ a \in Accounts
            BY <1>4, <2>11, <3>2, <4>3 DEF CallerEffect, TypeOK, CallerType
          <5>2. runs[x.run].complete /\ a \in runs[x.run].seen /\ canon[a] <= x.run
            BY <2>1, <4>3, <5>1 DEF ReviewedOnly
          <5>3. canon'[a] <= x.run BY <1>b, <2>7, <4>3, <5>1, <5>2
          <5> QED BY <3>2, <4>0, <5>2, <5>3
        <4> QED BY <1>4, <2>11, <3>2, <4>1, <4>2, <4>3 DEF CallerEffect
      <3> QED BY <3>1, <3>2
    <2> QED BY <2>1, <2>2, <2>3, <2>6, <2>9, <2>10, <2>11 DEF ReviewedOnly
  <1>5. ~SettingsEffect BY <1>0 DEF SettingsEffect
  <1>6. UNCHANGED vars => ReviewedOnly' BY DEF vars, rows, settings, ReviewedOnly
  <1> QED BY <1>1, <1>2, <1>3, <1>4, <1>5, <1>6, Effects

\* A run is left by its worker or its caller, who was alone to work on a run, and
\* only after a failed write or by dying.
LEMMA LeftStep ==
    ASSUME TypeOK, Owned, Referred, LeftByFailure, [Next]_vars PROVE LeftByFailure'
  <1>0. /\ last \in Nat
        /\ \A r \in RunIds : r \in Nat
        /\ \A p \in Processes : Works(p) => worker[p].run \in RunIds /\ worker[p].run <= last
        /\ \A c \in Callers : caller[c].pc = "created" =>
                                 caller[c].run \in RunIds /\ caller[c].run <= last
    BY Given DEF TypeOK, Referred, RunIds
  <1>e. faults \in Nat /\ crashes \in Nat BY Given DEF TypeOK
  <1>a. \A c \in Callers : caller[c].pc = "created" => HoldsFile(c) BY DEF HoldsFile
  <1>b. IsFiniteSet(Left) /\ Cardinality(Left) \in Nat
    <2>1. IsFiniteSet(RunIds) BY Given, FS_Interval DEF RunIds
    <2>2. Left \subseteq RunIds BY DEF Left
    <2> QED BY <2>1, <2>2, FS_Subset, FS_CardinalityType
  <1>c. ASSUME Left' \subseteq Left, faults' + crashes' >= faults + crashes,
               faults' \in Nat, crashes' \in Nat
        PROVE  LeftByFailure'
    <2>1. Cardinality(Left') <= Cardinality(Left) /\ Cardinality(Left') \in Nat
      BY <1>b, <1>c, FS_Subset, FS_CardinalityType
    <2> QED BY <1>e, <1>0, <1>b, <1>c, <2>1 DEF LeftByFailure
  <1>d. ASSUME NEW r, Left' \subseteq Left \cup {r}, faults' + crashes' >= faults + crashes + 1,
               faults' \in Nat, crashes' \in Nat
        PROVE  LeftByFailure'
    <2>1. /\ IsFiniteSet(Left \cup {r}) /\ Cardinality(Left \cup {r}) \in Nat
          /\ Cardinality(Left \cup {r}) <= Cardinality(Left) + 1
      BY <1>b, FS_AddElement, FS_CardinalityType
    <2>2. Cardinality(Left') <= Cardinality(Left \cup {r}) /\ Cardinality(Left') \in Nat
      BY <1>d, <2>1, FS_Subset, FS_CardinalityType
    <2>3. Cardinality(Left') <= Cardinality(Left) + 1 /\ Cardinality(Left') \in Nat
      BY <1>b, <2>1, <2>2
    <2>4. Cardinality(Left) <= faults + crashes BY DEF LeftByFailure
    <2>5. \A m, n, k, l \in Nat : m <= n + 1 /\ n <= k /\ l >= k + 1 => m <= l OBVIOUS
    <2>6. Cardinality(Left') \in Nat /\ Cardinality(Left) \in Nat BY <1>b, <2>3
    <2>8. faults + crashes \in Nat BY <1>e
    <2>10. faults' \in Nat /\ crashes' \in Nat BY <1>d
    <2>11. faults' + crashes' >= faults + crashes + 1 BY <1>d
    <2>12. \A k, l \in Nat : k + l \in Nat OBVIOUS
    <2>9. faults' + crashes' \in Nat BY <2>10, <2>12
    <2>7. Cardinality(Left') <= faults' + crashes' BY <2>3, <2>4, <2>5, <2>6, <2>8, <2>9, <2>11
    <2> QED BY <2>7 DEF LeftByFailure
  <1>1. ASSUME NEW p \in Processes, BootEffect(p) PROVE LeftByFailure'
    <2>1. Left' \subseteq Left BY <1>1 DEF BootEffect, Left, WorkedOn
    <2> QED BY <1>e, <1>0, <1>1, <1>c, <2>1 DEF BootEffect
  <1>2. ASSUME NEW p \in Processes, WorkerEffect(p) PROVE LeftByFailure'
    <2>0. PICK n : n = worker[p].run OBVIOUS
    <2> DEFINE w == worker[p]
    <2>1. /\ Works(p) /\ \A q \in Processes : Works(q) => q = p
          /\ \A c \in Callers : caller[c].pc # "created"
      BY <1>2, <1>a, Alone DEF WorkerEffect
    <2>2. /\ caller' = caller /\ crashes' = crashes /\ faults' \in Nat
          /\ faults' = faults \/ faults' = faults + 1
      BY <1>e, <1>0, <1>2 DEF WorkerEffect
    <2>3. \A r \in RunIds : WorkedOn(r) <=> (w.pc # "releasing" /\ r = n)
      BY <2>0, <2>1 DEF WorkedOn, Works
    <2>4. \A r \in RunIds : r # n => ~WorkedOn(r) /\ runs'[r].state = runs[r].state
      BY <1>2, <2>0, <2>3 DEF WorkerEffect
    <2>5. Left' \subseteq Left \cup {n} BY <2>4 DEF Left
    <2>6. CASE faults' = faults + 1
      <3>1. faults' + crashes' >= faults + crashes + 1 /\ crashes' \in Nat BY <1>e, <1>0, <2>2, <2>6
      <3> QED BY <1>d, <2>2, <2>5, <3>1
    <2>7. CASE faults' = faults
      <3>1. ASSUME n \in Left' PROVE n \in Left
        <4>1. n \in RunIds /\ runs'[n].state = "running" /\ ~WorkedOn(n)'
          BY <3>1 DEF Left
        <4>2. worker'[p].pc \in {"none", "releasing"}
          BY <1>2, <2>0, <4>1 DEF WorkerEffect, WorkedOn
        <4>3. w.pc = "releasing" BY <1>2, <2>0, <2>7, <4>1, <4>2 DEF WorkerEffect
        <4>4. runs' = runs BY <1>2, <4>3 DEF WorkerEffect
        <4> QED BY <2>3, <4>1, <4>3, <4>4 DEF Left
      <3>2. Left' \subseteq Left BY <2>5, <3>1
      <3> QED BY <1>e, <1>0, <1>c, <2>2, <2>7, <3>2
    <2> QED BY <2>2, <2>6, <2>7
  <1>3. ASSUME NEW p \in Processes, CrashEffect(p) PROVE LeftByFailure'
    <2>1. \E n : \A r \in RunIds : WorkedOn(r) => r = n
      <3>1. CASE \E q \in Processes : Works(q)
        <4>1. PICK q \in Processes : Works(q) BY <3>1
        <4>2. /\ \A o \in Processes : Works(o) => o = q
              /\ \A c \in Callers : caller[c].pc # "created"
          BY <4>1, <1>a, Alone
        <4> QED BY <4>1, <4>2 DEF WorkedOn, Works
      <3>2. CASE \E c \in Callers : caller[c].pc = "created"
        <4>1. PICK c \in Callers : caller[c].pc = "created" BY <3>2
        <4>2. /\ \A o \in Processes : ~Works(o)
              /\ \A d \in Callers : caller[d].pc = "created" => d = c
          BY <4>1, <1>a, Alone
        <4> QED BY <4>1, <4>2 DEF WorkedOn, Works
      <3>3. CASE (\A q \in Processes : ~Works(q)) /\ \A c \in Callers : caller[c].pc # "created"
        BY <3>3 DEF WorkedOn, Works
      <3> QED BY <3>1, <3>2, <3>3
    <2>2. PICK n : \A r \in RunIds : WorkedOn(r) => r = n BY <2>1
    <2>3. Left' \subseteq Left \cup {n} BY <1>3, <2>2 DEF CrashEffect, Left
    <2> QED BY <1>e, <1>0, <1>3, <1>d, <2>3 DEF CrashEffect
  <1>4. ASSUME NEW c \in Callers, CallerEffect(c) PROVE LeftByFailure'
    <2> DEFINE x == caller[c]
               y == caller'[c]
               h == Host[c]
    <2>0. h \in Processes /\ crashes' = crashes /\ faults' \in Nat
            /\ (faults' = faults \/ faults' = faults + 1)
      BY <1>e, <1>0, <1>4, Given DEF CallerEffect
    <2>1. CASE x.pc # "created"
      <3>1. worker'[h] = worker[h] BY <1>4, <2>1 DEF CallerEffect
      <3>2. \A q \in Processes : worker'[q] = worker[q] BY <1>4, <3>1 DEF CallerEffect
      <3>3. \A r : WorkedOn(r) => WorkedOn(r)'
        BY <1>4, <2>1, <3>2 DEF CallerEffect, WorkedOn
      <3>4. \A r \in RunIds : runs'[r].state = "running" =>
               runs[r].state = "running" \/ (y.pc = "created" /\ y.run = r)
        BY <1>4, <2>1 DEF CallerEffect
      <3>5. \A r : y.pc = "created" /\ y.run = r => WorkedOn(r)' BY DEF WorkedOn
      <3>6. Left' \subseteq Left BY <3>3, <3>4, <3>5 DEF Left
      <3>7. crashes' = crashes /\ crashes' \in Nat BY <1>e, <2>0
      <3>8. faults' + crashes' >= faults + crashes
        <4>1. \A k, l \in Nat : k + l >= k + l /\ (k + 1) + l >= k + l OBVIOUS
        <4>2. faults' = faults \/ faults' = faults + 1 BY <2>0
        <4> QED BY <1>e, <3>7, <4>1, <4>2
      <3> QED BY <1>c, <2>0, <3>6, <3>7, <3>8
    <2>2. CASE x.pc = "created"
      <3>0. PICK n : n = caller[c].run OBVIOUS
      <3>1. /\ \A q \in Processes : ~Works(q)
            /\ \A d \in Callers : caller[d].pc = "created" => d = c
            /\ n \in RunIds /\ n <= last
        BY <1>e, <1>0, <1>a, <2>2, <3>0, Alone
      <3>2. \A r \in RunIds : WorkedOn(r) <=> r = n BY <2>2, <3>0, <3>1 DEF WorkedOn, Works
      <3>3. y.pc # "created" BY <1>4, <2>2 DEF CallerEffect
      <3>4. \A r \in RunIds : r # n /\ runs'[r].state = "running" => runs[r].state = "running"
        BY <1>4, <2>2, <3>0, <3>3 DEF CallerEffect
      <3>5. Left' \subseteq Left \cup {n} BY <3>2, <3>4 DEF Left
      <3>6. CASE faults' = faults + 1
        <4>1. faults' + crashes' >= faults + crashes + 1 /\ crashes' \in Nat BY <1>e, <1>0, <2>0, <3>6
        <4> QED BY <1>d, <2>0, <3>5, <4>1
      <3>7. CASE faults' = faults /\ y.pc # "handed"
        <4>1. runs'[n].state # "running" BY <1>4, <2>2, <3>0, <3>7 DEF CallerEffect
        <4>2. Left' \subseteq Left BY <3>5, <4>1 DEF Left
        <4> QED BY <1>e, <1>0, <1>c, <2>0, <3>7, <4>2
      <3>8. CASE faults' = faults /\ y.pc = "handed"
        <4>1. worker'[h].pc = "gateway" /\ worker'[h].run = n BY <1>4, <3>0, <3>8 DEF CallerEffect
        <4>2. WorkedOn(n)' BY <2>0, <4>1 DEF WorkedOn
        <4>3. Left' \subseteq Left BY <3>5, <4>2 DEF Left
        <4> QED BY <1>e, <1>0, <1>c, <2>0, <3>8, <4>3
      <3> QED BY <2>0, <3>6, <3>7, <3>8
    <2> QED BY <2>1, <2>2
  <1>5. SettingsEffect => LeftByFailure' BY DEF SettingsEffect, LeftByFailure, Left, WorkedOn
  <1>6. UNCHANGED vars => LeftByFailure' BY DEF vars, rows, LeftByFailure, Left, WorkedOn
  <1> QED BY <1>1, <1>2, <1>3, <1>4, <1>5, <1>6, Effects

-----------------------------------------------------------------------------
(* The theorems *)

\* The first state: nothing is held, running, complete or copied.
LEMMA IndInit == Init => IndInv
  <1> SUFFICES ASSUME Init PROVE IndInv OBVIOUS
  <1>1. TypeOK
    BY IdleTyped, Given DEF Init, TypeOK, BootSteps
  <1>2. /\ \A p \in Processes : worker[p] = WorkerNone /\ boot[p] = "down" /\ ~threadLock[p]
        /\ \A c \in Callers : caller[c] = CallerIdle
        /\ \A r \in RunIds : runs[r] = Absent
        /\ \A a \in Accounts : canon[a] = 0 /\ mode[a] = "review" /\ archived[a] = FALSE
        /\ fileLock = None /\ last = 0 /\ faults = 0 /\ crashes = 0
    BY DEF Init
  <1>3. /\ WorkerNone.pc = "none" /\ WorkerNone.left = {} /\ CallerIdle.pc = "idle"
        /\ CallerIdle.left = {} /\ Absent.state = "absent" /\ ~Absent.complete
    BY DEF WorkerNone, CallerIdle, Absent
  <1>4. Owned
    BY <1>2, <1>3, Given DEF Owned, Works, Boots, HoldsThread, HoldsFile
  <1>5. LiveRunIsRunning /\ Referred /\ Uncommitted /\ Newest /\ ReviewedOnly
    BY <1>2, <1>3 DEF LiveRunIsRunning, Referred, Uncommitted, Newest, ReviewedOnly, Works
  <1>6. LeftByFailure
    <2>1. Left = {} BY <1>2, <1>3 DEF Left
    <2> QED BY <1>2, <2>1, FS_EmptySet DEF LeftByFailure
  <1> QED BY <1>1, <1>4, <1>5, <1>6 DEF IndInv

\* Every reachable state satisfies the inductive invariant.
LEMMA Inductive == Spec => []IndInv
  <1>1. IndInv /\ [Next]_vars => IndInv'
    BY TypeStep, OwnedStep, ReferredStep, LiveStep, UncommittedStep, NewestStep, ReviewedStep,
       LeftStep DEF IndInv
  <1> QED BY <1>1, IndInit, PTL DEF Spec

\* Every table, lock and thread keeps its type (portfolio_capture.py:154-376).
THEOREM TypeCorrect == Spec => []TypeOK
  <1>1. IndInv => TypeOK BY DEF IndInv
  <1> QED BY <1>1, Inductive, PTL

\* The two locks of portfolio_capture.py:154-227 and 539 are never lost and never
\* released twice, for any processes and callers.
THEOREM LocksAreOwned == Spec => []LocksOwned
  <1>1. ASSUME TypeOK, Owned PROVE LocksOwned
    <2>1. \A c \in Callers : /\ caller[c].pc \in CallerSteps
                             /\ HoldsFile(c) => HoldsThread(c)
      BY <1>1 DEF TypeOK, CallerType, HoldsFile, HoldsThread
    <2>2. ASSUME NEW p \in Processes
          PROVE  \A o : o \in ThreadOwners(p) <=>
                    \/ \E c \in Callers : Host[c] = p /\ HoldsThread(c) /\ o = <<"caller", c>>
                    \/ Works(p) /\ o = <<"worker", p>>
                    \/ Boots(p) /\ o = <<"boot", p>>
      BY <2>1 DEF ThreadOwners, CallersIn, Others, Works, Boots, HoldsThread
    <2>3. ASSUME NEW p \in Processes
          PROVE  FileOwners(p) # {} <=>
                    \/ \E c \in Callers : Host[c] = p /\ HoldsFile(c)
                    \/ Works(p) \/ Boots(p)
      BY DEF FileOwners, CallersIn, Others, Works, Boots, HoldsFile
    <2>4. ASSUME NEW p \in Processes, NEW a \in ThreadOwners(p), NEW b \in ThreadOwners(p)
          PROVE  a = b
      BY <1>1, <2>2, <2>4 DEF Owned
    <2>5. ASSUME NEW p \in Processes PROVE threadLock[p] <=> ThreadOwners(p) # {}
      <3>1. ThreadOwners(p) # {} <=> \/ \E c \in Callers : Host[c] = p /\ HoldsThread(c)
                                     \/ Works(p) \/ Boots(p)
        BY <2>2
      <3> QED BY <1>1, <3>1, Zenon DEF Owned
    <2>6. ASSUME NEW p \in Processes PROVE fileLock = p <=> FileOwners(p) # {}
      BY <1>1, <2>3 DEF Owned
    <2> QED BY <2>4, <2>5, <2>6 DEF LocksOwned
  <1>2. IndInv => LocksOwned BY <1>1 DEF IndInv
  <1> QED BY <1>2, Inductive, PTL

\* No boot of any process declares a run interrupted that somebody works on
\* (portfolio_capture.py:267, portfolio_observations.py:687).
THEOREM LiveRunsAreRunning == Spec => []LiveRunIsRunning
  <1>1. IndInv => LiveRunIsRunning BY DEF IndInv
  <1> QED BY <1>1, Inductive, PTL

\* At most one row is left running for each failed write or death
\* (portfolio_capture.py:192-217, 296-376).
THEOREM StrandedOnlyByFailure == Spec => []StrandedByFailure
  <1>1. ASSUME TypeOK, LeftByFailure PROVE StrandedByFailure
    <2> DEFINE S == {r \in RunIds : runs[r].state = "running" /\ ~Live(r)}
    <2>1. S \subseteq Left BY DEF Left, WorkedOn, Live
    <2>2. IsFiniteSet(Left)
      <3>1. IsFiniteSet(RunIds) BY Given, FS_Interval DEF RunIds
      <3> QED BY <3>1, FS_Subset DEF Left
    <2>3. /\ Cardinality(S) <= Cardinality(Left)
          /\ Cardinality(S) \in Nat /\ Cardinality(Left) \in Nat
      BY <2>1, <2>2, FS_Subset, FS_CardinalityType
    <2>4. faults + crashes \in Nat BY <1>1, Given DEF TypeOK
    <2> QED BY <1>1, <2>3, <2>4 DEF LeftByFailure, StrandedByFailure
  <1>2. IndInv => StrandedByFailure BY <1>1 DEF IndInv
  <1> QED BY <1>2, Inductive, PTL

\* No capture takes an account back to older positions (portfolio_capture.py:327).
THEOREM CapturesGoForward == Spec => CaptureNeverOlder
  <1> DEFINE Forward == \A p \in Processes : \A a \in worker[p].left \ worker'[p].left :
                           canon'[a] = worker[p].run => canon[a] <= worker[p].run
  <1>1. ASSUME IndInv, [Next]_vars PROVE Forward
    <2> SUFFICES ASSUME NEW p \in Processes, NEW a \in worker[p].left, a \notin worker'[p].left,
                        canon'[a] = worker[p].run
                 PROVE  canon[a] <= worker[p].run
      OBVIOUS
    <2>1. a \in Accounts /\ canon[a] \in Nat BY <1>1, Given DEF IndInv, TypeOK, WorkerType
    <2>2. CASE canon'[a] = canon[a] BY <2>1, <2>2
    <2>3. CASE Works(p) BY <1>1, <2>1, <2>3 DEF IndInv, Newest
    <2>4. CASE ~Works(p) /\ canon'[a] # canon[a]
      <3>1. ~WorkerEffect(p) BY <2>4 DEF WorkerEffect
      <3>2. \A q \in Processes : BootEffect(q) \/ CrashEffect(q) => canon' = canon
        BY DEF BootEffect, CrashEffect
      <3>3. \A q \in Processes : q # p /\ WorkerEffect(q) => worker'[p] = worker[p]
        BY DEF WorkerEffect
      <3>4. SettingsEffect \/ UNCHANGED vars => canon' = canon BY DEF SettingsEffect, vars
      <3>5. PICK c \in Callers : CallerEffect(c)
        BY <1>1, <2>4, <3>1, <3>2, <3>3, <3>4, Effects DEF IndInv
      <3>6. caller[c].pc = "copying" BY <2>1, <2>4, <3>5 DEF CallerEffect
      <3>7. worker'[p] = worker[p] BY <3>5, <3>6 DEF CallerEffect
      <3> QED BY <3>7
    <2> QED BY <2>2, <2>3, <2>4
  <1>2. IndInv /\ [Next]_vars => [Forward]_vars BY <1>1
  <1> QED BY <1>2, Inductive, PTL DEF Spec, CaptureNeverOlder

\* Without a change of settings no review takes an account back
\* (portfolio_capture.py:237-265).
THEOREM ReviewsGoForward == Spec => ReviewNeverOlder
  <1> DEFINE Forward == \A a \in Accounts : edits > 0 \/ canon'[a] >= canon[a]
  <1>1. ASSUME IndInv, [Next]_vars PROVE Forward
    <2> SUFFICES ASSUME NEW a \in Accounts, ~(edits > 0) PROVE canon'[a] >= canon[a]
      OBVIOUS
    <2>1. edits = 0 /\ canon[a] \in Nat BY <1>1, Given DEF IndInv, TypeOK
    <2>2. \A p \in Processes : WorkerEffect(p) => canon'[a] = canon[a]
      BY <1>1, <2>1 DEF WorkerEffect, IndInv, ReviewedOnly
    <2>3. ASSUME NEW c \in Callers, CallerEffect(c) PROVE canon'[a] >= canon[a]
      <3>1. CASE canon'[a] = canon[a] BY <2>1, <3>1
      <3>2. CASE caller[c].pc = "copying" /\ a \in caller[c].left /\ canon'[a] = caller[c].run
        <4>1. canon[a] <= caller[c].run BY <1>1, <2>1, <3>2 DEF IndInv, ReviewedOnly
        <4>2. caller[c].run \in Nat BY <1>1, <3>2 DEF IndInv, Referred
        <4> QED BY <2>1, <3>2, <4>1, <4>2
      <3> QED BY <2>3, <3>1, <3>2 DEF CallerEffect
    <2>4. \A p \in Processes : BootEffect(p) \/ CrashEffect(p) => canon' = canon
      BY DEF BootEffect, CrashEffect
    <2>5. SettingsEffect \/ UNCHANGED vars => canon' = canon BY DEF SettingsEffect, vars
    <2> QED BY <1>1, <2>1, <2>2, <2>3, <2>4, <2>5, Effects DEF IndInv
  <1>2. IndInv /\ [Next]_vars => [Forward]_vars BY <1>1
  <1> QED BY <1>2, Inductive, PTL DEF Spec, ReviewNeverOlder
=============================================================================
