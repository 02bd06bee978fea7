--------------------------- MODULE SecCapturesProofs ---------------------------
(****************************************************************************)
(* Proofs about SecCaptures, for any bodies, sizes, budget, writers and runs *)
(* and any number of crashes, power losses, cleanups, resets and uninstalls. *)
(*                                                                           *)
(* The inductive invariant says who may be where (Locks), what the           *)
(* directory and the tables look like whoever stopped where (Files), what    *)
(* the holder of the lease has prepared (Writing), what the operator has     *)
(* approved and done (Cleaning), and what runs may cite (Refs).              *)
(****************************************************************************)
EXTENDS SecCaptures, FiniteSetTheorems, TLAPS

\* The tables of charges, without whether they are installed.
charges == <<objects, orphans, reservations>>

\* Steps taken under the writer lease.
InLease == Steps \ {"idle", "lease", "publish"}

\* A writer or a run is in the store only with a shared operation lock, an apply
\* only without any; the lease is held by whoever takes steps that need it.
Locks ==
    /\ \A w \in Writers : acq[w].pc # "idle" => w \in shared
    /\ \A r \in Runs : finding[r] # None => r \in shared
    /\ Exclusive => shared = {}
    /\ \A w \in Writers : acq[w].pc \in InLease => lease = w

\* An inode has one object name at most.
OneName == \A s \in Stages : \A o, p \in Objects : EntryOf(o, s) /\ EntryOf(p, s) => o = p

\* A file whose name was removed and not synced is not visible under another one.
NoGhost == \A o \in Objects : publishedD[o] # None /\ publishedD[o] # published[o] => ~Visible(publishedD[o])

\* A charge under a staging name is for a file that no object name refers to.
StageKeys == \A r \in orphans : r.key \in Stages => \A o \in Objects : ~EntryOf(o, r.key)

Files == OneName /\ NoGhost /\ StageKeys /\ RegisteredReadable

Refs ==
    /\ CitedResolve
    /\ \A r \in Runs : finding[r] # None => finding[r] \in rows

\* The object names are durable from the first sync of a recovery on, except
\* between link and its sync.
Durable == InLease \ {"sync", "link_sync"}

Reserved(w) == [id |-> acq[w].stage, size |-> Size[acq[w].obj]] \in reservations

\* What put has done so far for its body: nothing else can be under its names.
Writing(w) ==
    /\ acq[w].then # "end" \/ acq[w].pc \notin {"idle", "lease", "sync", "charge", "alias", "alias_sync", "end"}
          => acq[w].obj \in Objects
    /\ acq[w].pc \in Durable => publishedD = published
    /\ acq[w].pc = "charge" => stagedD = staged
    /\ acq[w].pc \in {"stage", "stage_sync", "link", "link_sync", "register"} =>
          acq[w].stage \in Stages /\ acq[w].obj \notin objects /\ Reserved(w)
    /\ acq[w].pc \in {"stage", "stage_sync", "link"} =>
          /\ published[acq[w].obj] = None
          /\ \A o \in Objects : ~EntryOf(o, acq[w].stage)
          /\ \A r \in orphans : r.key # acq[w].stage
    /\ acq[w].pc \in {"link", "link_sync", "register"} => bytes[acq[w].stage] = Size[acq[w].obj]
    /\ acq[w].pc \in {"link_sync", "register"} => published[acq[w].obj] = acq[w].stage
    /\ acq[w].pc = "link_sync" => publishedD = [published EXCEPT ![acq[w].obj] = None]

\* What an apply works on: exactly the files that were approved.
Cleaning ==
    /\ Exclusive => Aliases = {}
    /\ admin.pc = "charge" =>
          /\ \A s \in staged : [key |-> s, kind |-> "staging"] \in admin.left
          /\ \A o \in Objects \ objects : published[o] # None => [key |-> o, kind |-> "unregistered"] \in admin.left
          /\ \A c \in admin.left :
                /\ c.key \in objects => c.kind = "registered"
                /\ c.kind = "registered" => c.key \in objects \ rows
                /\ c.kind \in {"staging", "unregistered"} => c.key \in staged \/ (c.key \in Objects /\ published[c.key] # None)
    /\ admin.pc \in {"next", "removed", "settle"} => \A c \in admin.left : c.key \notin objects
    /\ admin.pc \in {"removed", "settle"} =>
          admin.cur \in Names /\ admin.cur \notin staged /\ (admin.cur \in Objects => published[admin.cur] = None)
    /\ admin.pc \in {"reset_sync", "reset", "uninstall_sync", "uninstall"} => cited = {}

IndInv ==
    /\ TypeOK
    /\ Locks
    /\ Files
    /\ Refs
    /\ \A w \in Writers : Writing(w)
    /\ Cleaning
    /\ ChargedUnderLease

-----------------------------------------------------------------------------
(* Small facts about names and charges.                                      *)

\* The invariant of the files and of the accounting, once under the lease.
FilesCharged == \A s \in Stages : OnDisk(s) => HasCharge(s)

USE SizeAssumption, NamesAssumption

\* A file can be seen in staging/ or under the name of a body.
LEMMA VisibleFile ==
    ASSUME TypeOK
    PROVE  \A s \in Stages : Visible(s) <=> s \in staged \/ \E o \in Objects : published[o] = s
BY DEF TypeOK, Visible, Inodes

\* ... and so it is after a step.
LEMMA VisibleFileNext ==
    ASSUME TypeOK'
    PROVE  \A s \in Stages : Visible(s)' <=> s \in staged' \/ \E o \in Objects : published'[o] = s
BY DEF TypeOK, Visible, Inodes

\* What can be seen is on disk.
LEMMA VisibleOnDisk ==
    ASSUME TypeOK, NEW s \in Stages, Visible(s)
    PROVE  OnDisk(s)
BY VisibleFile DEF OnDisk, EntryOf

\* While every inode is charged, the visible ones are.
LEMMA ChargedCovers == TypeOK /\ FilesCharged => FilesCovered
BY VisibleOnDisk DEF FilesCharged, FilesCovered

\* ... and so after a step.
LEMMA ChargedCoversNext ==
    ASSUME TypeOK', FilesCharged'
    PROVE  FilesCovered'
<1>1. SUFFICES ASSUME NEW s \in Stages, Visible(s)' PROVE HasCharge(s)'
  BY DEF FilesCovered
<1>2. OnDisk(s)'
  BY <1>1, VisibleFileNext DEF OnDisk, EntryOf
<1> QED BY <1>2 DEF FilesCharged

\* Past the accounting of its recovery, the lease holder finds every inode charged.
LEMMA ChargedInside ==
    ASSUME IndInv, NEW w \in Writers, acq[w].pc \in Charging
    PROVE  FilesCharged
BY DEF IndInv, ChargedUnderLease, FilesCharged

-----------------------------------------------------------------------------
(* What the invariant says of the holder of the lease.                       *)

\* A writer in the store keeps the operator out.
LEMMA WriterExcludes ==
    ASSUME IndInv, NEW w \in Writers, acq[w].pc # "idle"
    PROVE  ~Exclusive
BY DEF IndInv, Locks

\* While an apply works, no writer is in the store and no run has read.
LEMMA AdminAlone ==
    ASSUME IndInv, Exclusive
    PROVE  /\ \A w \in Writers : acq[w].pc = "idle"
           /\ \A r \in Runs : finding[r] = None
           /\ shared = {}
BY DEF IndInv, Locks

\* The body that put works on is one of the bodies.
LEMMA PutsBody ==
    ASSUME IndInv, NEW w \in Writers,
           acq[w].pc \notin {"idle", "lease", "sync", "charge", "alias", "alias_sync", "end"}
    PROVE  acq[w].obj \in Objects /\ Size[acq[w].obj] \in Nat
BY DEF IndInv, Writing

-----------------------------------------------------------------------------
(* Types.                                                                    *)

\* The initial state has the types.
LEMMA TypeInit == Init => TypeOK
<1> SUFFICES ASSUME Init PROVE TypeOK OBVIOUS
<1>1. Idle \in [pc : Steps, then : Goals, obj : Objects \cup {None}, stage : Stages \cup {None}]
  BY DEF Idle, Steps, Goals
<1>2. AdminIdle \in [pc : AdminSteps, left : SUBSET [key : Names, kind : Kinds], cur : Names \cup {None}]
  BY DEF AdminIdle, AdminSteps
<1>3. installed \in BOOLEAN BY DEF Init
<1> QED BY <1>1, <1>2, <1>3 DEF Init, TypeOK

\* The fields of a writer.
AcqType == [pc : Steps, then : Goals, obj : Objects \cup {None}, stage : Stages \cup {None}]

\* Writer w, and no other, is where the step takes it.
Turn(w, pc, then, stage) ==
    /\ acq' \in [Writers -> AcqType]
    /\ \A v \in Writers \ {w} : acq'[v] = acq[v]
    /\ acq'[w].pc = pc
    /\ acq'[w].then = then
    /\ acq'[w].obj = acq[w].obj
    /\ acq'[w].stage = stage

\* A step that sets only where the writer is.
LEMMA MovesOn ==
    ASSUME TypeOK, NEW w \in Writers, NEW pc \in Steps, acq' = [acq EXCEPT ![w].pc = pc]
    PROVE  Turn(w, pc, acq[w].then, acq[w].stage)
<1>1. acq \in [Writers -> AcqType] BY DEF TypeOK, AcqType
<1>2. acq' = [acq EXCEPT ![w] = [acq[w] EXCEPT !.pc = pc]] BY <1>1
<1>3. [acq[w] EXCEPT !.pc = pc] \in AcqType BY <1>1 DEF AcqType
<1> QED BY <1>1, <1>2, <1>3 DEF Turn, AcqType

\* A step that also sets what follows the recovery.
LEMMA MovesFor ==
    ASSUME TypeOK, NEW w \in Writers, NEW pc \in Steps, NEW then \in Goals,
           acq' = [acq EXCEPT ![w].pc = pc, ![w].then = then]
    PROVE  Turn(w, pc, then, acq[w].stage)
<1>1. acq \in [Writers -> AcqType] BY DEF TypeOK, AcqType
<1> DEFINE e == [acq[w] EXCEPT !.pc = pc, !.then = then]
<1>2. acq' = [acq EXCEPT ![w] = e] BY <1>1
<1>3. e \in AcqType /\ e.pc = pc /\ e.then = then /\ e.obj = acq[w].obj /\ e.stage = acq[w].stage
  BY <1>1 DEF AcqType
<1> HIDE DEF e
<1> QED BY <1>1, <1>2, <1>3 DEF Turn

\* A step that also gives the staging name.
LEMMA MovesUnder ==
    ASSUME TypeOK, NEW w \in Writers, NEW pc \in Steps, NEW s \in Stages,
           acq' = [acq EXCEPT ![w].pc = pc, ![w].stage = s]
    PROVE  Turn(w, pc, acq[w].then, s)
<1>1. acq \in [Writers -> AcqType] BY DEF TypeOK, AcqType
<1> DEFINE e == [acq[w] EXCEPT !.pc = pc, !.stage = s]
<1>2. acq' = [acq EXCEPT ![w] = e] BY <1>1
<1>3. e \in AcqType /\ e.pc = pc /\ e.then = acq[w].then /\ e.obj = acq[w].obj /\ e.stage = s
  BY <1>1 DEF AcqType
<1> HIDE DEF e
<1> QED BY <1>1, <1>2, <1>3 DEF Turn

\* Where every step under the lease takes its writer.
LEMMA Turns ==
    ASSUME TypeOK, NEW w \in Writers
    PROVE  /\ TakeLease(w) => Turn(w, "sync", acq[w].then, acq[w].stage)
           /\ Sync(w) => Turn(w, "charge", acq[w].then, acq[w].stage)
           /\ Charge(w) => Turn(w, "alias", acq[w].then, acq[w].stage)
           /\ DropAlias(w) => Turn(w, "alias_sync", acq[w].then, acq[w].stage)
           /\ SyncAlias(w) => Turn(w, "alias", acq[w].then, acq[w].stage)
           /\ Recovered(w) => Turn(w, acq[w].then, acq[w].then, acq[w].stage)
           /\ HasRoom(w) => Turn(w, "lease", "look", acq[w].stage)
           /\ AlreadyRegistered(w) => Turn(w, "publish", "done", acq[w].stage)
           /\ AdoptExisting(w) => Turn(w, "sync", "done", acq[w].stage)
           /\ Reserve(w) => \E s \in Stages : Turn(w, "stage", acq[w].then, s)
           /\ Stage(w) => Turn(w, "stage_sync", acq[w].then, acq[w].stage)
           /\ StageSync(w) => Turn(w, "link", acq[w].then, acq[w].stage)
           /\ Link(w) => Turn(w, "link_sync", acq[w].then, acq[w].stage)
           /\ LinkSync(w) => Turn(w, "register", acq[w].then, acq[w].stage)
           /\ Register(w) => Turn(w, "unlink", acq[w].then, acq[w].stage)
           /\ Unlink(w) => Turn(w, "unlink_sync", acq[w].then, acq[w].stage)
           /\ UnlinkSync(w) => Turn(w, "sync", "done", acq[w].stage)
           /\ PutReturns(w) => Turn(w, "publish", "done", acq[w].stage)
<1>1. \A pc \in Steps : acq' = [acq EXCEPT ![w].pc = pc] => Turn(w, pc, acq[w].then, acq[w].stage)
  BY MovesOn
<1>2. \A pc \in Steps, then \in Goals :
          acq' = [acq EXCEPT ![w].pc = pc, ![w].then = then] => Turn(w, pc, then, acq[w].stage)
  BY MovesFor
<1>3. \A pc \in Steps, s \in Stages :
          acq' = [acq EXCEPT ![w].pc = pc, ![w].stage = s] => Turn(w, pc, acq[w].then, s)
  BY MovesUnder
<1>4. acq[w].then \in Steps BY DEF TypeOK, Steps
<1>5. /\ TakeLease(w) => Turn(w, "sync", acq[w].then, acq[w].stage)
      /\ Sync(w) => Turn(w, "charge", acq[w].then, acq[w].stage)
      /\ Charge(w) => Turn(w, "alias", acq[w].then, acq[w].stage)
      /\ DropAlias(w) => Turn(w, "alias_sync", acq[w].then, acq[w].stage)
      /\ SyncAlias(w) => Turn(w, "alias", acq[w].then, acq[w].stage)
      /\ Recovered(w) => Turn(w, acq[w].then, acq[w].then, acq[w].stage)
  BY <1>1, <1>4 DEF TakeLease, Sync, Charge, DropAlias, SyncAlias, Recovered, Go, Steps
<1>6. /\ HasRoom(w) => Turn(w, "lease", "look", acq[w].stage)
      /\ AlreadyRegistered(w) => Turn(w, "publish", "done", acq[w].stage)
      /\ AdoptExisting(w) => Turn(w, "sync", "done", acq[w].stage)
      /\ UnlinkSync(w) => Turn(w, "sync", "done", acq[w].stage)
      /\ PutReturns(w) => Turn(w, "publish", "done", acq[w].stage)
  BY <1>2 DEF HasRoom, AlreadyRegistered, AdoptExisting, UnlinkSync, PutReturns, Unlease, Steps, Goals
<1>7. Reserve(w) => \E s \in Stages : Turn(w, "stage", acq[w].then, s)
  BY <1>3 DEF Reserve, Steps
<1>8. /\ Stage(w) => Turn(w, "stage_sync", acq[w].then, acq[w].stage)
      /\ StageSync(w) => Turn(w, "link", acq[w].then, acq[w].stage)
      /\ Link(w) => Turn(w, "link_sync", acq[w].then, acq[w].stage)
      /\ LinkSync(w) => Turn(w, "register", acq[w].then, acq[w].stage)
      /\ Register(w) => Turn(w, "unlink", acq[w].then, acq[w].stage)
      /\ Unlink(w) => Turn(w, "unlink_sync", acq[w].then, acq[w].stage)
  BY <1>1 DEF Stage, StageSync, Link, LinkSync, Register, Unlink, Go, Steps
<1> QED BY <1>5, <1>6, <1>7, <1>8

\* The types without those of the writers.
StoreType ==
    /\ staged \subseteq Stages /\ stagedD \subseteq Stages
    /\ published \in [Objects -> Stages \cup {None}]
    /\ publishedD \in [Objects -> Stages \cup {None}]
    /\ bytes \in [Stages -> Nat]
    /\ installed \in BOOLEAN
    /\ objects \subseteq Objects
    /\ orphans \subseteq [key : Names, size : Nat]
    /\ reservations \subseteq [id : Stages, size : Nat]
    /\ rows \subseteq Objects /\ cited \subseteq Objects
    /\ shared \subseteq Writers \cup Runs
    /\ lease \in Writers \cup {None}

\* A step of a writer keeps the types when its own fields and the store do.
LEMMA TypeTurn ==
    ASSUME TypeOK, acq' \in [Writers -> AcqType], StoreType', UNCHANGED <<finding, preview, admin>>
    PROVE  TypeOK'
BY DEF TypeOK, StoreType, AcqType

\* A step of the recovery keeps the types.
LEMMA TypeRecovery ==
    ASSUME IndInv, NEW w \in Writers, TakeLease(w) \/ Recovery(w)
    PROVE  TypeOK'
<1>1. TypeOK /\ StoreType BY DEF IndInv, TypeOK, StoreType
<1>2. acq' \in [Writers -> AcqType] BY <1>1, Turns DEF Recovery, Turn
<1>3. UNCHANGED <<finding, preview, admin>>
  BY DEF Recovery, TakeLease, Sync, Charge, DropAlias, SyncAlias, Recovered, Go
<1> USE DEF StoreType, disk, tables, charges, refs, Go
<1>4. CASE TakeLease(w) BY <1>1, <1>2, <1>3, <1>4, TypeTurn DEF TakeLease
<1>5. CASE Sync(w) BY <1>1, <1>2, <1>3, <1>5, TypeTurn DEF Sync
<1>6. CASE Charge(w)
  <2>1. Uncharged \subseteq [key : Names, size : Nat]
    BY <1>1 DEF Uncharged, UnregisteredFiles, Names
  <2> QED BY <1>1, <1>2, <1>3, <1>6, <2>1, TypeTurn DEF Charge
<1>7. CASE DropAlias(w) BY <1>1, <1>2, <1>3, <1>7, TypeTurn DEF DropAlias
<1>8. CASE SyncAlias(w) BY <1>1, <1>2, <1>3, <1>8, TypeTurn DEF SyncAlias
<1>9. CASE Recovered(w) BY <1>1, <1>2, <1>3, <1>9, TypeTurn DEF Recovered
<1> QED BY <1>4, <1>5, <1>6, <1>7, <1>8, <1>9 DEF Recovery

\* A step of put keeps the types.
LEMMA TypePut ==
    ASSUME IndInv, NEW w \in Writers, Put(w) \/ HasRoom(w)
    PROVE  TypeOK'
<1>1. TypeOK /\ StoreType BY DEF IndInv, TypeOK, StoreType
<1>2. acq' \in [Writers -> AcqType] BY <1>1, Turns DEF Put, Turn
<1>3. UNCHANGED <<finding, preview, admin>>
  BY DEF Put, HasRoom, AlreadyRegistered, AdoptExisting, Reserve, Stage, StageSync, Link, LinkSync, Register,
         Unlink, UnlinkSync, PutReturns, Go, Unlease
<1>4. acq[w].pc \in {"look", "stage", "stage_sync", "link", "link_sync", "register"}
        => acq[w].obj \in Objects /\ Size[acq[w].obj] \in Nat
  BY PutsBody
<1>5. acq[w].pc \in {"stage", "stage_sync", "link"} => acq[w].stage \in Stages
  BY DEF IndInv, Writing
<1>6. StoreType' => TypeOK' BY <1>1, <1>2, <1>3, TypeTurn
<1> USE DEF StoreType, disk, tables, charges, refs, Go
<1>7. CASE HasRoom(w) BY <1>1, <1>6, <1>7 DEF HasRoom, Unlease
<1>8. CASE AlreadyRegistered(w) BY <1>1, <1>6, <1>8 DEF AlreadyRegistered, Unlease
<1>9. CASE AdoptExisting(w) BY <1>1, <1>4, <1>6, <1>9 DEF AdoptExisting, Registers
<1>10. CASE Reserve(w)
  <2>1. acq[w].obj \in Objects /\ Size[acq[w].obj] \in Nat BY <1>4, <1>10 DEF Reserve
  <2>2. PICK s \in Stages : reservations' = reservations \cup {[id |-> s, size |-> Size[acq[w].obj]]}
    BY <1>10 DEF Reserve
  <2>3. reservations' \subseteq [id : Stages, size : Nat] BY <1>1, <2>1, <2>2
  <2> QED BY <1>1, <1>6, <1>10, <2>3 DEF Reserve
<1>11. CASE Stage(w) BY <1>1, <1>4, <1>5, <1>6, <1>11 DEF Stage
<1>12. CASE StageSync(w) BY <1>1, <1>4, <1>5, <1>6, <1>12 DEF StageSync
<1>13. CASE Link(w) BY <1>1, <1>5, <1>6, <1>13 DEF Link
<1>14. CASE LinkSync(w) BY <1>1, <1>6, <1>14 DEF LinkSync
<1>15. CASE Register(w) BY <1>1, <1>4, <1>6, <1>15 DEF Register, Registers
<1>16. CASE Unlink(w) BY <1>1, <1>6, <1>16 DEF Unlink
<1>17. CASE UnlinkSync(w) BY <1>1, <1>6, <1>17 DEF UnlinkSync
<1>18. CASE PutReturns(w) BY <1>1, <1>6, <1>18 DEF PutReturns, Unlease
<1> QED BY <1>7, <1>8, <1>9, <1>10, <1>11, <1>12, <1>13, <1>14, <1>15, <1>16, <1>17, <1>18 DEF Put

\* The other steps of an acquisition keep the types.
LEMMA TypeAcquisition ==
    ASSUME IndInv, NEW w \in Writers,
           \/ \E o \in Objects : BeginAcquisition(w, o)
           \/ BeginRecover(w) \/ EndRecover(w)
           \/ PublishRows(w) \/ Fail(w)
    PROVE  TypeOK'
<1> USE DEF IndInv, TypeOK, disk, tables, charges, refs, Steps, Goals, Idle
<1>1. CASE \E o \in Objects : BeginAcquisition(w, o) BY <1>1 DEF BeginAcquisition, Install, Enter
<1>2. CASE BeginRecover(w) BY <1>2 DEF BeginRecover, Enter
<1>3. CASE EndRecover(w) BY <1>3 DEF EndRecover, Leave
<1>4. CASE PublishRows(w) BY <1>4 DEF PublishRows, Leave
<1>5. CASE Fail(w) BY <1>5 DEF Fail, Leave
<1> QED BY <1>1, <1>2, <1>3, <1>4, <1>5

\* A step of a run, a preview, an apply or a power loss keeps the types.
LEMMA TypeAround ==
    ASSUME IndInv,
           \/ \E r \in Runs : (\E o \in Objects : ReadEvidence(r, o)) \/ SaveCitation(r) \/ LoseRun(r)
           \/ \E o \in Objects : DeleteThread(o)
           \/ Preview \/ Apply \/ ApplyBlocked \/ PowerLoss
    PROVE  TypeOK'
<1> USE DEF IndInv, TypeOK, disk, tables, charges, refs
<1>1. ASSUME NEW r \in Runs, NEW o \in Objects, ReadEvidence(r, o) PROVE TypeOK'
  BY <1>1 DEF ReadEvidence
<1>2. ASSUME NEW r \in Runs, SaveCitation(r) PROVE TypeOK'
  BY <1>2 DEF SaveCitation, EndRun
<1>3. ASSUME NEW r \in Runs, LoseRun(r) PROVE TypeOK'
  BY <1>3 DEF LoseRun, EndRun
<1>4. ASSUME NEW o \in Objects, DeleteThread(o) PROVE TypeOK'
  BY <1>4 DEF DeleteThread
<1>5. CASE Preview
  <2>1. Candidates \in SUBSET [key : Names, kind : Kinds]
    BY DEF Candidates, Names, Kinds
  <2> QED BY <1>5, <2>1 DEF Preview, Observed
<1>6. CASE Apply BY <1>6 DEF Apply, Begins, AdminSteps
<1>7. CASE ApplyBlocked BY <1>7 DEF ApplyBlocked
<1>8. CASE PowerLoss
  <2>1. staged' \subseteq Stages BY <1>8 DEF PowerLoss
  <2>2. published' \in [Objects -> Stages \cup {None}] BY <1>8 DEF PowerLoss
  <2> QED BY <1>8, <2>1, <2>2 DEF PowerLoss, Idle, Steps, Goals, AdminIdle, AdminSteps
<1> QED BY <1>1, <1>2, <1>3, <1>4, <1>5, <1>6, <1>7, <1>8

\* A step of the operator's apply keeps the types.
LEMMA TypeAdmin ==
    ASSUME IndInv, AdminStep
    PROVE  TypeOK'
<1> USE DEF IndInv, TypeOK, disk, tables, charges, refs, AdminGo, AdminSteps
<1>1. CASE ChargeCandidates
  <2>1. ASSUME NEW c \in admin.left, c.kind # "absent" PROVE c.key \in Names /\ FileSize(c.key) \in Nat
    <3>1. c.key \in Names /\ c.kind \in Kinds BY <1>1 DEF ChargeCandidates
    <3>2. \/ c.key \in objects
          \/ c.key \in staged
          \/ c.key \in Objects /\ published[c.key] # None
      BY <1>1, <2>1, <3>1 DEF ChargeCandidates, Cleaning, Kinds
    <3>3. c.key \in objects => published[c.key] \in Stages
      BY DEF Files, RegisteredReadable
    <3> QED BY <3>1, <3>2, <3>3 DEF FileSize, Names
  <2>2. orphans' \subseteq [key : Names, size : Nat] BY <1>1, <2>1 DEF ChargeCandidates
  <2> QED BY <1>1, <2>2 DEF ChargeCandidates
<1>2. CASE RemoveFile
  <2>1. PICK c \in admin.left :
             /\ staged' = staged \ {c.key}
             /\ published' = [o \in Objects |-> IF o = c.key THEN None ELSE published[o]]
             /\ admin' = [pc |-> "removed", left |-> admin.left \ {c}, cur |-> c.key]
    BY <1>2 DEF RemoveFile
  <2>2. c.key \in Names OBVIOUS
  <2>3. published' \in [Objects -> Stages \cup {None}] BY <2>1
  <2>4. admin' \in [pc : AdminSteps, left : SUBSET [key : Names, kind : Kinds], cur : Names \cup {None}]
    BY <2>1, <2>2
  <2> QED BY <1>2, <2>1, <2>3, <2>4 DEF RemoveFile
<1>3. CASE SyncRemoval BY <1>3 DEF SyncRemoval
<1>4. CASE ConfirmAbsent
  <2>1. PICK c \in admin.left : admin' = [pc |-> "settle", left |-> admin.left \ {c}, cur |-> c.key]
    BY <1>4 DEF ConfirmAbsent
  <2>2. c.key \in Names OBVIOUS
  <2> QED BY <1>4, <2>1, <2>2 DEF ConfirmAbsent
<1>5. CASE SettleCharge BY <1>5 DEF SettleCharge
<1>6. CASE CleanupComplete BY <1>6 DEF CleanupComplete, AdminIdle
<1>7. CASE SchemaSync BY <1>7 DEF SchemaSync
<1>8. CASE ResetSchema BY <1>8 DEF ResetSchema, AdminIdle, Names
<1>9. CASE UninstallSchema BY <1>9 DEF UninstallSchema, AdminIdle
<1>10. CASE AdminFails BY <1>10 DEF AdminFails, AdminIdle
<1> QED BY <1>1, <1>2, <1>3, <1>4, <1>5, <1>6, <1>7, <1>8, <1>9, <1>10 DEF AdminStep, Cleanup

-----------------------------------------------------------------------------
(* What the steps do to the files and to the charges.                        *)

\* A step that leaves the directory and the tables alone leaves their invariants.
LEMMA StillFiles ==
    ASSUME UNCHANGED <<disk, charges>>
    PROVE  /\ Files => Files'
           /\ FilesCharged => FilesCharged'
           /\ FilesCovered => FilesCovered'
<1> USE DEF disk, tables, charges
<1>1. \A o, s : EntryOf(o, s)' <=> EntryOf(o, s) BY DEF EntryOf
<1>2. \A s : HasCharge(s)' <=> HasCharge(s) BY <1>1 DEF HasCharge
<1>3. \A s : Visible(s)' <=> Visible(s) BY DEF Visible, Inodes
<1>4. \A s : OnDisk(s)' <=> OnDisk(s) BY <1>1 DEF OnDisk
<1>5. Files => Files' BY <1>1, <1>3 DEF Files, OneName, NoGhost, StageKeys, RegisteredReadable
<1> QED BY <1>2, <1>3, <1>4, <1>5 DEF FilesCharged, FilesCovered

\* Removing or syncing names of staging/ alone takes no charge away.
LEMMA StagedShrinks ==
    ASSUME IndInv, TypeOK', UNCHANGED <<published, publishedD, bytes, charges>>,
           staged' \subseteq staged, stagedD' \subseteq staged \cup stagedD
    PROVE  /\ Files'
           /\ FilesCharged => FilesCharged'
           /\ FilesCovered => FilesCovered'
<1>0. TypeOK /\ Files BY DEF IndInv
<1> USE DEF tables, charges
<1>1. \A o, s : EntryOf(o, s)' <=> EntryOf(o, s) BY DEF EntryOf
<1>2. \A s : HasCharge(s)' <=> HasCharge(s) BY <1>1 DEF HasCharge
<1>3. \A s : Visible(s)' => Visible(s) BY DEF Visible, Inodes
<1>4. \A s : OnDisk(s)' => OnDisk(s) BY <1>1 DEF OnDisk
<1>5. Files' BY <1>0, <1>1, <1>3 DEF Files, OneName, NoGhost, StageKeys, RegisteredReadable
<1> QED BY <1>2, <1>3, <1>4, <1>5 DEF FilesCharged, FilesCovered

\* The sync of a parent directory: what can be seen keeps its charge, for a name
\* that is forgotten by it was of a file that nothing else shows.
LEMMA NamesSynced ==
    ASSUME IndInv, UNCHANGED <<staged, published, bytes, charges>>,
           publishedD' \in {published, publishedD}
    PROVE  /\ Files'
           /\ FilesCovered => FilesCovered'
<1>0. TypeOK /\ Files BY DEF IndInv
<1> USE DEF tables, charges
<1>1. \A o \in Objects, s \in Stages : EntryOf(o, s)' => EntryOf(o, s) BY DEF EntryOf
<1>2. \A s : Visible(s)' <=> Visible(s) BY DEF Visible, Inodes
<1>3. ASSUME NEW o \in Objects, NEW s \in Stages, EntryOf(o, s), Visible(s) PROVE EntryOf(o, s)'
  <2>1. published[o] = s BY <1>0, <1>3 DEF EntryOf, Files, NoGhost
  <2> QED BY <2>1 DEF EntryOf
<1>4. ASSUME NEW s \in Stages, Visible(s), HasCharge(s) PROVE HasCharge(s)'
  <2>1. CASE \E o \in objects : EntryOf(o, s) /\ Size[o] >= bytes[s]
    <3>1. objects \subseteq Objects BY <1>0 DEF TypeOK
    <3> QED BY <1>3, <1>4, <2>1, <3>1 DEF HasCharge
  <2>2. CASE \E r \in orphans : /\ r.size >= bytes[s]
                                /\ r.key = s \/ (r.key \in Objects /\ EntryOf(r.key, s))
    BY <1>3, <1>4, <2>2 DEF HasCharge
  <2>3. CASE \E r \in reservations : r.id = s /\ r.size >= bytes[s]
    BY <2>3 DEF HasCharge
  <2> QED BY <1>4, <2>1, <2>2, <2>3 DEF HasCharge
<1>5. NoGhost'
  BY <1>0, <1>2 DEF NoGhost, Files
<1>6. RegisteredReadable' BY <1>0 DEF Files, RegisteredReadable
<1>7. StageKeys' BY <1>0, <1>1 DEF Files, StageKeys
<1>8. OneName' BY <1>0, <1>1 DEF Files, OneName
<1> QED BY <1>2, <1>4, <1>5, <1>6, <1>7, <1>8 DEF Files, FilesCovered

\* The accounting of a recovery: with a durable namespace every inode is charged
\* by the row of its body or by the charge just written.
LEMMA RecoveryCharges ==
    ASSUME IndInv, NEW w \in Writers, Charge(w)
    PROVE  Files' /\ FilesCharged'
<1>0. TypeOK /\ Files BY DEF IndInv
<1>1. publishedD = published /\ stagedD = staged
  BY DEF IndInv, Charge, Writing, Durable, InLease, Steps
<1>2. /\ UNCHANGED <<staged, stagedD, published, publishedD, bytes, objects>>
      /\ orphans' = Uncharged
  BY DEF Charge, disk
<1>3. \A o, s : EntryOf(o, s)' <=> published[o] = s BY <1>1, <1>2 DEF EntryOf
<1>4. ASSUME NEW s \in Stages, OnDisk(s)' PROVE HasCharge(s)'
  <2>1. s \in staged \/ \E o \in Objects : published[o] = s BY <1>1, <1>2, <1>3, <1>4 DEF OnDisk
  <2>2. bytes[s] \in Nat BY <1>0 DEF TypeOK
  <2>3. ASSUME NEW o \in objects, published[o] = s PROVE HasCharge(s)'
    <3>1. Size[o] = bytes[s] BY <1>0, <2>3 DEF Files, RegisteredReadable
    <3> QED BY <1>2, <1>3, <2>2, <2>3, <3>1 DEF HasCharge
  <2>4. ASSUME NEW o \in Objects, published[o] = s, s \notin {published[p] : p \in objects} PROVE HasCharge(s)'
    <3>1. s # None BY DEF TypeOK
    <3>2. o \in UnregisteredFiles BY <2>4, <3>1 DEF UnregisteredFiles
    <3>3. [key |-> o, size |-> bytes[s]] \in orphans' BY <1>2, <2>4, <3>2 DEF Uncharged
    <3> QED BY <1>2, <1>3, <2>2, <2>4, <3>3 DEF HasCharge
  <2>5. ASSUME s \in staged \ Inodes PROVE HasCharge(s)'
    <3>1. [key |-> s, size |-> bytes[s]] \in orphans' BY <1>2, <2>5 DEF Uncharged
    <3> QED BY <1>2, <2>2, <3>1 DEF HasCharge
  <2> QED BY <2>1, <2>3, <2>4, <2>5 DEF Inodes
<1>5. StageKeys'
  <2>1. SUFFICES ASSUME NEW r \in orphans', r.key \in Stages, NEW o \in Objects, published[o] = r.key PROVE FALSE
    BY <1>3 DEF StageKeys
  <2>2. r.key \in staged \ Inodes BY <1>2, <2>1 DEF Uncharged, UnregisteredFiles
  <2> QED BY <2>1, <2>2 DEF Inodes
<1>6. OneName' BY <1>0, <1>2 DEF Files, OneName, EntryOf
<1>7. NoGhost' BY <1>1, <1>2 DEF NoGhost
<1>8. RegisteredReadable' BY <1>0, <1>2 DEF Files, RegisteredReadable
<1> QED BY <1>4, <1>5, <1>6, <1>7, <1>8 DEF Files, FilesCharged

\* The transaction that registers a body whose whole file is there: the rows it
\* drops covered that file alone, and the new row covers it.
LEMMA RegisteringKeepsCharges ==
    ASSUME IndInv, TypeOK', UNCHANGED disk, NEW o \in Objects, NEW gone \in SUBSET Stages,
           publishedD = published, published[o] \in Stages, bytes[published[o]] = Size[o],
           gone \subseteq {published[o]}, Registers(o, gone)
    PROVE  /\ Files'
           /\ FilesCharged => FilesCharged'
           /\ FilesCovered => FilesCovered'
<1>0. TypeOK /\ Files BY DEF IndInv
<1> USE DEF disk
<1>1. \A p, s : EntryOf(p, s)' <=> EntryOf(p, s) BY DEF EntryOf
<1>2. \A s : Visible(s)' <=> Visible(s) BY DEF Visible, Inodes
<1>3. \A s : OnDisk(s)' <=> OnDisk(s) BY <1>1 DEF OnDisk
<1>4. /\ objects' = objects \cup {o}
      /\ orphans' = {r \in orphans : r.key # o}
      /\ reservations' = {r \in reservations : r.id \notin gone}
  BY DEF Registers
<1>5. ASSUME NEW s \in Stages, HasCharge(s) PROVE HasCharge(s)'
  <2>1. CASE s = published[o]
    <3>1. Size[o] >= bytes[s] BY <1>0, <2>1 DEF TypeOK
    <3> QED BY <1>1, <1>4, <2>1, <3>1 DEF HasCharge, EntryOf
  <2>2. CASE s # published[o]
    <3>1. CASE \E p \in objects : EntryOf(p, s) /\ Size[p] >= bytes[s]
      BY <1>1, <1>4, <3>1 DEF HasCharge
    <3>2. CASE \E r \in orphans : /\ r.size >= bytes[s]
                                  /\ r.key = s \/ (r.key \in Objects /\ EntryOf(r.key, s))
      <4>1. PICK r \in orphans : /\ r.size >= bytes[s]
                                 /\ r.key = s \/ (r.key \in Objects /\ EntryOf(r.key, s))
        BY <3>2
      <4>2. r.key # o BY <2>2, <4>1 DEF EntryOf
      <4> QED BY <1>1, <1>4, <4>1, <4>2 DEF HasCharge
    <3>3. CASE \E r \in reservations : r.id = s /\ r.size >= bytes[s]
      BY <1>4, <2>2, <3>3 DEF HasCharge
    <3> QED BY <1>5, <3>1, <3>2, <3>3 DEF HasCharge
  <2> QED BY <2>1, <2>2
<1>6. OneName' /\ NoGhost' /\ StageKeys'
  BY <1>0, <1>1, <1>2, <1>4 DEF Files, OneName, NoGhost, StageKeys
<1>7. RegisteredReadable' BY <1>0, <1>4 DEF Files, RegisteredReadable
<1> QED BY <1>2, <1>3, <1>5, <1>6, <1>7 DEF Files, FilesCharged, FilesCovered

\* A file is written under a name nothing refers to, with room reserved for it.
LEMMA StagingKeepsCharges ==
    ASSUME IndInv, TypeOK', UNCHANGED <<published, publishedD, charges>>,
           NEW s \in Stages, NEW r \in reservations, r.id = s,
           \A o \in Objects : ~EntryOf(o, s),
           staged' \subseteq staged \cup {s}, stagedD' \subseteq stagedD \cup staged \cup {s},
           \A t \in Stages \ {s} : bytes'[t] = bytes[t], bytes'[s] <= r.size,
           publishedD = published
    PROVE  /\ Files'
           /\ FilesCharged => FilesCharged'
           /\ FilesCovered => FilesCovered'
<1>0. TypeOK /\ Files BY DEF IndInv
<1> USE DEF tables, charges
<1>1. \A o, t : EntryOf(o, t)' <=> EntryOf(o, t) BY DEF EntryOf
<1>2. \A t \in Stages \ {s} : (Visible(t)' => Visible(t)) /\ (OnDisk(t)' => OnDisk(t))
  BY <1>1 DEF Visible, OnDisk, Inodes
<1>3. HasCharge(s)'
  <2>1. r.size \in Nat /\ bytes'[s] \in Nat BY <1>0 DEF TypeOK
  <2> QED BY <2>1 DEF HasCharge
<1>4. ASSUME NEW t \in Stages \ {s}, HasCharge(t) PROVE HasCharge(t)'
  BY <1>1, <1>4 DEF HasCharge
<1>5. OneName' /\ NoGhost' /\ StageKeys'
  BY <1>0, <1>1 DEF Files, OneName, NoGhost, StageKeys
<1>6. RegisteredReadable'
  <2>1. SUFFICES ASSUME NEW o \in objects
                 PROVE  published[o] # None /\ publishedD[o] = published[o] /\ bytes'[published[o]] = Size[o]
    BY DEF RegisteredReadable
  <2>2. o \in Objects /\ published[o] \in Stages BY <1>0 DEF TypeOK, Files, RegisteredReadable
  <2>3. published[o] # s BY <2>2 DEF EntryOf
  <2> QED BY <1>0, <2>2, <2>3 DEF Files, RegisteredReadable
<1> QED BY <1>2, <1>3, <1>4, <1>5, <1>6 DEF Files, FilesCharged, FilesCovered

\* The staged file gets the name of its body, which had none.
LEMMA LinkingKeepsCharges ==
    ASSUME IndInv, TypeOK', UNCHANGED <<staged, stagedD, publishedD, bytes, charges>>,
           NEW o \in Objects \ objects, NEW s \in Stages, NEW r \in reservations,
           r.id = s, r.size >= bytes[s],
           publishedD = published, published[o] = None,
           \A p \in Objects : ~EntryOf(p, s), \A c \in orphans : c.key # s,
           published' = [published EXCEPT ![o] = s]
    PROVE  /\ Files'
           /\ FilesCharged => FilesCharged'
           /\ FilesCovered => FilesCovered'
<1>0. TypeOK /\ Files BY DEF IndInv
<1> USE DEF tables, charges
<1>1. published'[o] = s /\ \A p \in Objects \ {o} : published'[p] = published[p] BY <1>0 DEF TypeOK
<1>2. \A p \in Objects, t \in Stages : EntryOf(p, t)' <=> EntryOf(p, t) \/ (p = o /\ t = s)
  BY <1>1 DEF EntryOf
<1>3. \A t \in Stages \ {s} : (Visible(t)' => Visible(t)) /\ (OnDisk(t)' => OnDisk(t))
  <2>1. \A t \in Stages \ {s} : Visible(t)' => Visible(t)
    BY <1>0, <1>1, VisibleFile, VisibleFileNext
  <2> QED BY <1>2, <2>1 DEF OnDisk
<1>4. HasCharge(s)' BY DEF HasCharge
<1>5. ASSUME NEW t \in Stages \ {s}, HasCharge(t) PROVE HasCharge(t)'
  <2>1. objects \subseteq Objects BY <1>0 DEF TypeOK
  <2>2. \A p \in Objects : EntryOf(p, t) => EntryOf(p, t)' BY <1>2
  <2> QED BY <1>5, <2>1, <2>2 DEF HasCharge
<1>6. OneName' BY <1>0, <1>2 DEF Files, OneName, EntryOf
<1>7. NoGhost' BY <1>1 DEF NoGhost
<1>8. StageKeys' BY <1>0, <1>2 DEF Files, StageKeys
<1>9. RegisteredReadable' BY <1>0, <1>1 DEF TypeOK, Files, RegisteredReadable
<1> QED BY <1>3, <1>4, <1>5, <1>6, <1>7, <1>8, <1>9 DEF Files, FilesCharged, FilesCovered

\* The new name becomes durable: every inode has the names it had.
LEMMA LinkSyncedKeepsCharges ==
    ASSUME IndInv, UNCHANGED <<staged, stagedD, published, bytes, charges>>,
           NEW o \in Objects, published[o] \in Stages,
           publishedD = [published EXCEPT ![o] = None], publishedD' = published
    PROVE  /\ Files'
           /\ FilesCharged => FilesCharged'
           /\ FilesCovered => FilesCovered'
<1>0. TypeOK /\ Files BY DEF IndInv
<1> USE DEF tables, charges
<1>1. \A p \in Objects, t \in Stages : EntryOf(p, t)' <=> EntryOf(p, t)
  BY <1>0 DEF EntryOf, TypeOK
<1>2. \A t \in Stages : OnDisk(t)' <=> OnDisk(t) BY <1>1 DEF OnDisk
<1>3. \A t \in Stages : HasCharge(t) => HasCharge(t)'
  <2>1. objects \subseteq Objects BY <1>0 DEF TypeOK
  <2> QED BY <1>1, <2>1 DEF HasCharge
<1>4. Files' /\ (FilesCovered => FilesCovered') BY NamesSynced
<1> QED BY <1>2, <1>3, <1>4 DEF FilesCharged

-----------------------------------------------------------------------------
(* The steps under the lease.                                                *)

\* An effect of the holder of the lease on the directory and the tables keeps
\* the invariant when its own part of it is kept.
LEMMA TurnKeepsInv ==
    ASSUME IndInv, NEW w \in Writers, acq[w].pc \in InLease,
           NEW pc, NEW then, NEW stage, Turn(w, pc, then, stage),
           UNCHANGED <<shared, lease, finding, preview, admin, rows, cited>>,
           objects \subseteq objects',
           TypeOK', Files', Writing(w)', pc \in Charging => FilesCharged'
    PROVE  IndInv'
<1>1. acq[w].pc # "idle" /\ lease = w BY DEF IndInv, Locks, InLease
<1>2. admin.pc = "idle" /\ admin' = admin BY <1>1, WriterExcludes DEF Exclusive
<1>3. \A v \in Writers \ {w} : acq'[v] = acq[v] /\ acq[v].pc \notin InLease
  BY <1>1 DEF Turn, IndInv, Locks
<1>4. acq'[w].pc = pc BY DEF Turn
<1>5. Locks' BY <1>1, <1>2, <1>3 DEF IndInv, Locks, Exclusive
<1>6. Refs'
  <2>1. CitedResolve' BY DEF IndInv, Refs, CitedResolve
  <2> QED BY <2>1 DEF IndInv, Refs
<1>7. ASSUME NEW v \in Writers \ {w} PROVE Writing(v)'
  BY <1>3 DEF Writing, IndInv, InLease, Durable, Steps, Goals
<1>8. Cleaning' BY <1>2 DEF Cleaning, Exclusive
<1>9. ChargedUnderLease'
  <2>1. SUFFICES ASSUME NEW v \in Writers, acq'[v].pc \in Charging PROVE FilesCharged'
    BY DEF ChargedUnderLease, FilesCharged
  <2>2. acq'[v].pc \in InLease BY <2>1 DEF Charging, InLease, Steps, Goals
  <2> QED BY <1>3, <1>4, <2>1, <2>2
<1> QED BY <1>5, <1>6, <1>7, <1>8, <1>9 DEF IndInv

\* The recovery's steps under the lease.
LEMMA RecoveryKeepsInv ==
    ASSUME IndInv, NEW w \in Writers, Sync(w) \/ Charge(w) \/ DropAlias(w) \/ SyncAlias(w)
    PROVE  IndInv' /\ (FilesCovered => FilesCovered')
<1>0. TypeOK /\ Writing(w) BY DEF IndInv
<1>1. TypeOK' BY TypeRecovery DEF Recovery
<1>2. UNCHANGED <<shared, lease, finding, preview, admin, rows, cited, objects>>
  BY DEF Sync, Charge, DropAlias, SyncAlias, Go, disk, tables, charges, refs
<1>3. acq[w].pc \in InLease
  BY DEF Sync, Charge, DropAlias, SyncAlias, InLease, Steps
<1>4. CASE Sync(w)
  <2>1. Turn(w, "charge", acq[w].then, acq[w].stage) BY <1>0, <1>4, Turns
  <2>2. Files' /\ (FilesCovered => FilesCovered')
    BY <1>4, NamesSynced DEF Sync, tables, charges
  <2>3. Writing(w)' BY <1>0, <1>4, <2>1 DEF Sync, Writing, Turn
  <2> QED BY <1>1, <1>2, <1>3, <2>1, <2>2, <2>3, TurnKeepsInv DEF Charging, Goals
<1>5. CASE Charge(w)
  <2>1. Turn(w, "alias", acq[w].then, acq[w].stage) BY <1>0, <1>5, Turns
  <2>2. Files' /\ FilesCharged' BY <1>5, RecoveryCharges
  <2>3. Writing(w)'
    BY <1>0, <1>5, <2>1 DEF Charge, Writing, Turn, disk, Durable, InLease, Steps
  <2> QED BY <1>1, <1>2, <1>3, <2>1, <2>2, <2>3, TurnKeepsInv, ChargedCoversNext
<1>6. CASE DropAlias(w)
  <2>1. Turn(w, "alias_sync", acq[w].then, acq[w].stage) BY <1>0, <1>6, Turns
  <2>2. FilesCharged BY <1>6, ChargedInside DEF DropAlias, Charging
  <2>3. Files' /\ FilesCharged' BY <1>1, <1>6, <2>2, StagedShrinks DEF DropAlias, tables, charges
  <2>4. Writing(w)' BY <1>0, <1>6, <2>1 DEF DropAlias, Writing, Turn, Durable, InLease, Steps
  <2> QED BY <1>1, <1>2, <1>3, <2>1, <2>3, <2>4, TurnKeepsInv, ChargedCoversNext
<1>7. CASE SyncAlias(w)
  <2>1. Turn(w, "alias", acq[w].then, acq[w].stage) BY <1>0, <1>7, Turns
  <2>2. FilesCharged BY <1>7, ChargedInside DEF SyncAlias, Charging
  <2>3. Files' /\ FilesCharged' BY <1>1, <1>7, <2>2, StagedShrinks DEF SyncAlias, tables, charges
  <2>4. Writing(w)' BY <1>0, <1>7, <2>1 DEF SyncAlias, Writing, Turn, Durable, InLease, Steps
  <2> QED BY <1>1, <1>2, <1>3, <2>1, <2>3, <2>4, TurnKeepsInv, ChargedCoversNext
<1> QED BY <1>4, <1>5, <1>6, <1>7

\* The steps of put that decide on the body: it is adopted, or room is reserved.
LEMMA DecidingKeepsInv ==
    ASSUME IndInv, NEW w \in Writers, AdoptExisting(w) \/ Reserve(w)
    PROVE  IndInv' /\ (FilesCovered => FilesCovered')
<1> DEFINE o == acq[w].obj
<1>0. TypeOK /\ Writing(w) BY DEF IndInv
<1>1. TypeOK' BY TypePut DEF Put
<1>2. UNCHANGED <<shared, lease, finding, preview, admin, rows, cited, disk>>
  BY DEF AdoptExisting, Reserve, refs
<1>3. acq[w].pc = "look" BY DEF AdoptExisting, Reserve
<1>4. acq[w].pc \in InLease /\ acq[w].pc \in Durable /\ acq[w].pc \in Charging
  BY <1>3 DEF InLease, Durable, Charging, Steps, Goals
<1>5. o \in Objects BY <1>3, PutsBody
<1>6. publishedD = published /\ FilesCharged BY <1>0, <1>4, ChargedInside DEF Writing
<1>7. CASE AdoptExisting(w)
  <2>1. Turn(w, "sync", "done", acq[w].stage) BY <1>0, <1>7, Turns
  <2>2. published[o] \in Stages BY <1>0, <1>5, <1>7 DEF AdoptExisting, TypeOK
  <2>3. Files' /\ (FilesCovered => FilesCovered')
    BY <1>1, <1>2, <1>5, <1>6, <1>7, <2>2, RegisteringKeepsCharges DEF AdoptExisting
  <2>4. Writing(w)' BY <1>5, <2>1 DEF Writing, Turn, Durable, InLease, Steps
  <2>5. objects \subseteq objects' BY <1>7 DEF AdoptExisting, Registers
  <2> QED BY <1>1, <1>2, <1>4, <2>1, <2>3, <2>4, <2>5, TurnKeepsInv DEF Charging, Goals
<1>8. CASE Reserve(w)
  <2>1. PICK s \in Stages : /\ Fresh(s)
                            /\ reservations' = reservations \cup {[id |-> s, size |-> Size[o]]}
                            /\ acq' = [acq EXCEPT ![w].pc = "stage", ![w].stage = s]
    BY <1>8 DEF Reserve
  <2>2. Turn(w, "stage", acq[w].then, s) BY <1>0, <2>1, MovesUnder DEF Steps
  <2>3. UNCHANGED <<staged, stagedD, published, publishedD, bytes, objects, orphans>>
    BY <1>8 DEF Reserve, disk
  <2>4. \A p, t : EntryOf(p, t)' <=> EntryOf(p, t) BY <2>3 DEF EntryOf
  <2>5. \A t : (Visible(t)' <=> Visible(t)) /\ (OnDisk(t)' <=> OnDisk(t))
    BY <2>3, <2>4 DEF Visible, OnDisk, Inodes
  <2>6. \A t : HasCharge(t) => HasCharge(t)' BY <2>1, <2>3, <2>4 DEF HasCharge
  <2>7. FilesCharged' BY <1>6, <2>5, <2>6 DEF FilesCharged
  <2>8. Files'
    BY <2>3, <2>4, <2>5 DEF IndInv, Files, OneName, NoGhost, StageKeys, RegisteredReadable
  <2>9. Writing(w)'
    <3>1. [id |-> s, size |-> Size[o]] \in reservations' BY <2>1
    <3>2. published[o] = None /\ o \notin objects BY <1>8 DEF Reserve
    <3>3. \A p \in Objects : ~EntryOf(p, s) BY <2>1 DEF Fresh, EntryOf
    <3>4. \A r \in orphans : r.key # s BY <2>1 DEF Fresh
    <3> QED BY <1>5, <1>6, <2>2, <2>3, <2>4, <3>1, <3>2, <3>3, <3>4 DEF Writing, Turn, Reserved
  <2> QED BY <1>1, <1>2, <1>4, <2>2, <2>3, <2>7, <2>8, <2>9, TurnKeepsInv, ChargedCoversNext
<1> QED BY <1>7, <1>8

\* The steps of put that write the file and name it.
LEMMA WritingKeepsInv ==
    ASSUME IndInv, NEW w \in Writers, Stage(w) \/ StageSync(w) \/ Link(w) \/ LinkSync(w)
    PROVE  IndInv' /\ FilesCharged'
<1> DEFINE o == acq[w].obj
           s == acq[w].stage
           r == [id |-> s, size |-> Size[o]]
<1>0. TypeOK /\ Writing(w) BY DEF IndInv
<1>1. TypeOK' BY TypePut DEF Put
<1>2. UNCHANGED <<shared, lease, finding, preview, admin, rows, cited, objects, orphans, reservations>>
  BY DEF Stage, StageSync, Link, LinkSync, Go, refs, tables, charges
<1>3. acq[w].pc \in {"stage", "stage_sync", "link", "link_sync"}
  BY DEF Stage, StageSync, Link, LinkSync
<1>4. acq[w].pc \in InLease /\ acq[w].pc \in Charging
  BY <1>3 DEF InLease, Charging, Steps, Goals
<1>5. /\ o \in Objects /\ Size[o] \in Nat
      /\ s \in Stages /\ o \notin objects /\ r \in reservations
  BY <1>0, <1>3, PutsBody DEF Writing, Reserved
<1>6. FilesCharged BY <1>4, ChargedInside
<1>7. CASE Stage(w)
  <2>1. Turn(w, "stage_sync", acq[w].then, s) BY <1>0, <1>7, Turns
  <2>2. publishedD = published BY <1>0, <1>7 DEF Writing, Stage, Durable, InLease, Steps
  <2>3. /\ \A p \in Objects : ~EntryOf(p, s)
        /\ published[o] = None /\ \A c \in orphans : c.key # s
    BY <1>0, <1>7 DEF Writing, Stage
  <2>4. UNCHANGED <<stagedD, published, publishedD>> /\ staged' = staged \cup {s} BY <1>7 DEF Stage
  <2>5. PICK n \in 0 .. Size[o] : bytes' = [bytes EXCEPT ![s] = n] BY <1>7 DEF Stage
  <2>6. bytes'[s] <= Size[o] /\ \A t \in Stages \ {s} : bytes'[t] = bytes[t]
    BY <1>0, <1>5, <2>5 DEF TypeOK
  <2>7. Files' /\ FilesCharged'
    BY <1>1, <1>2, <1>5, <1>6, <2>2, <2>3, <2>4, <2>6, StagingKeepsCharges DEF tables, charges
  <2>8. Writing(w)'
    BY <1>0, <1>2, <1>5, <2>1, <2>2, <2>3, <2>4 DEF Writing, Turn, EntryOf, Reserved
  <2> QED BY <1>1, <1>2, <1>4, <2>1, <2>7, <2>8, TurnKeepsInv
<1>8. CASE StageSync(w)
  <2>1. Turn(w, "link", acq[w].then, s) BY <1>0, <1>8, Turns
  <2>2. publishedD = published BY <1>0, <1>8 DEF Writing, StageSync, Durable, InLease, Steps
  <2>3. /\ \A p \in Objects : ~EntryOf(p, s)
        /\ published[o] = None /\ \A c \in orphans : c.key # s
    BY <1>0, <1>8 DEF Writing, StageSync
  <2>4. UNCHANGED <<staged, published, publishedD>> /\ stagedD' = staged BY <1>8 DEF StageSync
  <2>5. bytes' = [bytes EXCEPT ![s] = Size[o]] BY <1>8 DEF StageSync
  <2>6. bytes'[s] = Size[o] /\ \A t \in Stages \ {s} : bytes'[t] = bytes[t]
    BY <1>0, <1>5, <2>5 DEF TypeOK
  <2>7. bytes'[s] <= Size[o] BY <1>5, <2>6
  <2>8. Files' /\ FilesCharged'
    BY <1>1, <1>2, <1>5, <1>6, <2>2, <2>3, <2>4, <2>6, <2>7, StagingKeepsCharges DEF tables, charges
  <2>9. Writing(w)'
    BY <1>0, <1>2, <1>5, <2>1, <2>2, <2>3, <2>4, <2>6 DEF Writing, Turn, EntryOf, Reserved
  <2> QED BY <1>1, <1>2, <1>4, <2>1, <2>8, <2>9, TurnKeepsInv
<1>9. CASE Link(w)
  <2>1. Turn(w, "link_sync", acq[w].then, s) BY <1>0, <1>9, Turns
  <2>2. publishedD = published BY <1>0, <1>9 DEF Writing, Link, Durable, InLease, Steps
  <2>3. /\ \A p \in Objects : ~EntryOf(p, s)
        /\ published[o] = None /\ \A c \in orphans : c.key # s
        /\ bytes[s] = Size[o]
    BY <1>0, <1>9 DEF Writing, Link
  <2>4. UNCHANGED <<staged, stagedD, publishedD, bytes>> /\ published' = [published EXCEPT ![o] = s]
    BY <1>9 DEF Link
  <2>5. r.size >= bytes[s] BY <1>5, <2>3
  <2>6. Files' /\ FilesCharged'
    BY <1>1, <1>2, <1>5, <1>6, <2>2, <2>3, <2>4, <2>5, LinkingKeepsCharges DEF tables, charges
  <2>7. published'[o] = s /\ publishedD' = [published' EXCEPT ![o] = None]
    BY <1>0, <1>5, <2>2, <2>3, <2>4 DEF TypeOK
  <2>8. Writing(w)'
    BY <1>0, <1>2, <1>5, <2>1, <2>3, <2>4, <2>7 DEF Writing, Turn, Reserved, Durable
  <2> QED BY <1>1, <1>2, <1>4, <2>1, <2>6, <2>8, TurnKeepsInv
<1>10. CASE LinkSync(w)
  <2>1. Turn(w, "register", acq[w].then, s) BY <1>0, <1>10, Turns
  <2>2. /\ publishedD = [published EXCEPT ![o] = None]
        /\ published[o] = s /\ bytes[s] = Size[o]
    BY <1>0, <1>10 DEF Writing, LinkSync
  <2>3. UNCHANGED <<staged, stagedD, published, bytes>> /\ publishedD' = published
    BY <1>10 DEF LinkSync
  <2>4. Files' /\ FilesCharged'
    BY <1>2, <1>5, <1>6, <2>2, <2>3, LinkSyncedKeepsCharges DEF tables, charges
  <2>5. Writing(w)'
    BY <1>0, <1>2, <1>5, <2>1, <2>2, <2>3 DEF Writing, Turn, Reserved
  <2> QED BY <1>1, <1>2, <1>4, <2>1, <2>4, <2>5, TurnKeepsInv
<1> QED BY <1>7, <1>8, <1>9, <1>10

\* The steps of put that register the body and drop its staging name.
LEMMA RegisteringKeepsInv ==
    ASSUME IndInv, NEW w \in Writers, Register(w) \/ Unlink(w) \/ UnlinkSync(w)
    PROVE  IndInv' /\ FilesCharged'
<1> DEFINE o == acq[w].obj
           s == acq[w].stage
<1>0. TypeOK /\ Writing(w) BY DEF IndInv
<1>1. TypeOK' BY TypePut DEF Put
<1>2. UNCHANGED <<shared, lease, finding, preview, admin, rows, cited>>
  BY DEF Register, Unlink, UnlinkSync, Go, refs
<1>3. acq[w].pc \in {"register", "unlink", "unlink_sync"}
  BY DEF Register, Unlink, UnlinkSync
<1>4. acq[w].pc \in InLease /\ acq[w].pc \in Charging
  BY <1>3 DEF InLease, Charging, Steps, Goals
<1>5. o \in Objects BY <1>3, PutsBody
<1>6. FilesCharged BY <1>4, ChargedInside
<1>7. publishedD = published BY <1>0, <1>3 DEF Writing, Durable, InLease, Steps
<1>8. CASE Register(w)
  <2>1. Turn(w, "unlink", acq[w].then, s) BY <1>0, <1>8, Turns
  <2>2. s \in Stages /\ published[o] = s /\ bytes[s] = Size[o] BY <1>0, <1>8 DEF Writing, Register
  <2>3. UNCHANGED disk /\ Registers(o, {s}) BY <1>8 DEF Register
  <2>4. Files' /\ FilesCharged'
    BY <1>1, <1>5, <1>6, <1>7, <2>2, <2>3, RegisteringKeepsCharges
  <2>5. Writing(w)' BY <1>5, <1>7, <2>1, <2>3 DEF Writing, Turn, disk
  <2>6. objects \subseteq objects' BY <2>3 DEF Registers
  <2> QED BY <1>1, <1>2, <1>4, <2>1, <2>4, <2>5, <2>6, TurnKeepsInv
<1>9. CASE Unlink(w)
  <2>1. Turn(w, "unlink_sync", acq[w].then, s) BY <1>0, <1>9, Turns
  <2>2. UNCHANGED <<stagedD, published, publishedD, bytes, charges>> /\ staged' \subseteq staged
    BY <1>9 DEF Unlink, tables, charges
  <2>3. Files' /\ FilesCharged' BY <1>1, <1>6, <2>2, StagedShrinks
  <2>4. Writing(w)' BY <1>5, <1>7, <2>1, <2>2 DEF Writing, Turn
  <2>5. objects' = objects BY <2>2 DEF tables, charges
  <2> QED BY <1>1, <1>2, <1>4, <2>1, <2>3, <2>4, <2>5, TurnKeepsInv
<1>10. CASE UnlinkSync(w)
  <2>1. Turn(w, "sync", "done", s) BY <1>0, <1>10, Turns
  <2>2. UNCHANGED <<staged, published, publishedD, bytes, charges>> /\ stagedD' = staged
    BY <1>10 DEF UnlinkSync, tables, charges
  <2>3. Files' /\ FilesCharged' BY <1>1, <1>6, <2>2, StagedShrinks
  <2>4. Writing(w)' BY <1>5, <1>7, <2>1, <2>2 DEF Writing, Turn, Durable
  <2>5. objects' = objects BY <2>2 DEF tables, charges
  <2> QED BY <1>1, <1>2, <1>4, <2>1, <2>3, <2>4, <2>5, TurnKeepsInv
<1> QED BY <1>8, <1>9, <1>10

-----------------------------------------------------------------------------
(* The steps that move processes and locks only.                             *)

\* A writer that enters, takes or gives back the lease, goes on or leaves.
LEMMA MoveKeepsInv ==
    ASSUME IndInv, NEW w \in Writers, ~Exclusive, TypeOK',
           UNCHANGED <<disk, charges, cited, finding, admin>>,
           \A v \in Writers \ {w} : /\ acq'[v] = acq[v]
                                    /\ acq[v].pc \in InLease => lease' = v,
           shared \ {w} \subseteq shared',
           acq'[w].pc # "idle" => w \in shared',
           acq'[w].pc \in InLease => lease' = w,
           acq'[w].pc \in Charging => acq[w].pc \in Charging,
           rows \subseteq rows', rows' \subseteq objects,
           Writing(w)'
    PROVE  IndInv'
<1>1. admin.pc = "idle" BY DEF Exclusive
<1>2. Locks'
  <2>1. \A r \in Runs : finding[r] # None => r \in shared' BY DEF IndInv, Locks
  <2> QED BY <1>1, <2>1 DEF IndInv, Locks, Exclusive
<1>3. Files' BY StillFiles DEF IndInv
<1>4. Refs' BY DEF IndInv, Refs, CitedResolve, tables, charges
<1>5. ASSUME NEW v \in Writers \ {w} PROVE Writing(v)'
  BY DEF IndInv, Writing, Reserved, EntryOf, disk, tables, charges
<1>6. Cleaning' BY <1>1 DEF Cleaning, Exclusive
<1>7. ChargedUnderLease'
  <2>1. SUFFICES ASSUME NEW v \in Writers, acq'[v].pc \in Charging PROVE FilesCharged'
    BY DEF ChargedUnderLease, FilesCharged
  <2>2. acq[v].pc \in Charging BY <2>1
  <2> QED BY <2>2, ChargedInside, StillFiles
<1> QED BY <1>2, <1>3, <1>4, <1>5, <1>6, <1>7 DEF IndInv

\* An acquisition or a recovery enters, or leaves.
LEMMA EnteringKeepsInv ==
    ASSUME IndInv, NEW w \in Writers,
           \/ \E o \in Objects : BeginAcquisition(w, o)
           \/ BeginRecover(w) \/ EndRecover(w) \/ PublishRows(w) \/ Fail(w)
    PROVE  IndInv' /\ UNCHANGED <<disk, charges>>
<1>0. TypeOK BY DEF IndInv
<1>1. TypeOK' BY TypeAcquisition
<1>2. \A v \in Writers : acq[v].pc \in InLease => lease = v BY DEF IndInv, Locks
<1>3. rows \subseteq objects BY DEF IndInv, Refs, CitedResolve
<1>4. ASSUME NEW o \in Objects \cup {None}, NEW then \in {"room", "end"}, Enter(w, o, then),
             then = "room" => o \in Objects
      PROVE  IndInv' /\ UNCHANGED <<disk, charges>>
  <2>1. /\ acq'[w] = [pc |-> "lease", then |-> then, obj |-> o, stage |-> None]
        /\ \A v \in Writers \ {w} : acq'[v] = acq[v]
    BY <1>0, <1>4 DEF Enter, TypeOK
  <2>2. Writing(w)' BY <1>4, <2>1 DEF Writing, Durable, InLease, Steps, Goals
  <2>3. /\ ~Exclusive /\ UNCHANGED <<disk, charges, cited, finding, admin, rows, lease>>
        /\ shared' = shared \cup {w}
    BY <1>4 DEF Enter, refs, tables, charges
  <2>4. acq'[w].pc \notin InLease \cup Charging
    BY <2>1 DEF InLease, Charging, Steps, Goals
  <2> QED BY <1>1, <1>2, <1>3, <2>1, <2>2, <2>3, <2>4, MoveKeepsInv
<1>5. ASSUME acq[w].pc # "idle", Leave(w), UNCHANGED <<disk, charges, cited>>,
             rows \subseteq rows', rows' \subseteq objects
      PROVE  IndInv' /\ UNCHANGED <<disk, charges>>
  <2>1. /\ acq'[w] = Idle
        /\ \A v \in Writers \ {w} : acq'[v] = acq[v]
    BY <1>0, <1>5 DEF Leave, TypeOK
  <2>2. Writing(w)' BY <2>1 DEF Writing, Idle, Durable, InLease
  <2>3. ~Exclusive BY <1>5, WriterExcludes
  <2>4. \A v \in Writers \ {w} : acq[v].pc \in InLease => lease' = v
    BY <1>2, <1>5 DEF Leave
  <2>5. shared' = shared \ {w} /\ UNCHANGED <<finding, admin>> BY <1>5 DEF Leave
  <2>6. acq'[w].pc = "idle" /\ acq'[w].pc \notin InLease \cup Charging
    BY <2>1 DEF Idle, InLease, Charging, Steps, Goals
  <2> QED BY <1>1, <1>5, <2>1, <2>2, <2>3, <2>4, <2>5, <2>6, MoveKeepsInv
<1>6. ASSUME NEW o \in Objects, BeginAcquisition(w, o) PROVE IndInv' /\ UNCHANGED <<disk, charges>>
  BY <1>4, <1>6 DEF BeginAcquisition
<1>7. CASE BeginRecover(w) BY <1>4, <1>7 DEF BeginRecover
<1>8. CASE EndRecover(w) BY <1>3, <1>5, <1>8 DEF EndRecover, refs, tables, charges
<1>9. CASE PublishRows(w) BY <1>3, <1>5, <1>9 DEF PublishRows, tables, charges
<1>10. CASE Fail(w) BY <1>3, <1>5, <1>10 DEF Fail, refs, tables, charges
<1> QED BY <1>6, <1>7, <1>8, <1>9, <1>10

\* A writer takes the lease, ends its recovery, or gives the lease back.
LEMMA LeasingKeepsInv ==
    ASSUME IndInv, NEW w \in Writers,
           \/ TakeLease(w) \/ Recovered(w) \/ HasRoom(w)
           \/ AlreadyRegistered(w) \/ PutReturns(w)
    PROVE  IndInv' /\ UNCHANGED <<disk, charges>>
<1>0. TypeOK /\ Writing(w) BY DEF IndInv
<1>1. TypeOK' BY TypeRecovery, TypePut DEF Recovery, Put
<1>2. \A v \in Writers : acq[v].pc \in InLease => lease = v BY DEF IndInv, Locks
<1>3. rows \subseteq objects BY DEF IndInv, Refs, CitedResolve
<1>4. acq[w].pc # "idle"
  BY DEF TakeLease, Recovered, HasRoom, AlreadyRegistered, PutReturns
<1>5. ~Exclusive /\ w \in shared BY <1>4, WriterExcludes DEF IndInv, Locks
<1>6. UNCHANGED <<disk, charges, rows, cited, shared, finding, admin>>
  BY DEF TakeLease, Recovered, HasRoom, AlreadyRegistered, PutReturns, Unlease, Go, refs, tables, charges
<1>7. ASSUME NEW pc, NEW then, Turn(w, pc, then, acq[w].stage), Writing(w)',
             pc \in InLease => lease' = w, pc \in Charging => acq[w].pc \in Charging,
             \A v \in Writers \ {w} : acq[v].pc \in InLease => lease' = v
      PROVE  IndInv'
  BY <1>1, <1>3, <1>5, <1>6, <1>7, MoveKeepsInv DEF Turn
<1>8. CASE TakeLease(w)
  <2>1. Turn(w, "sync", acq[w].then, acq[w].stage) BY <1>0, <1>8, Turns
  <2>2. Writing(w)' BY <1>0, <1>8, <2>1 DEF TakeLease, Writing, Turn, Durable, InLease, Steps
  <2>3. lease = None /\ lease' = w BY <1>8 DEF TakeLease
  <2>4. \A v \in Writers : acq[v].pc \notin InLease BY <1>2, <2>3
  <2>5. "sync" \notin Charging BY DEF Charging, Goals
  <2> QED BY <1>6, <1>7, <2>1, <2>2, <2>3, <2>4, <2>5
<1>9. CASE Recovered(w)
  <2>1. Turn(w, acq[w].then, acq[w].then, acq[w].stage) BY <1>0, <1>9, Turns
  <2>2. acq[w].pc = "alias" /\ lease' = lease BY <1>9 DEF Recovered, Go
  <2>3. acq[w].pc \in InLease /\ acq[w].pc \in Durable /\ acq[w].pc \in Charging
    BY <2>2 DEF InLease, Durable, Charging, Steps
  <2>4. acq[w].then \in Goals BY <1>0 DEF TypeOK
  <2>5. acq[w].then # "end" => acq[w].obj \in Objects BY <1>0 DEF Writing
  <2>6. publishedD = published BY <1>0, <2>3 DEF Writing
  <2>7. Writing(w)' BY <1>6, <2>1, <2>4, <2>5, <2>6 DEF Writing, Turn, Goals, disk
  <2> QED BY <1>2, <1>6, <1>7, <2>1, <2>2, <2>3, <2>7
<1>10. ASSUME NEW pc \in {"lease", "publish"}, NEW then \in Goals, Turn(w, pc, then, acq[w].stage),
              lease' = None, acq[w].pc \in {"room", "look", "done"}
       PROVE  IndInv'
  <2>1. acq[w].pc \in InLease BY <1>10 DEF InLease, Steps, Goals
  <2>2. \A v \in Writers \ {w} : acq[v].pc \notin InLease BY <1>2, <2>1
  <2>3. acq[w].obj \in Objects BY <1>10, PutsBody
  <2>4. pc \notin InLease /\ pc \notin Durable /\ pc \notin Charging
    BY DEF InLease, Durable, Charging, Steps, Goals
  <2>5. Writing(w)' BY <1>10, <2>3, <2>4 DEF Writing, Turn
  <2> QED BY <1>7, <1>10, <2>2, <2>4, <2>5
<1>11. CASE HasRoom(w) BY <1>0, <1>6, <1>10, <1>11, Turns DEF HasRoom, Unlease, Goals
<1>12. CASE AlreadyRegistered(w) BY <1>0, <1>6, <1>10, <1>12, Turns DEF AlreadyRegistered, Unlease, Goals
<1>13. CASE PutReturns(w) BY <1>0, <1>6, <1>10, <1>13, Turns DEF PutReturns, Unlease, Goals
<1> QED BY <1>6, <1>8, <1>9, <1>11, <1>12, <1>13

\* What the writers and the directory keep when none of them takes the step.
LEMMA WritersRest ==
    ASSUME IndInv, UNCHANGED <<disk, charges, acq>>
    PROVE  /\ Files'
           /\ \A w \in Writers : Writing(w)'
           /\ ChargedUnderLease'
<1>1. Files' BY StillFiles DEF IndInv
<1>2. \A w \in Writers : Writing(w)' BY DEF IndInv, Writing, Reserved, EntryOf, disk, tables, charges
<1>3. ChargedUnderLease'
  <2>1. FilesCharged => FilesCharged' BY StillFiles
  <2> QED BY <2>1, ChargedInside DEF ChargedUnderLease, FilesCharged
<1> QED BY <1>1, <1>2, <1>3

\* A run reads evidence, saves its answer or ends; a thread is deleted.
LEMMA RunsKeepInv ==
    ASSUME IndInv,
           \/ \E r \in Runs : (\E o \in Objects : ReadEvidence(r, o)) \/ SaveCitation(r) \/ LoseRun(r)
           \/ \E o \in Objects : DeleteThread(o)
    PROVE  IndInv' /\ UNCHANGED <<disk, charges>>
<1>0. TypeOK /\ Locks /\ Refs /\ Cleaning BY DEF IndInv
<1>1. TypeOK' BY TypeAround
<1>2. UNCHANGED <<disk, charges, acq, lease, preview, admin, rows>>
  BY DEF ReadEvidence, SaveCitation, LoseRun, DeleteThread, EndRun, refs, tables, charges
<1>3. Files' /\ (\A w \in Writers : Writing(w)') /\ ChargedUnderLease' BY <1>2, WritersRest
<1>4. Locks' /\ Refs' /\ (cited' \subseteq cited \/ ~Exclusive)
  <2>1. ASSUME NEW r \in Runs, NEW o \in Objects, ReadEvidence(r, o) PROVE Locks' /\ Refs' /\ cited' = cited
    <3>1. finding' = [finding EXCEPT ![r] = o] /\ shared' = shared \cup {r} /\ cited' = cited /\ ~Exclusive /\ o \in rows
      BY <2>1 DEF ReadEvidence, refs
    <3>2. \A q \in Runs : finding'[q] = IF q = r THEN o ELSE finding[q]
      BY <1>0, <3>1 DEF TypeOK
    <3>3. Locks' BY <1>0, <1>2, <3>1, <3>2 DEF Locks, Exclusive
    <3>4. Refs' BY <1>0, <1>2, <3>1, <3>2 DEF Refs, CitedResolve, tables, charges
    <3> QED BY <3>1, <3>3, <3>4
  <2>2. ASSUME NEW r \in Runs, EndRun(r) PROVE Locks' /\ \A q \in Runs : finding'[q] # None => finding'[q] \in rows
    <3>1. finding' = [finding EXCEPT ![r] = None] /\ shared' = shared \ {r} BY <2>2 DEF EndRun
    <3>2. \A q \in Runs : finding'[q] = IF q = r THEN None ELSE finding[q]
      BY <1>0, <3>1 DEF TypeOK
    <3>3. Locks' BY <1>0, <1>2, <3>1, <3>2 DEF Locks, Exclusive
    <3> QED BY <1>0, <3>2, <3>3 DEF Refs
  <2>3. ASSUME NEW r \in Runs, SaveCitation(r) PROVE Locks' /\ Refs' /\ ~Exclusive
    <3>1. finding[r] \in rows /\ cited' = cited \cup {finding[r]} /\ ~Exclusive /\ EndRun(r)
      BY <1>0, <2>3 DEF SaveCitation, Refs
    <3> QED BY <1>0, <1>2, <2>2, <3>1 DEF Refs, CitedResolve, tables, charges
  <2>4. ASSUME NEW r \in Runs, LoseRun(r) PROVE Locks' /\ Refs' /\ cited' = cited
    BY <1>0, <1>2, <2>2, <2>4 DEF LoseRun, Refs, CitedResolve, tables, charges
  <2>5. ASSUME NEW o \in Objects, DeleteThread(o) PROVE Locks' /\ Refs' /\ cited' \subseteq cited
    <3>1. UNCHANGED <<shared, finding>> /\ cited' = cited \ {o} BY <2>5 DEF DeleteThread
    <3> QED BY <1>0, <1>2, <3>1 DEF Locks, Exclusive, Refs, CitedResolve, tables, charges
  <2> QED BY <2>1, <2>3, <2>4, <2>5
<1>5. Cleaning'
  <2>1. CASE Exclusive
    BY <1>0, <1>2, <1>4, <2>1 DEF Cleaning, Exclusive, Aliases, Inodes, disk, tables, charges
  <2>2. CASE ~Exclusive BY <1>2, <2>2 DEF Cleaning, Exclusive
  <2> QED BY <2>1, <2>2
<1> QED BY <1>1, <1>2, <1>3, <1>4, <1>5 DEF IndInv

-----------------------------------------------------------------------------
(* The operator.                                                             *)

\* What is shown to the operator, while no inode has two names and every
\* registered body has its file: a candidate that has the name of a registered
\* body is the body itself.
LEMMA CandidateNames ==
    ASSUME TypeOK, Files, NEW c \in Candidates
    PROVE  /\ c.key \in objects => c.kind = "registered"
           /\ c.kind = "registered" => c.key \in objects \ rows
           /\ c.kind \in {"staging", "unregistered"} =>
                 c.key \in staged \/ (c.key \in Objects /\ published[c.key] # None)
<1>1. objects \subseteq Objects /\ staged \subseteq Stages BY DEF TypeOK
<1>2. CASE \E s \in staged : c = [key |-> s, kind |-> "staging"] BY <1>1, <1>2
<1>3. CASE \E o \in Objects \ objects : published[o] # None /\ c = [key |-> o, kind |-> "unregistered"]
  BY <1>3
<1>4. CASE \E o \in objects \ (rows \cup cited) : c = [key |-> o, kind |-> "registered"]
  BY <1>4
<1>5. CASE \E r \in orphans : /\ r.key \in Objects => published[r.key] = None
                              /\ c = [key |-> r.key, kind |-> "absent"]
  BY <1>1, <1>5 DEF Files, RegisteredReadable
<1> QED BY <1>2, <1>3, <1>4, <1>5 DEF Candidates

\* The operator looks, gives up, or begins what was approved.
LEMMA ApprovingKeepsInv ==
    ASSUME IndInv, Preview \/ Apply \/ ApplyBlocked
    PROVE  IndInv' /\ UNCHANGED <<disk, charges>>
<1>0. TypeOK /\ Files /\ Locks /\ Refs /\ Cleaning BY DEF IndInv
<1>1. TypeOK' BY TypeAround
<1>2. UNCHANGED <<disk, charges, refs, shared, lease, acq, finding>>
  BY DEF Preview, Apply, ApplyBlocked, Begins, tables, charges
<1>3. Files' /\ (\A w \in Writers : Writing(w)') /\ ChargedUnderLease' BY <1>2, WritersRest
<1>4. Refs' BY <1>0, <1>2 DEF Refs, CitedResolve, refs, tables, charges
<1>5. CASE Preview \/ ApplyBlocked
  <2>1. admin' = admin BY <1>5 DEF Preview, ApplyBlocked
  <2>2. Locks' BY <1>0, <1>2, <2>1 DEF Locks, Exclusive
  <2>3. Cleaning' BY <1>0, <1>2, <2>1 DEF Cleaning, Exclusive, Aliases, Inodes, disk, tables, charges, refs
  <2> QED BY <1>1, <1>2, <1>3, <1>4, <2>2, <2>3 DEF IndInv
<1>6. CASE Apply
  <2>1. /\ shared = {} /\ Aliases = {}
        /\ preview.op \in {"cleanup", "reset", "uninstall"}
        /\ preview.op # "cleanup" => cited = {}
        /\ preview.op = "cleanup" => preview.left = Candidates
        /\ admin' = [pc |-> CASE preview.op = "cleanup" -> "charge"
                             [] preview.op = "reset" -> "reset_sync"
                             [] OTHER -> "uninstall_sync",
                     left |-> preview.left, cur |-> None]
    BY <1>0, <1>6 DEF Apply, Begins, Observable, Observed, InventoryValid, TypeOK
  <2>2. Locks' BY <1>0, <1>2, <2>1 DEF Locks, Exclusive
  <2>3. Cleaning'
    <3>1. CASE preview.op # "cleanup"
      <4>1. admin'.pc \in {"reset_sync", "uninstall_sync"} BY <2>1, <3>1
      <4> QED BY <1>2, <2>1, <3>1, <4>1 DEF Cleaning, Aliases, Inodes, disk, refs
    <3>2. CASE preview.op = "cleanup"
      <4>1. admin'.pc = "charge" /\ admin'.left = Candidates BY <2>1, <3>2
      <4>2. \A c \in Candidates :
                /\ c.key \in objects => c.kind = "registered"
                /\ c.kind = "registered" => c.key \in objects \ rows
                /\ c.kind \in {"staging", "unregistered"} =>
                      c.key \in staged \/ (c.key \in Objects /\ published[c.key] # None)
        BY <1>0, CandidateNames
      <4>3. /\ \A s \in staged : [key |-> s, kind |-> "staging"] \in Candidates
            /\ \A o \in Objects \ objects : published[o] # None =>
                  [key |-> o, kind |-> "unregistered"] \in Candidates
        BY DEF Candidates
      <4> HIDE DEF Candidates
      <4> QED BY <1>2, <2>1, <4>1, <4>2, <4>3 DEF Cleaning, Aliases, Inodes, disk, tables, charges, refs
    <3> QED BY <2>1, <3>1, <3>2
  <2> QED BY <1>1, <1>2, <1>3, <1>4, <2>2, <2>3 DEF IndInv
<1> QED BY <1>2, <1>5, <1>6

\* An effect of an apply keeps the invariant when the files, the citations and
\* its own part are kept: nobody else is in the store.
LEMMA ApplyKeepsInv ==
    ASSUME IndInv, Exclusive, TypeOK', Files', CitedResolve', Cleaning',
           UNCHANGED <<shared, lease, acq, finding, preview>>
    PROVE  IndInv'
<1>1. /\ \A w \in Writers : acq[w].pc = "idle"
      /\ \A r \in Runs : finding[r] = None
      /\ shared = {}
  BY AdminAlone
<1>2. Locks' BY <1>1 DEF Locks, InLease
<1>3. Refs' BY <1>1 DEF Refs
<1>4. \A w \in Writers : Writing(w)'
  BY <1>1 DEF IndInv, Writing, Durable, InLease
<1>5. ChargedUnderLease'
  BY <1>1 DEF ChargedUnderLease, Charging, Goals
<1> QED BY <1>2, <1>3, <1>4, <1>5 DEF IndInv

\* A file in staging/ has no object name, visible or durable, while no inode has
\* two names.
LEMMA StagedHasNoName ==
    ASSUME TypeOK, NoGhost, Aliases = {}, NEW s \in staged, NEW o \in Objects
    PROVE  ~EntryOf(o, s)
<1>1. s \in Stages /\ Visible(s) BY DEF TypeOK, Visible
<1>2. published[o] # s BY <1>1 DEF Aliases, Inodes
<1>3. publishedD[o] # s BY <1>1, <1>2 DEF NoGhost
<1> QED BY <1>2, <1>3 DEF EntryOf

\* Cleanup charges every candidate in one transaction.  All files are covered
\* then: what no row names was approved, and what was registered keeps its row
\* or gets the charge.
LEMMA ChargingCandidates ==
    ASSUME IndInv, ChargeCandidates
    PROVE  IndInv' /\ FilesCovered'
<1>0. TypeOK /\ Files /\ Refs /\ Cleaning BY DEF IndInv
<1>1. TypeOK' BY TypeAdmin DEF AdminStep, Cleanup
<1>2. admin.pc = "charge" /\ admin'.pc = "next" /\ admin'.left = admin.left
  BY <1>0 DEF ChargeCandidates, AdminGo, TypeOK
<1>3. /\ Aliases = {}
      /\ \A s \in staged : [key |-> s, kind |-> "staging"] \in admin.left
      /\ \A o \in Objects \ objects : published[o] # None => [key |-> o, kind |-> "unregistered"] \in admin.left
      /\ \A c \in admin.left :
            /\ c.key \in objects => c.kind = "registered"
            /\ c.kind = "registered" => c.key \in objects \ rows
            /\ c.kind \in {"staging", "unregistered"} => c.key \in staged \/ (c.key \in Objects /\ published[c.key] # None)
  BY <1>0, <1>2 DEF Cleaning, Exclusive
<1>4. UNCHANGED <<disk, rows, cited, shared, lease, acq, finding, preview>>
  BY DEF ChargeCandidates, AdminGo, refs
<1>5. objects' = {o \in objects : \A c \in admin.left : c.kind = "registered" => c.key # o}
  BY DEF ChargeCandidates
<1>6. \A c \in admin.left : c.kind # "absent" => [key |-> c.key, size |-> FileSize(c.key)] \in orphans'
  BY DEF ChargeCandidates
<1>7. \A r \in orphans' : r \in orphans \/ \E c \in admin.left : c.kind # "absent" /\ r.key = c.key
  BY DEF ChargeCandidates
<1>8. \A o, s : EntryOf(o, s)' <=> EntryOf(o, s) BY <1>4 DEF EntryOf, disk
<1>9. \A s : Visible(s)' <=> Visible(s) BY <1>4 DEF Visible, Inodes, disk
<1>10. Files'
  <2>1. StageKeys'
    <3>1. SUFFICES ASSUME NEW r \in orphans', r.key \in Stages, NEW o \in Objects PROVE ~EntryOf(o, r.key)
      BY <1>8 DEF StageKeys
    <3>2. CASE r \in orphans BY <1>0, <3>1, <3>2 DEF Files, StageKeys
    <3>3. ASSUME NEW c \in admin.left, c.kind # "absent", r.key = c.key PROVE ~EntryOf(o, r.key)
      <4>1. c.kind \in Kinds BY <1>0 DEF TypeOK
      <4>2. c.key \notin Objects BY <3>1, <3>3
      <4>3. c.key \in staged BY <1>0, <1>3, <3>3, <4>1, <4>2 DEF Kinds, TypeOK
      <4> QED BY <1>0, <1>3, <3>3, <4>3, StagedHasNoName DEF Files
    <3> QED BY <1>7, <3>2, <3>3
  <2>2. OneName' /\ NoGhost' BY <1>0, <1>4, <1>8, <1>9 DEF Files, OneName, NoGhost, disk
  <2>3. RegisteredReadable' BY <1>0, <1>4, <1>5 DEF Files, RegisteredReadable, disk
  <2> QED BY <2>1, <2>2, <2>3 DEF Files
<1>11. CitedResolve'
  <2>1. \A o \in rows : o \in objects' BY <1>0, <1>3, <1>5 DEF Refs, CitedResolve
  <2> QED BY <1>0, <1>4, <2>1 DEF Refs, CitedResolve
<1>12. Cleaning'
  <2>1. \A c \in admin.left : c.key \notin objects' BY <1>3, <1>5
  <2> QED BY <1>2, <1>3, <1>4, <2>1 DEF Cleaning, Aliases, Inodes, disk
<1>13. FilesCovered'
  <2>1. SUFFICES ASSUME NEW s \in Stages, Visible(s) PROVE HasCharge(s)'
    BY <1>9 DEF FilesCovered
  <2>2. bytes[s] \in Nat /\ bytes' = bytes BY <1>0, <1>4 DEF TypeOK, disk
  <2>3. ASSUME s \in staged PROVE HasCharge(s)'
    <3>1. [key |-> s, size |-> FileSize(s)] \in orphans' BY <1>3, <1>6, <2>3
    <3>2. FileSize(s) = bytes[s] BY DEF FileSize
    <3> QED BY <2>2, <3>1, <3>2 DEF HasCharge
  <2>4. ASSUME NEW o \in Objects, published[o] = s PROVE HasCharge(s)'
    <3>1. EntryOf(o, s)' /\ published[o] # None BY <1>8, <2>4 DEF EntryOf
    <3>2. FileSize(o) = bytes[s] BY <2>4 DEF FileSize
    <3>3. CASE o \in objects'
      <4>1. Size[o] = bytes[s] BY <1>0, <1>5, <2>4, <3>3 DEF Files, RegisteredReadable
      <4> QED BY <2>2, <3>1, <3>3, <4>1 DEF HasCharge
    <3>4. CASE o \notin objects'
      <4>1. \E c \in admin.left : c.kind # "absent" /\ c.key = o
        <5>1. CASE o \in objects BY <1>5, <3>4, <5>1
        <5>2. CASE o \notin objects
          <6>1. [key |-> o, kind |-> "unregistered"] \in admin.left BY <1>3, <3>1, <5>2
          <6> QED BY <6>1
        <5> QED BY <5>1, <5>2
      <4>2. [key |-> o, size |-> bytes[s]] \in orphans' BY <1>6, <3>2, <4>1
      <4> QED BY <2>2, <3>1, <4>2 DEF HasCharge
    <3> QED BY <3>3, <3>4
  <2> QED BY <1>0, <2>1, <2>3, <2>4, VisibleFile
<1>14. Exclusive BY <1>2 DEF Exclusive
<1> QED BY <1>1, <1>4, <1>10, <1>11, <1>12, <1>13, <1>14, ApplyKeepsInv

\* Cleanup removes a file.  Under the one name it has, nothing else shows it.
LEMMA RemovingFile ==
    ASSUME IndInv, RemoveFile
    PROVE  IndInv' /\ (FilesCovered => FilesCovered')
<1>0. TypeOK /\ Files /\ Refs /\ Cleaning BY DEF IndInv
<1>1. TypeOK' BY TypeAdmin DEF AdminStep, Cleanup
<1>2. PICK c \in admin.left :
           /\ staged' = staged \ {c.key}
           /\ published' = [o \in Objects |-> IF o = c.key THEN None ELSE published[o]]
           /\ admin' = [pc |-> "removed", left |-> admin.left \ {c}, cur |-> c.key]
  BY DEF RemoveFile, AdminGo
<1> DEFINE k == c.key
<1>3. Aliases = {} /\ k \in Names /\ \A d \in admin.left : d.key \notin objects
  BY <1>0 DEF Cleaning, Exclusive, RemoveFile, TypeOK
<1>4. UNCHANGED <<stagedD, publishedD, bytes, objects, orphans, reservations, rows, cited,
                  shared, lease, acq, finding, preview>>
  BY DEF RemoveFile, AdminGo, tables, charges, refs
<1>5. \A o \in Objects : o # k => published'[o] = published[o] BY <1>2
<1>6. \A o \in Objects : o = k => published'[o] = None BY <1>2
<1>7. \A s \in Stages : s \in staged' => s \in staged BY <1>2
<1>8. \A o \in Objects, s \in Stages : EntryOf(o, s)' => EntryOf(o, s)
  BY <1>4, <1>5, <1>6 DEF EntryOf
<1>9. \A o \in Objects, s \in Stages : o # k /\ EntryOf(o, s) => EntryOf(o, s)'
  BY <1>4, <1>5 DEF EntryOf
<1>10. \A s \in Stages : Visible(s)' => Visible(s)
  BY <1>0, <1>1, <1>5, <1>6, <1>7, VisibleFile, VisibleFileNext
<1>11. ASSUME NEW s \in Stages, k \in Objects, EntryOf(k, s), Visible(s)' PROVE FALSE
  <2>1. Visible(s) BY <1>10, <1>11
  <2>2. published[k] = s BY <1>0, <1>11, <2>1 DEF EntryOf, Files, NoGhost
  <2>3. s \notin staged BY <1>3, <1>11, <2>2 DEF Aliases, Inodes
  <2>4. PICK q \in Objects : published'[q] = s BY <1>1, <1>7, <1>11, <2>3, VisibleFileNext
  <2>5. q # k /\ published[q] = s BY <1>5, <1>6, <2>4
  <2> QED BY <1>0, <1>11, <2>5 DEF Files, OneName, EntryOf
<1>12. Files'
  <2>1. OneName' BY <1>0, <1>8 DEF Files, OneName
  <2>2. StageKeys' BY <1>0, <1>4, <1>8 DEF Files, StageKeys
  <2>3. NoGhost'
    <3>1. \A o \in Objects : publishedD[o] # None => publishedD[o] \in Stages BY <1>0 DEF TypeOK
    <3>2. SUFFICES ASSUME NEW o \in Objects, NEW d \in Stages, d = publishedD[o], d # published'[o], Visible(d)'
                   PROVE  FALSE
      BY <1>4, <3>1 DEF NoGhost
    <3>3. CASE o = k BY <1>11, <3>2, <3>3 DEF EntryOf
    <3>4. CASE o # k
      <4>1. publishedD[o] # published[o] BY <1>5, <3>2, <3>4
      <4>2. Visible(d) /\ publishedD[o] # None BY <1>10, <3>2
      <4> QED BY <1>0, <3>2, <4>1, <4>2 DEF Files, NoGhost
    <3> QED BY <3>3, <3>4
  <2>4. RegisteredReadable'
    BY <1>0, <1>3, <1>4, <1>5 DEF Files, RegisteredReadable, TypeOK
  <2> QED BY <2>1, <2>2, <2>3, <2>4 DEF Files
<1>13. CitedResolve' BY <1>0, <1>4 DEF Refs, CitedResolve
<1>14. Cleaning'
  <2>1. Aliases' = {}
    <3>1. \A s \in Stages : s \in Inodes' => s \in Inodes
      BY <1>1, <1>5, <1>6 DEF Inodes, TypeOK
    <3> QED BY <1>1, <1>3, <1>7, <3>1 DEF Aliases, TypeOK
  <2>2. admin'.pc = "removed" /\ admin'.cur = k /\ admin'.left \subseteq admin.left BY <1>2
  <2>3. k \notin staged' /\ (k \in Objects => published'[k] = None) BY <1>2, <1>6
  <2> QED BY <1>3, <1>4, <2>1, <2>2, <2>3 DEF Cleaning
<1>15. ASSUME FilesCovered PROVE FilesCovered'
  <2>1. SUFFICES ASSUME NEW s \in Stages, Visible(s)' PROVE HasCharge(s)'
    BY DEF FilesCovered
  <2>2. HasCharge(s) BY <1>10, <1>15, <2>1 DEF FilesCovered
  <2>3. \A o \in Objects : EntryOf(o, s) => EntryOf(o, s)' BY <1>9, <1>11, <2>1
  <2>4. objects \subseteq Objects BY <1>0 DEF TypeOK
  <2> QED BY <1>4, <2>2, <2>3, <2>4 DEF HasCharge
<1>16. Exclusive BY DEF Exclusive, RemoveFile
<1> QED BY <1>1, <1>4, <1>12, <1>13, <1>14, <1>15, <1>16, ApplyKeepsInv

\* The syncs of an apply.
LEMMA SyncingRemoval ==
    ASSUME IndInv, SyncRemoval \/ ConfirmAbsent \/ SchemaSync
    PROVE  IndInv' /\ (FilesCovered => FilesCovered')
<1>0. TypeOK /\ Files /\ Refs /\ Cleaning BY DEF IndInv
<1>1. TypeOK' BY TypeAdmin DEF AdminStep, Cleanup
<1>2. UNCHANGED <<staged, published, bytes, charges, rows, cited, shared, lease, acq, finding, preview>>
  BY DEF SyncRemoval, ConfirmAbsent, SchemaSync, AdminGo, refs, tables, charges
<1>3. publishedD' \in {published, publishedD} BY DEF SyncRemoval, ConfirmAbsent, SchemaSync
<1>4. Files' /\ (FilesCovered => FilesCovered') BY <1>2, <1>3, NamesSynced
<1>5. CitedResolve' BY <1>0, <1>2 DEF Refs, CitedResolve, tables, charges
<1>6. Exclusive BY DEF Exclusive, SyncRemoval, ConfirmAbsent, SchemaSync
<1>7. Aliases' = {} BY <1>0, <1>2, <1>6 DEF Cleaning, Aliases, Inodes
<1>8. Cleaning'
  <2>1. CASE SyncRemoval
    <3>1. /\ admin.pc = "removed" /\ admin'.pc = "settle"
          /\ admin'.cur = admin.cur /\ admin'.left = admin.left
      BY <1>0, <2>1 DEF SyncRemoval, AdminGo, TypeOK
    <3> QED BY <1>0, <1>2, <1>7, <3>1 DEF Cleaning, tables, charges
  <2>2. CASE ConfirmAbsent
    <3>1. PICK c \in admin.left :
               /\ c.key \notin staged /\ (c.key \in Objects => published[c.key] = None)
               /\ admin' = [pc |-> "settle", left |-> admin.left \ {c}, cur |-> c.key]
      BY <2>2 DEF ConfirmAbsent, AdminGo
    <3>2. admin.pc = "next" /\ c.key \in Names BY <1>0, <2>2 DEF ConfirmAbsent, TypeOK
    <3>3. \A d \in admin'.left : d.key \notin objects BY <1>0, <3>1, <3>2 DEF Cleaning
    <3>4. admin'.pc = "settle" /\ admin'.cur = c.key BY <3>1
    <3> QED BY <1>2, <1>7, <3>1, <3>2, <3>3, <3>4 DEF Cleaning, tables, charges
  <2>3. CASE SchemaSync
    <3>1. admin.pc \in {"reset_sync", "uninstall_sync"} /\ admin'.pc \in {"reset", "uninstall"}
      BY <1>0, <2>3 DEF SchemaSync, AdminGo, TypeOK
    <3> QED BY <1>0, <1>2, <1>7, <3>1 DEF Cleaning
  <2> QED BY <2>1, <2>2, <2>3
<1> QED BY <1>1, <1>2, <1>4, <1>5, <1>6, <1>8, ApplyKeepsInv

\* The charge of a removed file is retired: no visible file relied on it.
LEMMA SettlingCharge ==
    ASSUME IndInv, SettleCharge
    PROVE  IndInv' /\ (FilesCovered => FilesCovered')
<1>0. TypeOK /\ Files /\ Refs /\ Cleaning BY DEF IndInv
<1>1. TypeOK' BY TypeAdmin DEF AdminStep, Cleanup
<1>2. UNCHANGED <<disk, objects, reservations, rows, cited, shared, lease, acq, finding, preview>>
  BY DEF SettleCharge, AdminGo, refs
<1>3. orphans' = {r \in orphans : r.key # admin.cur} BY DEF SettleCharge
<1>4. admin.pc = "settle" /\ admin'.pc = "next" /\ admin'.left = admin.left
  BY <1>0 DEF SettleCharge, AdminGo, TypeOK
<1>5. /\ Aliases = {} /\ admin.cur \notin staged
      /\ admin.cur \in Objects => published[admin.cur] = None
      /\ \A c \in admin.left : c.key \notin objects
  BY <1>0, <1>4 DEF Cleaning, Exclusive
<1>6. \A o, s : EntryOf(o, s)' <=> EntryOf(o, s) BY <1>2 DEF EntryOf, disk
<1>7. \A s : Visible(s)' <=> Visible(s) BY <1>2 DEF Visible, Inodes, disk
<1>8. Files'
  BY <1>0, <1>2, <1>3, <1>6, <1>7 DEF Files, OneName, NoGhost, StageKeys, RegisteredReadable, disk
<1>9. CitedResolve' BY <1>0, <1>2 DEF Refs, CitedResolve
<1>10. Cleaning' BY <1>2, <1>4, <1>5 DEF Cleaning, Aliases, Inodes, disk
<1>11. ASSUME FilesCovered PROVE FilesCovered'
  <2>1. SUFFICES ASSUME NEW s \in Stages, Visible(s) PROVE HasCharge(s)'
    BY <1>7 DEF FilesCovered
  <2>2. HasCharge(s) BY <1>11, <2>1 DEF FilesCovered
  <2>3. s \in staged \/ \E o \in Objects : published[o] = s BY <1>0, <2>1, VisibleFile
  <2>4. CASE \E o \in objects : EntryOf(o, s) /\ Size[o] >= bytes[s]
    BY <1>2, <1>6, <2>4 DEF HasCharge, disk
  <2>5. CASE \E r \in orphans : /\ r.size >= bytes[s]
                                /\ r.key = s \/ (r.key \in Objects /\ EntryOf(r.key, s))
    <3>1. PICK r \in orphans : /\ r.size >= bytes[s]
                               /\ r.key = s \/ (r.key \in Objects /\ EntryOf(r.key, s))
      BY <2>5
    <3>2. ASSUME r.key = admin.cur PROVE FALSE
      <4>1. CASE r.key = s
        <5>1. PICK o \in Objects : published[o] = s BY <1>5, <2>3, <3>2, <4>1
        <5> QED BY <1>0, <4>1, <5>1 DEF Files, StageKeys, EntryOf
      <4>2. CASE r.key \in Objects /\ EntryOf(r.key, s)
        <5>1. published[r.key] = None BY <1>5, <3>2, <4>2
        <5>2. publishedD[r.key] = s BY <4>2, <5>1 DEF EntryOf
        <5> QED BY <1>0, <2>1, <4>2, <5>1, <5>2 DEF Files, NoGhost
      <4> QED BY <3>1, <4>1, <4>2
    <3>3. r \in orphans' BY <1>3, <3>2
    <3> QED BY <1>2, <1>6, <3>1, <3>3 DEF HasCharge, disk
  <2>6. CASE \E r \in reservations : r.id = s /\ r.size >= bytes[s]
    BY <1>2, <2>6 DEF HasCharge, disk
  <2> QED BY <2>2, <2>4, <2>5, <2>6 DEF HasCharge
<1>12. Exclusive BY <1>4 DEF Exclusive
<1> QED BY <1>1, <1>2, <1>8, <1>9, <1>10, <1>11, <1>12, ApplyKeepsInv

\* The reset starts the tables anew with a charge for every file that is there;
\* no citation is saved that could refer to what it forgets.
LEMMA ResettingSchema ==
    ASSUME IndInv, ResetSchema
    PROVE  IndInv' /\ FilesCovered'
<1>0. TypeOK /\ Files /\ Refs /\ Cleaning BY DEF IndInv
<1>1. TypeOK' BY TypeAdmin DEF AdminStep
<1>2. /\ UNCHANGED <<disk, cited, shared, lease, acq, finding, preview>>
      /\ objects' = {} /\ rows' = {} /\ admin.pc = "reset" /\ admin'.pc = "idle"
  BY DEF ResetSchema, AdminGo, AdminIdle
<1>3. Aliases = {} /\ cited = {} BY <1>0, <1>2 DEF Cleaning, Exclusive
<1>4. orphans' = {[key |-> s, size |-> bytes[s]] : s \in staged}
                 \cup {[key |-> o, size |-> bytes[published[o]]] : o \in {p \in Objects : published[p] # None}}
  BY DEF ResetSchema
<1>5. \A o, s : EntryOf(o, s)' <=> EntryOf(o, s) BY <1>2 DEF EntryOf, disk
<1>6. \A s : Visible(s)' <=> Visible(s) BY <1>2 DEF Visible, Inodes, disk
<1>7. Files'
  <2>1. StageKeys'
    <3>1. SUFFICES ASSUME NEW r \in orphans', r.key \in Stages, NEW o \in Objects PROVE ~EntryOf(o, r.key)
      BY <1>5 DEF StageKeys
    <3>2. r.key \in staged BY <1>4, <3>1
    <3> QED BY <1>0, <1>3, <3>2, StagedHasNoName DEF Files
  <2>2. OneName' /\ NoGhost' BY <1>0, <1>2, <1>5, <1>6 DEF Files, OneName, NoGhost, disk
  <2>3. RegisteredReadable' BY <1>2 DEF RegisteredReadable
  <2> QED BY <2>1, <2>2, <2>3 DEF Files
<1>8. CitedResolve' BY <1>2, <1>3 DEF CitedResolve
<1>9. Cleaning' BY <1>2 DEF Cleaning, Exclusive
<1>10. FilesCovered'
  <2>1. SUFFICES ASSUME NEW s \in Stages, Visible(s) PROVE HasCharge(s)'
    BY <1>6 DEF FilesCovered
  <2>2. bytes[s] \in Nat /\ bytes' = bytes BY <1>0, <1>2 DEF TypeOK, disk
  <2>3. CASE s \in staged
    <3>1. [key |-> s, size |-> bytes[s]] \in orphans' BY <1>4, <2>3
    <3> QED BY <2>2, <3>1 DEF HasCharge
  <2>4. ASSUME NEW o \in Objects, published[o] = s PROVE HasCharge(s)'
    <3>1. [key |-> o, size |-> bytes[s]] \in orphans' BY <1>4, <2>4
    <3>2. EntryOf(o, s)' BY <1>5, <2>4 DEF EntryOf
    <3> QED BY <2>2, <3>1, <3>2 DEF HasCharge
  <2> QED BY <1>0, <2>1, <2>3, <2>4, VisibleFile
<1>11. Exclusive BY <1>2 DEF Exclusive
<1> QED BY <1>1, <1>2, <1>7, <1>8, <1>9, <1>10, <1>11, ApplyKeepsInv

\* The uninstall forgets the tables; again no citation is saved that could refer to them.
LEMMA UninstallingSchema ==
    ASSUME IndInv, UninstallSchema
    PROVE  IndInv'
<1>0. TypeOK /\ Files /\ Refs /\ Cleaning BY DEF IndInv
<1>1. TypeOK' BY TypeAdmin DEF AdminStep
<1>2. /\ UNCHANGED <<disk, cited, shared, lease, acq, finding, preview>>
      /\ objects' = {} /\ orphans' = {} /\ rows' = {}
      /\ admin.pc = "uninstall" /\ admin'.pc = "idle"
  BY DEF UninstallSchema, AdminGo, AdminIdle
<1>3. cited = {} BY <1>0, <1>2 DEF Cleaning
<1>4. \A o, s : EntryOf(o, s)' <=> EntryOf(o, s) BY <1>2 DEF EntryOf, disk
<1>5. \A s : Visible(s)' <=> Visible(s) BY <1>2 DEF Visible, Inodes, disk
<1>6. Files'
  <2>1. OneName' /\ NoGhost' BY <1>0, <1>2, <1>4, <1>5 DEF Files, OneName, NoGhost, disk
  <2>2. StageKeys' /\ RegisteredReadable' BY <1>2 DEF StageKeys, RegisteredReadable
  <2> QED BY <2>1, <2>2 DEF Files
<1>7. CitedResolve' BY <1>2, <1>3 DEF CitedResolve
<1>8. Cleaning' BY <1>2 DEF Cleaning, Exclusive
<1>9. Exclusive BY <1>2 DEF Exclusive
<1> QED BY <1>1, <1>2, <1>6, <1>7, <1>8, <1>9, ApplyKeepsInv

\* An apply ends, or fails between two of its steps.
LEMMA EndingApply ==
    ASSUME IndInv, CleanupComplete \/ AdminFails
    PROVE  IndInv' /\ UNCHANGED <<disk, charges>>
<1>0. Refs BY DEF IndInv
<1>1. TypeOK' BY TypeAdmin DEF AdminStep, Cleanup
<1>2. /\ UNCHANGED <<disk, charges, rows, cited, shared, lease, acq, finding, preview>>
      /\ admin' = AdminIdle
  BY DEF CleanupComplete, AdminFails, AdminGo, refs, tables, charges
<1>3. Files' BY <1>2, WritersRest
<1>4. CitedResolve' BY <1>0, <1>2 DEF Refs, CitedResolve, tables, charges
<1>5. Cleaning' BY <1>2 DEF Cleaning, Exclusive, AdminIdle
<1>6. Exclusive BY DEF Exclusive, CleanupComplete, AdminFails
<1> QED BY <1>1, <1>2, <1>3, <1>4, <1>5, <1>6, ApplyKeepsInv

-----------------------------------------------------------------------------
(* A power loss.                                                             *)

\* What is found is one of the two forms of every entry, and then both: names
\* only disappear, and the entry of a registered body had one form.
LEMMA LosingPower ==
    ASSUME IndInv, PowerLoss
    PROVE  IndInv'
<1>0. TypeOK /\ Files /\ Refs BY DEF IndInv
<1>1. TypeOK' BY TypeAround
<1>2. /\ UNCHANGED <<bytes, objects, orphans, reservations, rows, cited>>
      /\ publishedD' = published'
      /\ \A o \in Objects : published'[o] \in {published[o], publishedD[o]}
      /\ shared' = {} /\ admin' = AdminIdle
      /\ \A w \in Writers : acq'[w] = Idle
      /\ \A r \in Runs : finding'[r] = None
  BY DEF PowerLoss, tables, charges, refs
<1>3. \A o \in Objects, s \in Stages : EntryOf(o, s)' => EntryOf(o, s)
  BY <1>2 DEF EntryOf
<1>4. Files'
  <2>1. OneName' /\ StageKeys' BY <1>0, <1>2, <1>3 DEF Files, OneName, StageKeys
  <2>2. NoGhost' BY <1>2 DEF NoGhost
  <2>3. RegisteredReadable' BY <1>0, <1>2 DEF Files, RegisteredReadable, TypeOK
  <2> QED BY <2>1, <2>2, <2>3 DEF Files
<1>5. Refs' BY <1>0, <1>2 DEF Refs, CitedResolve
<1>6. \A w \in Writers : Writing(w)' BY <1>2 DEF Writing, Idle, Durable, InLease
<1>7. Locks' BY <1>2 DEF Locks, Idle, AdminIdle, Exclusive, InLease
<1>8. Cleaning' BY <1>2 DEF Cleaning, Exclusive, AdminIdle
<1>9. ChargedUnderLease' BY <1>2 DEF ChargedUnderLease, Idle, Charging, Goals
<1> QED BY <1>1, <1>4, <1>5, <1>6, <1>7, <1>8, <1>9 DEF IndInv

-----------------------------------------------------------------------------
(* The theorems.                                                             *)

\* The empty store satisfies the invariant.
LEMMA InitInv == Init => IndInv
<1> SUFFICES ASSUME Init PROVE IndInv OBVIOUS
<1>1. TypeOK BY TypeInit
<1>2. Locks BY DEF Init, Locks, Idle, Exclusive, AdminIdle, InLease
<1>3. Files
  <2>1. \A o \in Objects, s \in Stages : ~EntryOf(o, s) BY DEF Init, EntryOf
  <2>2. NoGhost BY DEF Init, NoGhost
  <2> QED BY <2>1, <2>2 DEF Init, Files, OneName, StageKeys, RegisteredReadable
<1>4. Refs BY DEF Init, Refs, CitedResolve
<1>5. \A w \in Writers : Writing(w) BY DEF Init, Writing, Idle, Durable, InLease
<1>6. Cleaning BY DEF Init, Cleaning, Exclusive, AdminIdle
<1>7. ChargedUnderLease BY DEF Init, ChargedUnderLease, Idle, Charging, Goals
<1> QED BY <1>1, <1>2, <1>3, <1>4, <1>5, <1>6, <1>7 DEF IndInv

\* Every step keeps the invariant, and every step but a power loss and an uninstall
\* keeps the visible files covered.
LEMMA NextInv ==
    ASSUME IndInv, [Next]_vars
    PROVE  IndInv' /\ (FilesCovered => FilesCovered' \/ PowerLoss \/ UninstallSchema)
<1> DEFINE Goal == IndInv' /\ (FilesCovered => FilesCovered' \/ PowerLoss \/ UninstallSchema)
<1>1. ASSUME IndInv', UNCHANGED <<disk, charges>> PROVE Goal
  BY <1>1, StillFiles
<1>2. ASSUME IndInv', FilesCharged' PROVE Goal
  <2>1. TypeOK' BY <1>2 DEF IndInv
  <2> QED BY <1>2, <2>1, ChargedCoversNext
<1>3. ASSUME NEW w \in Writers,
             \/ \E o \in Objects : BeginAcquisition(w, o)
             \/ BeginRecover(w) \/ WriterStep(w)
      PROVE  Goal
  <2>1. CASE \/ \E o \in Objects : BeginAcquisition(w, o)
             \/ BeginRecover(w) \/ EndRecover(w) \/ PublishRows(w) \/ Fail(w)
    BY <1>1, <2>1, EnteringKeepsInv
  <2>2. CASE \/ TakeLease(w) \/ Recovered(w) \/ HasRoom(w)
             \/ AlreadyRegistered(w) \/ PutReturns(w)
    BY <1>1, <2>2, LeasingKeepsInv
  <2>3. CASE Sync(w) \/ Charge(w) \/ DropAlias(w) \/ SyncAlias(w) BY <2>3, RecoveryKeepsInv
  <2>4. CASE AdoptExisting(w) \/ Reserve(w) BY <2>4, DecidingKeepsInv
  <2>5. CASE Stage(w) \/ StageSync(w) \/ Link(w) \/ LinkSync(w) BY <1>2, <2>5, WritingKeepsInv
  <2>6. CASE Register(w) \/ Unlink(w) \/ UnlinkSync(w) BY <1>2, <2>6, RegisteringKeepsInv
  <2> QED BY <1>3, <2>1, <2>2, <2>3, <2>4, <2>5, <2>6 DEF WriterStep, Recovery, Put
<1>4. CASE \/ \E r \in Runs : (\E o \in Objects : ReadEvidence(r, o)) \/ SaveCitation(r) \/ LoseRun(r)
           \/ \E o \in Objects : DeleteThread(o)
  BY <1>1, <1>4, RunsKeepInv
<1>5. CASE Preview \/ Apply \/ ApplyBlocked BY <1>1, <1>5, ApprovingKeepsInv
<1>6. CASE AdminStep
  BY <1>1, <1>6, ChargingCandidates, RemovingFile, SyncingRemoval, SettlingCharge, ResettingSchema,
     UninstallingSchema, EndingApply
     DEF AdminStep, Cleanup
<1>7. CASE PowerLoss BY <1>7, LosingPower
<1>8. CASE UNCHANGED vars
  <2>1. UNCHANGED <<disk, charges, refs, shared, lease, acq, finding, preview, admin>> BY <1>8 DEF vars, tables, charges
  <2>2. Files' /\ (\A w \in Writers : Writing(w)') /\ ChargedUnderLease' BY <2>1, WritersRest
  <2>3. TypeOK' BY <1>8 DEF vars, IndInv, TypeOK, disk, tables, refs
  <2>4. Locks' /\ Refs' BY <2>1 DEF IndInv, Locks, Refs, CitedResolve, Exclusive, refs, tables, charges
  <2>5. Cleaning' BY <2>1 DEF IndInv, Cleaning, Exclusive, Aliases, Inodes, disk, tables, charges, refs
  <2> QED BY <1>1, <2>1, <2>2, <2>3, <2>4, <2>5 DEF IndInv
<1> QED BY <1>3, <1>4, <1>5, <1>6, <1>7, <1>8 DEF Next

\* The invariant holds in every state the store can be in.
LEMMA Inductive == Spec => []IndInv
<1>1. Init => IndInv BY InitInv
<1>2. IndInv /\ [Next]_vars => IndInv' BY NextInv
<1> QED BY <1>1, <1>2, PTL DEF Spec

\* Every directory, table, lock and program counter keeps its type.
THEOREM TypeCorrect == Spec => []TypeOK
<1>1. IndInv => TypeOK BY DEF IndInv
<1> QED BY <1>1, Inductive, PTL

\* The row of a registered body always has its whole file under a durable name,
\* whatever is interrupted, cleaned up or lost.
THEOREM RowsHaveFiles == Spec => []RegisteredReadable
<1>1. IndInv => RegisteredReadable BY DEF IndInv, Files
<1> QED BY <1>1, Inductive, PTL

\* A saved citation always resolves to rows and to a registered body, across
\* cleanups, resets and uninstalls that race acquisitions and runs.
THEOREM CitationsResolve == Spec => []CitedResolve
<1>1. IndInv => CitedResolve BY DEF IndInv, Refs
<1> QED BY <1>1, Inductive, PTL

\* Past its accounting, the holder of the lease can rely on the tables: every
\* inode on disk, or that a power loss could bring back, is charged.
THEOREM LeaseFindsCharges == Spec => []ChargedUnderLease
<1>1. IndInv => ChargedUnderLease BY DEF IndInv
<1> QED BY <1>1, Inductive, PTL

\* No step but a power loss, and the uninstall that drops the accounting, leaves a visible
\* file without a charge.
THEOREM ChargesKept == Spec => CoverKept
<1>1. IndInv /\ [Next]_vars => [FilesCovered => FilesCovered' \/ PowerLoss \/ UninstallSchema]_vars
  BY NextInv
<1> QED BY <1>1, Inductive, PTL DEF Spec, CoverKept

-----------------------------------------------------------------------------
(* Totals.                                                                   *)

\* One body of length n has n positions.
LEMMA PositionsOfOne ==
    ASSUME NEW x, NEW n \in Nat
    PROVE  IsFiniteSet({x} \X (1 .. n)) /\ Cardinality({x} \X (1 .. n)) = n
<1> DEFINE I == 1 .. n
           X == {x}
<1>1. 1 \in Int /\ n \in Int OBVIOUS
<1>2. IsFiniteSet(I) /\ Cardinality(I) = IF 1 > n THEN 0 ELSE n - 1 + 1
  BY <1>1, FS_Interval
<1>3. Cardinality(I) = n BY <1>2
<1>4. IsFiniteSet(X) /\ Cardinality(X) = 1
  <2>1. \A y : IsFiniteSet({y}) /\ Cardinality({y}) = 1 BY FS_Singleton
  <2> QED BY <2>1
<1> HIDE DEF I, X
<1>5. IsFiniteSet(X \X I) /\ Cardinality(X \X I) = Cardinality(X) * Cardinality(I)
  BY <1>2, <1>4, FS_Product
<1>6. IsFiniteSet(X \X I) /\ Cardinality(X \X I) = n BY <1>3, <1>4, <1>5
<1> QED BY <1>6 DEF X, I

\* A finite number of bodies has a total.
LEMMA TotalCounts ==
    ASSUME NEW S, IsFiniteSet(S), NEW length, \A x \in S : length[x] \in Nat
    PROVE  IsFiniteSet(Positions(S, length)) /\ Total(S, length) \in Nat
<1> DEFINE f == [x \in S |-> {x} \X (1 .. length[x])]
           T == {{x} \X (1 .. length[x]) : x \in S}
<1>1. f \in Surjection(S, T)
  BY DEF Surjection
<1>2. IsFiniteSet(T)
  BY <1>1, FS_Surjection
<1>3. \A x \in S : IsFiniteSet({x} \X (1 .. length[x]))
  BY PositionsOfOne
<1>4. \A U \in T : IsFiniteSet(U) BY <1>3
<1>5. IsFiniteSet(UNION T)
  <2> HIDE DEF T
  <2> QED BY <1>2, <1>4, FS_UNION
<1>6. IsFiniteSet(Positions(S, length)) BY <1>5 DEF Positions
<1> QED BY <1>6, FS_CardinalityType DEF Total

\* Fewer bodies, none of them longer, have no larger total.
LEMMA TotalBelow ==
    ASSUME NEW S, NEW T, IsFiniteSet(T), S \subseteq T, NEW a, NEW b,
           \A x \in T : b[x] \in Nat, \A x \in S : a[x] \in Nat /\ a[x] <= b[x]
    PROVE  Total(S, a) <= Total(T, b)
<1>1. Positions(S, a) \subseteq Positions(T, b)
  <2>1. \A x \in S : 1 .. a[x] \subseteq 1 .. b[x] OBVIOUS
  <2> QED BY <2>1 DEF Positions
<1>2. IsFiniteSet(Positions(T, b)) BY TotalCounts
<1> QED BY <1>1, <1>2, FS_Subset DEF Total

\* The total of one body is its length.
LEMMA TotalOfOne ==
    ASSUME NEW x, NEW length, length[x] \in Nat
    PROVE  Total({x}, length) = length[x]
<1>1. Positions({x}, length) = {x} \X (1 .. length[x]) BY DEF Positions
<1> QED BY <1>1, PositionsOfOne DEF Total

\* Bodies taken together have at most the sum of the two totals.
LEMMA TotalOfBoth ==
    ASSUME NEW S, IsFiniteSet(S), NEW T, IsFiniteSet(T), NEW length, \A x \in S \cup T : length[x] \in Nat
    PROVE  Total(S \cup T, length) <= Total(S, length) + Total(T, length)
<1> DEFINE P == Positions(S, length)
           Q == Positions(T, length)
<1>1. IsFiniteSet(P) /\ IsFiniteSet(Q) BY TotalCounts
<1>2. Positions(S \cup T, length) = P \cup Q BY DEF Positions
<1> HIDE DEF P, Q
<1>3. Cardinality(P \cup Q) = Cardinality(P) + Cardinality(Q) - Cardinality(P \cap Q)
  BY <1>1, FS_Union
<1>4. IsFiniteSet(P \cap Q) BY <1>1, FS_Intersection
<1>5. Cardinality(P) \in Nat /\ Cardinality(Q) \in Nat /\ Cardinality(P \cap Q) \in Nat
  BY <1>1, <1>4, FS_CardinalityType
<1>6. Cardinality(P \cup Q) <= Cardinality(P) + Cardinality(Q) BY <1>3, <1>5
<1> QED BY <1>2, <1>6 DEF Total, P, Q

\* Bodies that each have a charge of their own, at least as large, do not exceed
\* the total of the charges.
LEMMA TotalCovered ==
    ASSUME NEW S, NEW T, IsFiniteSet(T), NEW a, NEW b, NEW c \in [S -> T],
           \A x, y \in S : c[x] = c[y] => x = y,
           \A t \in T : b[t] \in Nat, \A x \in S : a[x] \in Nat /\ a[x] <= b[c[x]]
    PROVE  Total(S, a) <= Total(T, b)
<1> DEFINE P == Positions(S, a)
           Q == Positions(T, b)
           f == [p \in P |-> <<c[p[1]], p[2]>>]
<1>1. \A p \in P : p[1] \in S /\ p[2] \in 1 .. a[p[1]] /\ p = <<p[1], p[2]>>
  BY DEF Positions
<1>2. \A t \in T : \A i \in 1 .. b[t] : <<t, i>> \in Q BY DEF Positions
<1>3. ASSUME NEW p \in P PROVE f[p] \in Q /\ f[p] = <<c[p[1]], p[2]>>
  <2>1. p[1] \in S /\ c[p[1]] \in T /\ p[2] \in 1 .. b[c[p[1]]] BY <1>1
  <2>2. <<c[p[1]], p[2]>> \in Q BY <1>2, <2>1
  <2>3. f[p] = <<c[p[1]], p[2]>> OBVIOUS
  <2> QED BY <2>2, <2>3
<1>4. f \in [P -> Q] BY <1>3
<1>5. \A p, q \in P : f[p] = f[q] => p = q
  <2> SUFFICES ASSUME NEW p \in P, NEW q \in P, f[p] = f[q] PROVE p = q
    OBVIOUS
  <2>1. c[p[1]] = c[q[1]] /\ p[2] = q[2] BY <1>3
  <2>2. p[1] = q[1] BY <1>1, <2>1
  <2> QED BY <1>1, <2>1, <2>2
<1>6. f \in Injection(P, Q) BY <1>4, <1>5 DEF Injection, IsInjective
<1>7. IsFiniteSet(Q) BY TotalCounts
<1> HIDE DEF P, Q, f
<1>8. Cardinality(P) <= Cardinality(Q) BY <1>6, <1>7, FS_Injection
<1> QED BY <1>8 DEF Total, P, Q

-----------------------------------------------------------------------------
(* The budget.                                                               *)

\* Both tables of charges have a primary key.
OneRowPerKey ==
    /\ \A q, r \in orphans : q.key = r.key => q = r
    /\ \A q, r \in reservations : q.id = r.id => q = r

\* Where put fills a file that was admitted.
Filling == {"stage", "stage_sync", "link"}

\* Everything else on disk leaves room for the body that is being written.
RoomKept(w) ==
    acq[w].pc \in Filling =>
        Total(DiskFiles \ {acq[w].stage}, bytes) + Size[acq[w].obj] <= Budget

BudgetInv == OneRowPerKey /\ WithinBudget /\ \A w \in Writers : RoomKept(w)

\* Tables with a primary key over finitely many names are finite.
LEMMA FiniteTables ==
    ASSUME TypeOK, OneRowPerKey
    PROVE  /\ IsFiniteSet(objects) /\ IsFiniteSet(orphans) /\ IsFiniteSet(reservations)
           /\ IsFiniteSet(DiskFiles)
<1>1. IsFiniteSet(Names) BY FS_Union DEF Names
<1>2. IsFiniteSet(objects) BY FS_Subset DEF TypeOK
<1>3. IsFiniteSet(DiskFiles) BY FS_Subset DEF DiskFiles
<1>4. IsFiniteSet(orphans)
  <2> DEFINE f == [r \in orphans |-> r.key]
  <2>1. f \in [orphans -> Names] BY DEF TypeOK
  <2>2. \A q, r \in orphans : f[q] = f[r] => q = r BY DEF OneRowPerKey
  <2>3. f \in Injection(orphans, Names) BY <2>1, <2>2 DEF Injection, IsInjective
  <2> QED BY <1>1, <2>3, FS_Injection
<1>5. IsFiniteSet(reservations)
  <2> DEFINE f == [r \in reservations |-> r.id]
  <2>1. f \in [reservations -> Stages] BY DEF TypeOK
  <2>2. \A q, r \in reservations : f[q] = f[r] => q = r BY DEF OneRowPerKey
  <2>3. f \in Injection(reservations, Stages) BY <2>1, <2>2 DEF Injection, IsInjective
  <2> QED BY <2>3, FS_Injection
<1> QED BY <1>2, <1>3, <1>4, <1>5

\* What _admit adds up is at least what is on disk: each inode has a charge of its own.
LEMMA ChargesCoverDisk ==
    ASSUME TypeOK, Files, OneRowPerKey, FilesCharged, publishedD = published
    PROVE  /\ Total(DiskFiles, bytes) \in Nat
           /\ Total(DiskFiles, bytes) <= ChargedBytes
<1> DEFINE ByObject(s, o) == EntryOf(o, s) /\ Size[o] >= bytes[s]
           ByOrphan(s, r) == /\ r.size >= bytes[s]
                             /\ r.key = s \/ (r.key \in Objects /\ EntryOf(r.key, s))
           ByReservation(s, r) == r.id = s /\ r.size >= bytes[s]
           A == {s \in DiskFiles : \E o \in objects : ByObject(s, o)}
           B == {s \in DiskFiles : \E r \in orphans : ByOrphan(s, r)}
           C == {s \in DiskFiles : \E r \in reservations : ByReservation(s, r)}
<1>1. /\ IsFiniteSet(objects) /\ IsFiniteSet(orphans) /\ IsFiniteSet(reservations)
      /\ IsFiniteSet(DiskFiles)
  BY FiniteTables
<1>2. DiskFiles \subseteq Stages /\ \A s \in DiskFiles : s \in Stages /\ bytes[s] \in Nat
  BY DEF DiskFiles, TypeOK
<1>3. DiskFiles \subseteq A \cup (B \cup C)
  BY DEF DiskFiles, FilesCharged, HasCharge
<1>4. A \subseteq DiskFiles /\ B \subseteq DiskFiles /\ C \subseteq DiskFiles
  OBVIOUS
<1>5. Total(A, bytes) <= Total(objects, Size)
  <2> DEFINE c == [s \in A |-> CHOOSE o \in objects : ByObject(s, o)]
  <2>1. \A s \in A : c[s] \in objects /\ EntryOf(c[s], s) /\ Size[c[s]] >= bytes[s]
    OBVIOUS
  <2>2. c \in [A -> objects] BY <2>1
  <2> HIDE DEF c
  <2>3. \A s \in A : published[c[s]] = s BY <2>1 DEF EntryOf
  <2>4. \A s, u \in A : c[s] = c[u] => s = u BY <2>3
  <2>5. \A o \in objects : Size[o] \in Nat BY DEF TypeOK
  <2>6. \A s \in A : bytes[s] \in Nat /\ bytes[s] <= Size[c[s]] BY <1>2, <1>4, <2>1, <2>5
  <2> HIDE DEF A
  <2> QED BY <1>1, <2>2, <2>4, <2>5, <2>6, TotalCovered
<1>6. Total(B, bytes) <= Total(orphans, RowSize(orphans))
  <2> DEFINE c == [s \in B |-> CHOOSE r \in orphans : ByOrphan(s, r)]
             size == RowSize(orphans)
  <2>1. \A s \in B : c[s] \in orphans /\ ByOrphan(s, c[s])
    OBVIOUS
  <2>2. c \in [B -> orphans] BY <2>1
  <2> HIDE DEF c
  <2>3. \A s \in B : c[s].key = s \/ (c[s].key \in Objects /\ published[c[s].key] = s)
    BY <2>1 DEF EntryOf
  <2>4. \A s, u \in B : c[s] = c[u] => s = u BY <1>2, <1>4, <2>3
  <2>5. \A r \in orphans : size[r] = r.size /\ r.size \in Nat BY DEF TypeOK, RowSize
  <2> HIDE DEF size
  <2>6. \A s \in B : bytes[s] \in Nat /\ bytes[s] <= size[c[s]] BY <1>2, <1>4, <2>1, <2>5
  <2>7. \A r \in orphans : size[r] \in Nat BY <2>5
  <2> HIDE DEF B
  <2>8. Total(B, bytes) <= Total(orphans, size) BY <1>1, <2>2, <2>4, <2>6, <2>7, TotalCovered
  <2> QED BY <2>8 DEF size
<1>7. Total(C, bytes) <= Total(reservations, RowSize(reservations))
  <2> DEFINE c == [s \in C |-> CHOOSE r \in reservations : ByReservation(s, r)]
             size == RowSize(reservations)
  <2>1. \A s \in C : c[s] \in reservations /\ ByReservation(s, c[s])
    OBVIOUS
  <2>2. c \in [C -> reservations] BY <2>1
  <2> HIDE DEF c
  <2>3. \A s, u \in C : c[s] = c[u] => s = u BY <2>1
  <2>5. \A r \in reservations : size[r] = r.size /\ r.size \in Nat BY DEF TypeOK, RowSize
  <2> HIDE DEF size
  <2>6. \A s \in C : bytes[s] \in Nat /\ bytes[s] <= size[c[s]] BY <1>2, <1>4, <2>1, <2>5
  <2>7. \A r \in reservations : size[r] \in Nat BY <2>5
  <2> HIDE DEF C
  <2>8. Total(C, bytes) <= Total(reservations, size) BY <1>1, <2>2, <2>3, <2>6, <2>7, TotalCovered
  <2> QED BY <2>8 DEF size
<1> HIDE DEF A, B, C
<1>8. IsFiniteSet(A) /\ IsFiniteSet(B) /\ IsFiniteSet(C) /\ IsFiniteSet(B \cup C) /\ IsFiniteSet(A \cup (B \cup C))
  BY <1>1, <1>4, FS_Subset, FS_Union
<1>9. \A s \in A \cup (B \cup C) : bytes[s] \in Nat BY <1>2, <1>4
<1>10. Total(DiskFiles, bytes) <= Total(A \cup (B \cup C), bytes)
  BY <1>2, <1>3, <1>8, <1>9, TotalBelow
<1>11. Total(A \cup (B \cup C), bytes) <= Total(A, bytes) + Total(B \cup C, bytes)
  BY <1>8, <1>9, TotalOfBoth
<1>12. Total(B \cup C, bytes) <= Total(B, bytes) + Total(C, bytes)
  BY <1>8, <1>9, TotalOfBoth
<1>13. /\ Total(A, bytes) \in Nat /\ Total(B, bytes) \in Nat /\ Total(C, bytes) \in Nat
       /\ Total(B \cup C, bytes) \in Nat /\ Total(A \cup (B \cup C), bytes) \in Nat
  BY <1>8, <1>9, TotalCounts
<1>14. Total(DiskFiles, bytes) \in Nat BY <1>1, <1>2, TotalCounts
<1>15. /\ Total(objects, Size) \in Nat /\ Total(orphans, RowSize(orphans)) \in Nat
       /\ Total(reservations, RowSize(reservations)) \in Nat
  <2>1. /\ \A o \in objects : Size[o] \in Nat
        /\ \A r \in orphans : RowSize(orphans)[r] \in Nat
        /\ \A r \in reservations : RowSize(reservations)[r] \in Nat
    BY DEF TypeOK, RowSize
  <2> QED BY <1>1, <2>1, TotalCounts
<1> QED BY <1>5, <1>6, <1>7, <1>10, <1>11, <1>12, <1>13, <1>14, <1>15 DEF ChargedBytes

\* What a step does to the budget when no file is filled: nothing new is on disk, and
\* a writer that is about to fill its file was so before.
Frees ==
    /\ bytes' = bytes
    /\ DiskFiles' \subseteq DiskFiles
    /\ \A w \in Writers : acq'[w].pc \in Filling => acq'[w] = acq[w]

\* Such a step keeps the budget.
LEMMA FreeingKeepsBudget ==
    ASSUME IndInv, IndInv', BudgetInv, Frees, OneRowPerKey'
    PROVE  BudgetInv'
<1>1. /\ IsFiniteSet(DiskFiles)
      /\ \A s \in DiskFiles : bytes[s] \in Nat
  BY FiniteTables DEF IndInv, BudgetInv, DiskFiles, TypeOK
<1>2. \A s \in DiskFiles' : bytes[s] \in Nat BY <1>1 DEF Frees
<1>3. Total(DiskFiles, bytes) \in Nat /\ Total(DiskFiles', bytes) \in Nat
  BY <1>1, <1>2, FS_Subset, TotalCounts DEF Frees
<1>4. WithinBudget'
  <2>1. Total(DiskFiles', bytes) <= Total(DiskFiles, bytes) BY <1>1, <1>2, TotalBelow DEF Frees
  <2> QED BY <1>3, <2>1, BudgetAssumption DEF WithinBudget, BudgetInv, Frees
<1>5. ASSUME NEW w \in Writers, acq'[w].pc \in Filling
      PROVE  Total(DiskFiles' \ {acq'[w].stage}, bytes') + Size[acq'[w].obj] <= Budget
  <2> DEFINE S == DiskFiles' \ {acq[w].stage}
             T == DiskFiles \ {acq[w].stage}
  <2>1. acq'[w] = acq[w] /\ acq[w].pc \in Filling BY <1>5 DEF Frees
  <2>2. IsFiniteSet(T) /\ S \subseteq T BY <1>1, FS_Subset DEF Frees
  <2>3. (\A s \in T : bytes[s] \in Nat) /\ (\A s \in S : bytes[s] \in Nat) BY <1>1, <1>2
  <2>4. Total(T, bytes) + Size[acq[w].obj] <= Budget BY <2>1 DEF BudgetInv, RoomKept
  <2>5. Size[acq[w].obj] \in Nat BY <2>1 DEF IndInv, Writing, Filling
  <2>6. IsFiniteSet(S) BY <2>2, FS_Subset
  <2> HIDE DEF S, T
  <2>7. Total(S, bytes) <= Total(T, bytes) BY <2>2, <2>3, TotalBelow
  <2>8. Total(S, bytes) \in Nat /\ Total(T, bytes) \in Nat BY <2>2, <2>3, <2>6, TotalCounts
  <2>9. Total(S, bytes) + Size[acq[w].obj] <= Budget BY <2>4, <2>5, <2>7, <2>8, BudgetAssumption
  <2> QED BY <2>1, <2>9 DEF S, Frees
<1> QED BY <1>4, <1>5 DEF BudgetInv, RoomKept

\* Steps of put that fill a file: none of them goes beyond what was admitted for it.
LEMMA FillingKeepsBudget ==
    ASSUME IndInv, IndInv', BudgetInv, NEW w \in Writers, Stage(w) \/ StageSync(w) \/ Link(w)
    PROVE  BudgetInv'
<1> DEFINE x == acq[w].stage
           n == Size[acq[w].obj]
           S == DiskFiles' \ {x}
           T == DiskFiles \ {x}
<1>1. acq[w].pc \in Filling /\ x \in Stages /\ n \in Nat
  BY DEF Stage, StageSync, Link, Filling, IndInv, Writing
<1>2. Total(T, bytes) + n <= Budget BY <1>1 DEF BudgetInv, RoomKept
<1>3. OneRowPerKey'
  BY DEF BudgetInv, OneRowPerKey, Stage, StageSync, Link, tables, charges
<1>4. /\ bytes \in [Stages -> Nat] /\ bytes' \in [Stages -> Nat]
      /\ \A s \in Stages \ {x} : bytes'[s] = bytes[s]
      /\ bytes'[x] <= n
  BY <1>1 DEF Stage, StageSync, Link, IndInv, TypeOK, Writing
<1>5. \A s \in Stages \ {x} : OnDisk(s)' => OnDisk(s)
  BY <1>1 DEF Stage, StageSync, Link, OnDisk, EntryOf, IndInv, TypeOK
<1>6. S \subseteq T /\ DiskFiles' \subseteq S \cup {x} BY <1>5 DEF DiskFiles
<1>7. IsFiniteSet(T) /\ IsFiniteSet(S) /\ IsFiniteSet({x}) /\ IsFiniteSet(S \cup {x})
  <2>1. IsFiniteSet(DiskFiles) BY FiniteTables DEF IndInv, BudgetInv
  <2>2. IsFiniteSet(T) BY <2>1, FS_Subset
  <2>3. IsFiniteSet(S) BY <1>6, <2>2, FS_Subset
  <2>4. IsFiniteSet({x}) BY FS_Singleton
  <2> QED BY <2>2, <2>3, <2>4, FS_Union
<1>8. T \subseteq Stages /\ S \subseteq Stages /\ x \notin S BY DEF DiskFiles
<1> HIDE DEF x, n, S, T
<1>9. Total(S, bytes') <= Total(T, bytes)
  BY <1>4, <1>6, <1>7, <1>8, TotalBelow
<1>10. Total(DiskFiles', bytes') <= Total(S \cup {x}, bytes')
  BY <1>1, <1>4, <1>6, <1>7, <1>8, TotalBelow
<1>11. Total(S \cup {x}, bytes') <= Total(S, bytes') + Total({x}, bytes')
  BY <1>1, <1>4, <1>7, <1>8, TotalOfBoth
<1>12. Total({x}, bytes') = bytes'[x] BY <1>1, <1>4, TotalOfOne
<1>13. /\ Total(S, bytes') \in Nat /\ Total(T, bytes) \in Nat /\ Total(S \cup {x}, bytes') \in Nat
       /\ Total(DiskFiles', bytes') \in Nat
  <2>1. IsFiniteSet(DiskFiles') BY <1>6, <1>7, FS_Subset
  <2>2. DiskFiles' \subseteq Stages BY <1>1, <1>6, <1>8
  <2> QED BY <1>1, <1>4, <1>7, <1>8, <2>1, <2>2, TotalCounts
<1>14. Total(S, bytes') + n <= Budget BY <1>1, <1>2, <1>9, <1>13, BudgetAssumption
<1>15. WithinBudget'
  BY <1>1, <1>4, <1>10, <1>11, <1>12, <1>13, <1>14, BudgetAssumption DEF WithinBudget
<1>16. ASSUME NEW v \in Writers PROVE RoomKept(v)'
  <2>1. acq'[w].stage = x /\ acq'[w].obj = acq[w].obj /\ \A u \in Writers \ {w} : acq'[u] = acq[u]
    BY Turns DEF IndInv, Turn, x
  <2>2. CASE v = w BY <1>14, <2>1, <2>2 DEF RoomKept, S, n
  <2>3. CASE v # w
    <3>1. lease = w BY <1>1 DEF IndInv, Locks, InLease, Filling, Steps
    <3>2. acq[v].pc \notin Filling
      BY <2>3, <3>1 DEF IndInv, Locks, InLease, Filling, Steps
    <3> QED BY <2>1, <2>3, <3>2 DEF RoomKept
  <2> QED BY <2>2, <2>3
<1> QED BY <1>3, <1>15, <1>16 DEF BudgetInv

\* An admission leaves room for what it admits beside everything on disk.
LEMMA ReservingKeepsBudget ==
    ASSUME IndInv, IndInv', BudgetInv, NEW w \in Writers, Reserve(w)
    PROVE  BudgetInv'
<1>1. PICK s \in Stages :
         /\ Fresh(s)
         /\ reservations' = reservations \cup {[id |-> s, size |-> Size[acq[w].obj]]}
  BY DEF Reserve
<1>2. acq[w].pc = "look" /\ UNCHANGED <<disk, orphans, objects>> BY DEF Reserve
<1>3. acq[w].obj \in Objects /\ publishedD = published /\ lease = w
  BY <1>2 DEF IndInv, Writing, Durable, Locks, InLease, Steps, Goals
<1>4. OneRowPerKey'
  BY <1>1, <1>2 DEF BudgetInv, OneRowPerKey, Fresh
<1>5. FilesCharged BY <1>2, ChargedInside DEF Charging, Goals
<1>6. Total(DiskFiles, bytes) \in Nat /\ Total(DiskFiles, bytes) <= ChargedBytes
  BY <1>3, <1>5, ChargesCoverDisk DEF IndInv, BudgetInv
<1>7. DiskFiles' = DiskFiles /\ bytes' = bytes BY <1>2 DEF DiskFiles, OnDisk, EntryOf, disk
<1>8. WithinBudget' BY <1>7 DEF WithinBudget, BudgetInv
<1>9. ASSUME NEW v \in Writers PROVE RoomKept(v)'
  <2>1. acq'[w].obj = acq[w].obj /\ \A u \in Writers \ {w} : acq'[u] = acq[u]
    BY Turns DEF IndInv, Turn
  <2>2. CASE v = w
    <3> DEFINE T == DiskFiles \ {acq'[w].stage}
    <3>1. IsFiniteSet(DiskFiles) /\ T \subseteq DiskFiles /\ \A u \in DiskFiles : bytes[u] \in Nat
      BY FiniteTables DEF IndInv, BudgetInv, DiskFiles, TypeOK
    <3>2. IsFiniteSet(T) /\ \A u \in T : bytes[u] \in Nat BY <3>1, FS_Subset
    <3> HIDE DEF T
    <3>3. Total(T, bytes) <= Total(DiskFiles, bytes) /\ Total(T, bytes) \in Nat
      BY <3>1, <3>2, TotalBelow, TotalCounts
    <3>4. ChargedBytes + Size[acq[w].obj] <= Budget BY DEF Reserve, Admits
    <3>5. ChargedBytes \in Int /\ Size[acq[w].obj] \in Nat
      <4>1. /\ Total(objects, Size) \in Nat /\ Total(orphans, RowSize(orphans)) \in Nat
            /\ Total(reservations, RowSize(reservations)) \in Nat
        <5>1. /\ \A o \in objects : Size[o] \in Nat
              /\ \A r \in orphans : RowSize(orphans)[r] \in Nat
              /\ \A r \in reservations : RowSize(reservations)[r] \in Nat
          BY DEF IndInv, TypeOK, RowSize
        <5> QED BY <5>1, FiniteTables, TotalCounts DEF IndInv, BudgetInv
      <4> QED BY <1>3, <4>1 DEF ChargedBytes
    <3>6. Total(T, bytes) + Size[acq[w].obj] <= Budget
      BY <1>6, <3>3, <3>4, <3>5, BudgetAssumption
    <3> QED BY <1>7, <2>1, <2>2, <3>6 DEF RoomKept, T
  <2>3. CASE v # w
    <3>1. acq[v].pc \notin Filling BY <1>3, <2>3 DEF IndInv, Locks, InLease, Filling, Steps
    <3> QED BY <2>1, <2>3, <3>1 DEF RoomKept
  <2> QED BY <2>2, <2>3
<1> QED BY <1>4, <1>8, <1>9 DEF BudgetInv

\* Every other step of a writer frees or keeps what is on disk.
LEMMA WriterFrees ==
    ASSUME IndInv, NEW w \in Writers,
           \/ \E o \in Objects : BeginAcquisition(w, o)
           \/ BeginRecover(w) \/ TakeLease(w) \/ Recovery(w) \/ EndRecover(w) \/ HasRoom(w)
           \/ AlreadyRegistered(w) \/ AdoptExisting(w) \/ LinkSync(w) \/ Register(w) \/ Unlink(w)
           \/ UnlinkSync(w) \/ PutReturns(w) \/ PublishRows(w) \/ Fail(w)
    PROVE  Frees
<1>1. /\ bytes' = bytes
      /\ staged' \cup stagedD' \subseteq staged \cup stagedD
      /\ published' = published /\ (publishedD' = publishedD \/ publishedD' = published)
  BY DEF BeginAcquisition, BeginRecover, Enter, TakeLease, Recovery, Sync, Charge, DropAlias, SyncAlias, Recovered,
         EndRecover, HasRoom, AlreadyRegistered, AdoptExisting, LinkSync, Register, Unlink, UnlinkSync,
         PutReturns, PublishRows, Fail, disk
<1>2. DiskFiles' \subseteq DiskFiles
  BY <1>1 DEF DiskFiles, OnDisk, EntryOf
<1>3. acq'[w].pc \notin Filling /\ \A v \in Writers \ {w} : acq'[v] = acq[v]
  <2>1. acq \in [Writers -> AcqType] BY DEF IndInv, TypeOK, AcqType
  <2>2. CASE \/ \E o \in Objects : BeginAcquisition(w, o)
             \/ BeginRecover(w) \/ EndRecover(w) \/ PublishRows(w) \/ Fail(w)
    BY <2>1, <2>2 DEF BeginAcquisition, BeginRecover, Enter, EndRecover, PublishRows, Fail, Leave, Idle, Filling
  <2>3. acq[w].then \notin Filling BY <2>1 DEF AcqType, Goals, Filling
  <2>4. CASE \/ TakeLease(w) \/ Recovery(w) \/ HasRoom(w) \/ AlreadyRegistered(w) \/ AdoptExisting(w)
             \/ LinkSync(w) \/ Register(w) \/ Unlink(w) \/ UnlinkSync(w) \/ PutReturns(w)
    BY <2>3, <2>4, Turns DEF IndInv, Recovery, Turn, Filling
  <2> QED BY <2>2, <2>4
<1> QED BY <1>1, <1>2, <1>3 DEF Frees

\* So does every step of runs, of the user and of the operator, and a power loss.
LEMMA OthersFree ==
    ASSUME IndInv,
           \/ \E r \in Runs : (\E o \in Objects : ReadEvidence(r, o)) \/ SaveCitation(r) \/ LoseRun(r)
           \/ \E o \in Objects : DeleteThread(o)
           \/ Preview \/ Apply \/ ApplyBlocked \/ AdminStep \/ PowerLoss \/ UNCHANGED vars
    PROVE  Frees
<1>1. /\ bytes' = bytes
      /\ staged' \cup stagedD' \subseteq staged \cup stagedD
      /\ \A s \in Stages, o \in Objects : EntryOf(o, s)' => EntryOf(o, s)
  <2>1. CASE \/ \E r \in Runs : (\E o \in Objects : ReadEvidence(r, o)) \/ SaveCitation(r) \/ LoseRun(r)
             \/ \E o \in Objects : DeleteThread(o)
             \/ Preview \/ Apply \/ ApplyBlocked \/ UNCHANGED vars
    BY <2>1 DEF ReadEvidence, SaveCitation, LoseRun, EndRun, DeleteThread, Preview, Apply, ApplyBlocked, Begins,
                EntryOf, disk, vars
  <2>2. CASE AdminStep
    <3>1. CASE RemoveFile
      <4>1. \A o \in Objects : published'[o] \in {None, published[o]} BY <3>1 DEF RemoveFile
      <4> QED BY <3>1, <4>1 DEF RemoveFile, EntryOf
    <3>2. CASE SyncRemoval BY <3>2 DEF SyncRemoval, EntryOf
    <3>3. CASE ChargeCandidates \/ ConfirmAbsent \/ SettleCharge \/ CleanupComplete \/ SchemaSync \/ ResetSchema
               \/ UninstallSchema \/ AdminFails
      BY <3>3 DEF ChargeCandidates, ConfirmAbsent, SettleCharge, CleanupComplete, SchemaSync, ResetSchema,
                  UninstallSchema, AdminFails, EntryOf, disk
    <3> QED BY <2>2, <3>1, <3>2, <3>3 DEF AdminStep, Cleanup
  <2>3. CASE PowerLoss BY <2>3 DEF PowerLoss, EntryOf
  <2> QED BY <2>1, <2>2, <2>3
<1>2. DiskFiles' \subseteq DiskFiles
  BY <1>1 DEF DiskFiles, OnDisk
<1>3. \A w \in Writers : acq'[w].pc \in Filling => acq'[w] = acq[w]
  <2>1. CASE PowerLoss BY <2>1 DEF PowerLoss, Idle, Filling
  <2>2. CASE ~PowerLoss
    BY <2>2 DEF ReadEvidence, SaveCitation, LoseRun, EndRun, DeleteThread, Preview, Apply, ApplyBlocked, Begins, vars,
           AdminStep, Cleanup, ChargeCandidates, RemoveFile, SyncRemoval, ConfirmAbsent, SettleCharge, CleanupComplete,
           SchemaSync, ResetSchema, UninstallSchema, AdminFails, AdminGo
  <2> QED BY <2>1, <2>2
<1> QED BY <1>1, <1>2, <1>3 DEF Frees

\* Every transaction on the tables of charges keeps their keys.
LEMMA KeysKept ==
    ASSUME IndInv, OneRowPerKey, [Next]_vars
    PROVE  OneRowPerKey'
<1>1. CASE UNCHANGED <<orphans, reservations>> BY <1>1 DEF OneRowPerKey
<1>2. CASE orphans' \subseteq orphans /\ reservations' \subseteq reservations
  BY <1>2 DEF OneRowPerKey
<1>3. ASSUME NEW w \in Writers, Charge(w) PROVE OneRowPerKey'
  BY <1>3 DEF Charge, Uncharged, UnregisteredFiles, OneRowPerKey, IndInv, TypeOK
<1>4. ASSUME NEW w \in Writers, Reserve(w) PROVE OneRowPerKey'
  BY <1>4 DEF Reserve, Fresh, OneRowPerKey
<1>5. CASE ChargeCandidates
  BY <1>5 DEF ChargeCandidates, OneRowPerKey
<1>6. CASE ResetSchema \/ UninstallSchema
  BY <1>6 DEF ResetSchema, UninstallSchema, OneRowPerKey, IndInv, TypeOK
<1>7. ASSUME NEW w \in Writers,
             \/ \E o \in Objects : BeginAcquisition(w, o)
             \/ BeginRecover(w) \/ WriterStep(w)
      PROVE  OneRowPerKey'
  <2>1. CASE Charge(w) \/ Reserve(w) BY <1>3, <1>4, <2>1
  <2>2. CASE AdoptExisting(w) \/ Register(w) BY <1>2, <2>2 DEF AdoptExisting, Register, Registers
  <2>3. CASE ~(Charge(w) \/ Reserve(w) \/ AdoptExisting(w) \/ Register(w))
    BY <1>1, <1>7, <2>3
       DEF BeginAcquisition, BeginRecover, Enter, WriterStep, TakeLease, Recovery, Sync, DropAlias, SyncAlias,
           Recovered, EndRecover, HasRoom, Put, AlreadyRegistered, Stage, StageSync, Link, LinkSync, Unlink,
           UnlinkSync, PutReturns, PublishRows, Fail, tables, charges
  <2> QED BY <2>1, <2>2, <2>3
<1>8. CASE SettleCharge BY <1>2, <1>8 DEF SettleCharge
<1>9. CASE \/ \E r \in Runs : (\E o \in Objects : ReadEvidence(r, o)) \/ SaveCitation(r) \/ LoseRun(r)
           \/ \E o \in Objects : DeleteThread(o)
           \/ Preview \/ Apply \/ ApplyBlocked \/ PowerLoss \/ UNCHANGED vars
           \/ RemoveFile \/ SyncRemoval \/ ConfirmAbsent \/ CleanupComplete \/ SchemaSync \/ AdminFails
  BY <1>1, <1>9 DEF ReadEvidence, SaveCitation, LoseRun, EndRun, DeleteThread, Preview, Apply, ApplyBlocked, Begins,
                    PowerLoss, vars, tables, charges, RemoveFile, SyncRemoval, ConfirmAbsent, CleanupComplete, SchemaSync, AdminFails
<1> QED BY <1>5, <1>6, <1>7, <1>8, <1>9 DEF Next, AdminStep, Cleanup

\* Every step keeps the budget.
LEMMA BudgetStep == IndInv /\ IndInv' /\ BudgetInv /\ [Next]_vars => BudgetInv'
<1> SUFFICES ASSUME IndInv, IndInv', BudgetInv, [Next]_vars PROVE BudgetInv'
  OBVIOUS
<1>1. OneRowPerKey' BY KeysKept DEF BudgetInv
<1>2. Frees => BudgetInv' BY <1>1, FreeingKeepsBudget
<1>3. ASSUME NEW w \in Writers, Reserve(w) \/ Stage(w) \/ StageSync(w) \/ Link(w) PROVE BudgetInv'
  BY <1>3, ReservingKeepsBudget, FillingKeepsBudget
<1> QED BY <1>2, <1>3, WriterFrees, OthersFree DEF Next, WriterStep, Put

\* The files on disk, and those a power loss could bring back, never take more than the
\* budget, for any sizes, any number of writers and any interruptions (_admit, _recover).
THEOREM BudgetKept == Spec => []WithinBudget
<1>1. Init => BudgetInv
  <2> SUFFICES ASSUME Init PROVE BudgetInv OBVIOUS
  <2>1. DiskFiles = {} BY DEF Init, DiskFiles, OnDisk, EntryOf
  <2>2. Positions(DiskFiles, bytes) = {} BY <2>1 DEF Positions
  <2>3. Total(DiskFiles, bytes) = 0 BY <2>2, FS_EmptySet DEF Total
  <2>4. WithinBudget BY <2>3, BudgetAssumption DEF WithinBudget
  <2>5. OneRowPerKey BY DEF Init, OneRowPerKey
  <2>6. \A w \in Writers : RoomKept(w) BY DEF Init, RoomKept, Idle, Filling
  <2> QED BY <2>4, <2>5, <2>6 DEF BudgetInv
<1>2. BudgetInv => WithinBudget BY DEF BudgetInv
<1> QED BY <1>1, <1>2, BudgetStep, Inductive, PTL DEF Spec
=============================================================================
