------------------------------ MODULE SecCaptures ------------------------------
(****************************************************************************)
(* The store of original SEC bodies: the capture directory, the accounting   *)
(* tables beside it and the locks that order their users                     *)
(* (src/src/sec_research/captures.py, capture_lock.py, maintenance.py,       *)
(* schema_admin.py).                                                         *)
(*                                                                           *)
(* Writers acquire a body and put it; runs read evidence and save answers    *)
(* that cite it; one operator previews and applies a cleanup, or a reset or  *)
(* uninstall of the schema.  Every step below is one system call or one transaction, so an     *)
(* error or a killed process may come between any two of them.  A directory  *)
(* entry has a visible and a durable form: they differ between link or       *)
(* unlink and the fsync of the directory, and after a power loss either of   *)
(* the two may be found.                                                     *)
(*                                                                           *)
(* An inode is named by the staging file it was created as.  A staging name  *)
(* is drawn afresh (uuid4); the model reuses one that nothing mentions any   *)
(* more, so no bound on the number of operations is needed.                  *)
(****************************************************************************)
EXTENDS Integers, FiniteSets

CONSTANTS
    Objects,    \* bodies, each named by its sha256
    Stages,     \* staging names, which also name the inodes
    Writers,    \* acquisitions (issuer refresh, document acquisition)
    Runs,       \* research runs that read and cite
    Size,       \* length of each body
    Budget,     \* capture budget in bytes
    None

ASSUME SizeAssumption == Size \in [Objects -> Nat]
ASSUME BudgetAssumption == Budget \in Nat
ASSUME NamesAssumption ==
    /\ Objects \cap Stages = {}
    /\ Writers \cap Runs = {}
    /\ None \notin Objects \cup Stages \cup Writers
    \* a sha256 digest and a uuid4 are each one of finitely many names
    /\ IsFiniteSet(Objects) /\ IsFiniteSet(Stages)

VARIABLES
    staged,         \* entries of staging/
    stagedD,        \* ... the durable ones
    published,      \* objects/: the inode each body's entry points to, or None
    publishedD,     \* ... the durable entry
    bytes,          \* length of each inode's content
    installed,      \* the accounting tables exist; without them the rest is empty
    objects,        \* sec_research_objects: the registered bodies
    orphans,        \* sec_research_orphans: rows [key, size]
    reservations,   \* sec_research_reservations: rows [id, size]
    rows,           \* bodies that snapshot, filing or fact rows refer to
    cited,          \* bodies that citations saved in the profile refer to
    shared,         \* holders of the operation lock in shared mode
    lease,          \* holder of the writer lease, or None
    acq,            \* where each writer is
    finding,        \* what each run has read and not yet saved, or None
    preview,        \* the operator's preview, or None
    admin           \* where the operator's apply is

disk == <<staged, stagedD, published, publishedD, bytes>>
tables == <<installed, objects, orphans, reservations>>
refs == <<rows, cited>>
vars == <<disk, tables, refs, shared, lease, acq, finding, preview, admin>>

Names == Objects \cup Stages
Kinds == {"registered", "unregistered", "staging", "absent"}

\* What a recovery goes on to: the end of recover(), the admission test of
\* preflight(), the rest of put(), or put's return.
Goals == {"end", "room", "look", "done"}

Steps == {"idle", "lease", "sync", "charge", "alias", "alias_sync", "stage",
          "stage_sync", "link", "link_sync", "register", "unlink",
          "unlink_sync", "publish"} \cup Goals

AdminSteps == {"idle", "charge", "next", "removed", "settle", "reset_sync",
               "reset", "uninstall_sync", "uninstall"}

Idle == [pc |-> "idle", then |-> "end", obj |-> None, stage |-> None]
AdminIdle == [pc |-> "idle", left |-> {}, cur |-> None]

Init ==
    /\ staged = {} /\ stagedD = {}
    /\ published = [o \in Objects |-> None]
    /\ publishedD = published
    /\ bytes = [s \in Stages |-> 0]
    /\ installed = FALSE /\ objects = {} /\ orphans = {} /\ reservations = {}
    /\ rows = {} /\ cited = {}
    /\ shared = {} /\ lease = None
    /\ acq = [w \in Writers |-> Idle]
    /\ finding = [r \in Runs |-> None]
    /\ preview = None
    /\ admin = AdminIdle

-----------------------------------------------------------------------------
(* The operation lock and the writer lease: two flocks, neither waited for. *)

Exclusive == admin.pc # "idle"

\* One step of writer w that keeps its locks.
Go(w, pc) == /\ acq' = [acq EXCEPT ![w].pc = pc]
             /\ UNCHANGED <<shared, lease, finding, preview, admin>>

\* Writer w leaves: its descriptors are closed, whatever it had reached.
Leave(w) == /\ acq' = [acq EXCEPT ![w] = Idle]
            /\ shared' = shared \ {w}
            /\ lease' = IF lease = w THEN None ELSE lease
            /\ UNCHANGED <<finding, preview, admin>>

\* Writer w gives the lease back and stays inside its operation.
Unlease(w, pc, then) ==
    /\ acq' = [acq EXCEPT ![w].pc = pc, ![w].then = then]
    /\ lease' = None
    /\ UNCHANGED <<shared, finding, preview, admin>>

\* An acquisition enters under the shared operation lock, creates the tables that
\* are absent and starts with preflight; recover() is called for itself.
Enter(w, o, then) ==
    /\ acq[w].pc = "idle"
    /\ ~Exclusive
    /\ acq' = [acq EXCEPT ![w] = [pc |-> "lease", then |-> then, obj |-> o,
                                  stage |-> None]]
    /\ shared' = shared \cup {w}
    /\ UNCHANGED <<disk, objects, orphans, reservations, refs, lease, finding, preview,
                   admin>>

\* What is installed already is only verified.
Install == installed' = TRUE

BeginAcquisition(w, o) == Enter(w, o, "room") /\ Install
BeginRecover(w) == Enter(w, None, "end") /\ UNCHANGED installed

\* capture_store_busy is the step Fail.
TakeLease(w) ==
    /\ acq[w].pc = "lease"
    /\ lease = None
    /\ lease' = w
    /\ acq' = [acq EXCEPT ![w].pc = "sync"]
    /\ UNCHANGED <<disk, tables, refs, shared, finding, preview, admin>>

-----------------------------------------------------------------------------
(* _recover: make the namespace durable, charge every file that no row       *)
(* charges, release the reservations, then drop the staging entry of a body   *)
(* that was already linked under its own name.                               *)

\* Mutant: the charge is retired before the namespace is durable.
SyncSkipped(w) ==
    /\ acq[w].pc = "sync"
    /\ Go(w, "charge")
    /\ UNCHANGED <<disk, tables, refs>>

Sync(w) ==
    /\ acq[w].pc = "sync"
    /\ stagedD' = staged /\ publishedD' = published
    /\ Go(w, "charge")
    /\ UNCHANGED <<staged, published, bytes, tables, refs>>

Inodes == {published[o] : o \in Objects} \ {None}

UnregisteredFiles == {o \in Objects \ objects :
                        /\ published[o] # None
                        /\ published[o] \notin {published[p] : p \in objects}}

Uncharged ==
    {[key |-> o, size |-> bytes[published[o]]] : o \in UnregisteredFiles}
    \cup {[key |-> s, size |-> bytes[s]] : s \in staged \ Inodes}

Charge(w) ==
    /\ acq[w].pc = "charge"
    /\ installed
    /\ orphans' = Uncharged
    /\ reservations' = {}
    /\ Go(w, "alias")
    /\ UNCHANGED <<disk, installed, objects, refs>>

Aliases == staged \cap Inodes

\* The staging entry goes only once its inode is charged under the object key.
DropAlias(w) ==
    /\ acq[w].pc = "alias"
    /\ \E s \in Aliases : staged' = staged \ {s}
    /\ Go(w, "alias_sync")
    /\ UNCHANGED <<stagedD, published, publishedD, bytes, tables, refs>>

SyncAlias(w) ==
    /\ acq[w].pc = "alias_sync"
    /\ stagedD' = staged
    /\ Go(w, "alias")
    /\ UNCHANGED <<staged, published, publishedD, bytes, tables, refs>>

Recovered(w) ==
    /\ acq[w].pc = "alias"
    /\ Aliases = {}
    /\ Go(w, acq[w].then)
    /\ UNCHANGED <<disk, tables, refs>>

-----------------------------------------------------------------------------
(* Admission, and the steps of put.                                          *)

\* SELECT SUM(size_bytes): the number of positions in all the bodies of S.
Positions(S, length) == UNION {{x} \X (1 .. length[x]) : x \in S}
Total(S, length) == Cardinality(Positions(S, length))

RowSize(table) == [r \in table |-> r.size]

ChargedBytes == Total(objects, Size)
                + Total(orphans, RowSize(orphans))
                + Total(reservations, RowSize(reservations))

\* Mutant: files that recovery found unregistered no longer count.
AdmitsBesideOrphans(n) ==
    Total(objects, Size) + Total(reservations, RowSize(reservations)) + n <= Budget

Admits(n) == ChargedBytes + n <= Budget

EndRecover(w) ==
    /\ acq[w].pc = "end"
    /\ Leave(w)
    /\ UNCHANGED <<disk, tables, refs>>

\* preflight passes; the body is fetched without the lease, then put takes it.
HasRoom(w) ==
    /\ acq[w].pc = "room"
    /\ ChargedBytes < Budget
    /\ Unlease(w, "lease", "look")
    /\ UNCHANGED <<disk, tables, refs>>

AlreadyRegistered(w) ==
    /\ acq[w].pc = "look"
    /\ acq[w].obj \in objects
    /\ Unlease(w, "publish", "done")
    /\ UNCHANGED <<disk, tables, refs>>

\* The transaction of _register.
Registers(o, reserved) ==
    /\ objects' = objects \cup {o}
    /\ orphans' = {r \in orphans : r.key # o}
    /\ reservations' = {r \in reservations : r.id \notin reserved}

\* The body's file is there without its row: an earlier put died before
\* _register, or the rows were reset.
AdoptExisting(w) ==
    /\ acq[w].pc = "look"
    /\ acq[w].obj \notin objects
    /\ published[acq[w].obj] # None
    /\ bytes[published[acq[w].obj]] = Size[acq[w].obj]
    /\ Registers(acq[w].obj, {})
    /\ acq' = [acq EXCEPT ![w].pc = "sync", ![w].then = "done"]
    /\ UNCHANGED <<disk, installed, refs, shared, lease, finding, preview, admin>>

\* uuid4 gives a name nothing mentions.
Fresh(s) ==
    /\ s \notin staged \cup stagedD
    /\ \A o \in Objects : published[o] # s /\ publishedD[o] # s
    /\ \A r \in reservations : r.id # s
    /\ \A r \in orphans : r.key # s

\* Too little free space on the device is the step Fail.
Reserve(w) ==
    /\ acq[w].pc = "look"
    /\ acq[w].obj \notin objects
    /\ published[acq[w].obj] = None
    /\ Admits(Size[acq[w].obj])
    /\ \E s \in Stages :
         /\ Fresh(s)
         /\ reservations' = reservations \cup
                            {[id |-> s, size |-> Size[acq[w].obj]]}
         /\ acq' = [acq EXCEPT ![w].pc = "stage", ![w].stage = s]
    /\ UNCHANGED <<disk, installed, objects, orphans, refs, shared, lease, finding,
                   preview, admin>>

\* The file is created and some part of the body is written.
Stage(w) ==
    /\ acq[w].pc = "stage"
    /\ staged' = staged \cup {acq[w].stage}
    /\ \E n \in 0 .. Size[acq[w].obj] :
         bytes' = [bytes EXCEPT ![acq[w].stage] = n]
    /\ Go(w, "stage_sync")
    /\ UNCHANGED <<stagedD, published, publishedD, tables, refs>>

StageSync(w) ==
    /\ acq[w].pc = "stage_sync"
    /\ bytes' = [bytes EXCEPT ![acq[w].stage] = Size[acq[w].obj]]
    /\ stagedD' = staged
    /\ Go(w, "link")
    /\ UNCHANGED <<staged, published, publishedD, tables, refs>>

Link(w) ==
    /\ acq[w].pc = "link"
    /\ published' = [published EXCEPT ![acq[w].obj] = acq[w].stage]
    /\ Go(w, "link_sync")
    /\ UNCHANGED <<staged, stagedD, publishedD, bytes, tables, refs>>

LinkSync(w) ==
    /\ acq[w].pc = "link_sync"
    /\ publishedD' = published
    /\ Go(w, "register")
    /\ UNCHANGED <<staged, stagedD, published, bytes, tables, refs>>

Register(w) ==
    /\ acq[w].pc = "register"
    /\ Registers(acq[w].obj, {acq[w].stage})
    /\ Go(w, "unlink")
    /\ UNCHANGED <<disk, installed, refs>>

Unlink(w) ==
    /\ acq[w].pc = "unlink"
    /\ staged' = staged \ {acq[w].stage}
    /\ Go(w, "unlink_sync")
    /\ UNCHANGED <<stagedD, published, publishedD, bytes, tables, refs>>

UnlinkSync(w) ==
    /\ acq[w].pc = "unlink_sync"
    /\ stagedD' = staged
    /\ acq' = [acq EXCEPT ![w].pc = "sync", ![w].then = "done"]
    /\ UNCHANGED <<staged, published, publishedD, bytes, tables, refs, shared,
                   lease, finding, preview, admin>>

PutReturns(w) ==
    /\ acq[w].pc = "done"
    /\ Unlease(w, "publish", "done")
    /\ UNCHANGED <<disk, tables, refs>>

\* The parsed body becomes rows (a foreign key to the registered object), or
\* it does not parse and the object stays unreferenced.
PublishRows(w) ==
    /\ acq[w].pc = "publish"
    /\ acq[w].obj \in objects
    /\ rows' \in {rows, rows \cup {acq[w].obj}}
    /\ Leave(w)
    /\ UNCHANGED <<disk, tables, cited>>

\* An error is raised out of the operation, or the process dies in it.
Fail(w) ==
    /\ acq[w].pc # "idle"
    /\ Leave(w)
    /\ UNCHANGED <<disk, tables, refs>>

-----------------------------------------------------------------------------
(* Research runs.  A query runs under the shared lock, and the run's          *)
(* ResearchPublication keeps a descriptor of its own until the answer that    *)
(* cites the result is saved.                                                *)

\* Mutant: the lock covers the query alone.
ReadUnretained(r, o) ==
    /\ finding[r] = None
    /\ ~Exclusive
    /\ o \in rows
    /\ finding' = [finding EXCEPT ![r] = o]
    /\ UNCHANGED <<disk, tables, refs, shared, lease, acq, preview, admin>>

ReadEvidence(r, o) ==
    /\ finding[r] = None
    /\ ~Exclusive
    /\ o \in rows
    /\ finding' = [finding EXCEPT ![r] = o]
    /\ shared' = shared \cup {r}
    /\ UNCHANGED <<disk, tables, refs, lease, acq, preview, admin>>

EndRun(r) ==
    /\ finding' = [finding EXCEPT ![r] = None]
    /\ shared' = shared \ {r}
    /\ UNCHANGED <<disk, tables, rows, lease, acq, preview, admin>>

\* citation_publication takes the shared lock once more around the write.
SaveCitation(r) ==
    /\ finding[r] # None
    /\ ~Exclusive
    /\ cited' = cited \cup {finding[r]}
    /\ EndRun(r)

LoseRun(r) ==
    /\ finding[r] # None
    /\ EndRun(r)
    /\ UNCHANGED cited

\* The user deletes a thread, and with it the citations of its answers.
DeleteThread(o) ==
    /\ o \in cited
    /\ cited' = cited \ {o}
    /\ UNCHANGED <<disk, tables, rows, shared, lease, acq, finding, preview, admin>>

-----------------------------------------------------------------------------
(* The operator: cleanup, schema reset and schema uninstall.                 *)

\* inventory() refuses an inode with two names; every registered row must
\* have its file.
InventoryValid ==
    /\ Aliases = {}
    /\ \A o \in objects : /\ published[o] # None
                          /\ bytes[published[o]] = Size[o]

\* The files a cleanup takes: those no row names, those registered and never
\* referred to, and the charges whose file is gone.
Candidates ==
    {[key |-> s, kind |-> "staging"] : s \in staged}
    \cup {[key |-> o, kind |-> "unregistered"] :
            o \in {p \in Objects \ objects : published[p] # None}}
    \cup {[key |-> o, kind |-> "registered"] : o \in objects \ (rows \cup cited)}
    \cup {[key |-> k, kind |-> "absent"] :
            k \in {r.key : r \in {r \in orphans :
                      /\ r.key \notin staged
                      /\ r.key \in Objects => published[r.key] = None}}}

\* What the operator is shown, and approves by its digest.  A reset or an uninstall
\* is blocked while any citation is saved, a cleanup while there are no tables.  The digest covers every row and file identity;
\* what an apply acts on is kept here.
Observed(op) == [op |-> op, left |-> IF op = "cleanup" THEN Candidates ELSE {}]

Observable(op) == InventoryValid /\ IF op = "cleanup" THEN installed ELSE cited = {}

Preview ==
    /\ ~Exclusive
    /\ \E op \in {"cleanup", "reset", "uninstall"} :
         Observable(op) /\ preview' = Observed(op)
    /\ UNCHANGED <<disk, tables, refs, shared, lease, acq, finding, admin>>

Begins(op, left) ==
    /\ admin' = [pc |-> CASE op = "cleanup" -> "charge"
                         [] op = "reset" -> "reset_sync"
                         [] OTHER -> "uninstall_sync",
                 left |-> left, cur |-> None]
    /\ preview' = None
    /\ UNCHANGED <<disk, tables, refs, shared, lease, acq, finding>>

\* Mutant: what was approved is applied without looking again.
ApplyUnchecked ==
    /\ preview # None
    /\ ~Exclusive /\ shared = {}
    /\ Begins(preview.op, preview.left)

\* Under the exclusive lock the state is observed again and must be the one
\* that was approved.
Apply ==
    /\ preview # None
    /\ ~Exclusive /\ shared = {}
    /\ Observable(preview.op)
    /\ Observed(preview.op) = preview
    /\ Begins(preview.op, preview.left)

\* Stale, busy or no longer valid: nothing is done.
ApplyBlocked ==
    /\ preview # None
    /\ preview' = None
    /\ UNCHANGED <<disk, tables, refs, shared, lease, acq, finding, admin>>

AdminGo(step) == /\ admin' = step
                 /\ UNCHANGED <<shared, lease, acq, finding, preview>>

FileSize(key) == IF key \in Stages THEN bytes[key] ELSE bytes[published[key]]

\* Mutant: the rows go, the charge does not come.
ChargeForgotten ==
    /\ admin.pc = "charge"
    /\ objects' = objects \ {c.key : c \in {c \in admin.left :
                                              c.kind = "registered"}}
    /\ reservations' = {}
    /\ AdminGo([admin EXCEPT !.pc = "next"])
    /\ UNCHANGED <<disk, installed, orphans, refs>>

\* One transaction: every candidate is charged as an orphan, its object row
\* goes, and so do the reservations.
ChargeCandidates ==
    /\ admin.pc = "charge"
    /\ LET files == {c \in admin.left : c.kind # "absent"}
       IN  orphans' = {r \in orphans : \A c \in files : c.key # r.key}
                      \cup {[key |-> c.key, size |-> FileSize(c.key)] : c \in files}
    /\ objects' = objects \ {c.key : c \in {c \in admin.left :
                                              c.kind = "registered"}}
    /\ reservations' = {}
    /\ AdminGo([admin EXCEPT !.pc = "next"])
    /\ UNCHANGED <<disk, installed, refs>>

RemoveFile ==
    /\ admin.pc = "next"
    /\ \E c \in admin.left :
         /\ c.kind # "absent"
         /\ staged' = staged \ {c.key}
         /\ published' = [o \in Objects |-> IF o = c.key THEN None
                                                         ELSE published[o]]
         /\ AdminGo([pc |-> "removed", left |-> admin.left \ {c}, cur |-> c.key])
    /\ UNCHANGED <<stagedD, publishedD, bytes, tables, refs>>

\* The parent directory of the removed name is synced.
SyncRemoval ==
    /\ admin.pc = "removed"
    /\ IF admin.cur \in Stages
         THEN stagedD' = staged /\ UNCHANGED publishedD
         ELSE publishedD' = published /\ UNCHANGED stagedD
    /\ AdminGo([admin EXCEPT !.pc = "settle"])
    /\ UNCHANGED <<staged, published, bytes, tables, refs>>

ConfirmAbsent ==
    /\ admin.pc = "next"
    /\ \E c \in admin.left :
         /\ c.kind = "absent"
         /\ c.key \notin staged
         /\ c.key \in Objects => published[c.key] = None
         /\ AdminGo([pc |-> "settle", left |-> admin.left \ {c}, cur |-> c.key])
    /\ stagedD' = staged /\ publishedD' = published
    /\ UNCHANGED <<staged, published, bytes, tables, refs>>

SettleCharge ==
    /\ admin.pc = "settle"
    /\ orphans' = {r \in orphans : r.key # admin.cur}
    /\ AdminGo([admin EXCEPT !.pc = "next", !.cur = None])
    /\ UNCHANGED <<disk, installed, objects, reservations, refs>>

CleanupComplete ==
    /\ admin.pc = "next"
    /\ admin.left = {}
    /\ AdminGo(AdminIdle)
    /\ UNCHANGED <<disk, tables, refs>>

\* A raw backup is taken first; then the namespace is made durable, because
\* the charges of absent files go with the old tables.
SchemaSync ==
    /\ admin.pc \in {"reset_sync", "uninstall_sync"}
    /\ stagedD' = staged /\ publishedD' = published
    /\ AdminGo([admin EXCEPT !.pc = IF admin.pc = "reset_sync" THEN "reset"
                                                              ELSE "uninstall"])
    /\ UNCHANGED <<staged, published, bytes, tables, refs>>

ResetSchema ==
    /\ admin.pc = "reset"
    /\ installed' = TRUE
    /\ objects' = {} /\ reservations' = {} /\ rows' = {}
    /\ orphans' = {[key |-> s, size |-> bytes[s]] : s \in staged}
                  \cup {[key |-> o, size |-> bytes[published[o]]] :
                          o \in {p \in Objects : published[p] # None}}
    /\ AdminGo(AdminIdle)
    /\ UNCHANGED <<disk, cited>>

\* The same transaction without the second half: the files stay, the accounting goes.
UninstallSchema ==
    /\ admin.pc = "uninstall"
    /\ installed' = FALSE
    /\ objects' = {} /\ reservations' = {} /\ orphans' = {} /\ rows' = {}
    /\ AdminGo(AdminIdle)
    /\ UNCHANGED <<disk, cited>>

AdminFails ==
    /\ Exclusive
    /\ AdminGo(AdminIdle)
    /\ UNCHANGED <<disk, tables, refs>>

-----------------------------------------------------------------------------
\* The machine goes down.  Of an entry whose visible and durable forms differ
\* either is found; what is found is durable.  (The content of a file that was
\* never synced may also be shorter, which only lowers what is on disk.)
PowerLoss ==
    /\ staged' \in {S \in SUBSET (staged \cup stagedD) : staged \cap stagedD \subseteq S}
    /\ stagedD' = staged'
    /\ published' \in {p \in [Objects -> Stages \cup {None}] :
                         \A o \in Objects : p[o] \in {published[o], publishedD[o]}}
    /\ publishedD' = published'
    /\ shared' = {} /\ lease' = None
    /\ acq' = [w \in Writers |-> Idle]
    /\ finding' = [r \in Runs |-> None]
    /\ preview' = None
    /\ admin' = AdminIdle
    /\ UNCHANGED <<bytes, tables, refs>>

Recovery(w) == Sync(w) \/ Charge(w) \/ DropAlias(w) \/ SyncAlias(w) \/ Recovered(w)

Put(w) == \/ AlreadyRegistered(w) \/ AdoptExisting(w) \/ Reserve(w) \/ Stage(w)
          \/ StageSync(w) \/ Link(w) \/ LinkSync(w) \/ Register(w) \/ Unlink(w)
          \/ UnlinkSync(w) \/ PutReturns(w)

WriterStep(w) == \/ TakeLease(w) \/ Recovery(w) \/ EndRecover(w) \/ HasRoom(w)
                 \/ Put(w) \/ PublishRows(w) \/ Fail(w)

Cleanup == \/ ChargeCandidates \/ RemoveFile \/ SyncRemoval \/ ConfirmAbsent
           \/ SettleCharge \/ CleanupComplete

AdminStep == Cleanup \/ SchemaSync \/ ResetSchema \/ UninstallSchema \/ AdminFails

Next == \/ \E w \in Writers : \/ \E o \in Objects : BeginAcquisition(w, o)
                              \/ BeginRecover(w)
                              \/ WriterStep(w)
        \/ \E r \in Runs : \/ \E o \in Objects : ReadEvidence(r, o)
                           \/ SaveCitation(r) \/ LoseRun(r)
        \/ \E o \in Objects : DeleteThread(o)
        \/ Preview \/ Apply \/ ApplyBlocked \/ AdminStep
        \/ PowerLoss

Spec == Init /\ [][Next]_vars

-----------------------------------------------------------------------------
(* Properties.                                                               *)

\* Every table, directory, lock and program counter keeps its type.
TypeOK ==
    /\ staged \subseteq Stages /\ stagedD \subseteq Stages
    /\ published \in [Objects -> Stages \cup {None}]
    /\ publishedD \in [Objects -> Stages \cup {None}]
    /\ bytes \in [Stages -> Nat]
    /\ installed \in BOOLEAN
    /\ objects \subseteq Objects
    /\ orphans \subseteq [key : Names, size : Nat]
    /\ reservations \subseteq [id : Stages, size : Nat]
    /\ rows \subseteq Objects /\ cited \subseteq Objects
    /\ shared \subseteq Writers \cup Runs
    /\ lease \in Writers \cup {None}
    /\ acq \in [Writers -> [pc : Steps, then : Goals, obj : Objects \cup {None},
                            stage : Stages \cup {None}]]
    /\ finding \in [Runs -> Objects \cup {None}]
    /\ preview \in {None} \cup [op : {"cleanup", "reset", "uninstall"},
                                left : SUBSET [key : Names, kind : Kinds]]
    /\ admin \in [pc : AdminSteps, left : SUBSET [key : Names, kind : Kinds],
                  cur : Names \cup {None}]

EntryOf(o, s) == s \in {published[o], publishedD[o]}

Visible(s) == s \in staged \cup Inodes

OnDisk(s) == s \in staged \cup stagedD \/ \E o \in Objects : EntryOf(o, s)

HasCharge(s) ==
    \/ \E o \in objects : EntryOf(o, s) /\ Size[o] >= bytes[s]
    \/ \E r \in orphans : /\ r.size >= bytes[s]
                          /\ r.key = s \/ (r.key \in Objects /\ EntryOf(r.key, s))
    \/ \E r \in reservations : r.id = s /\ r.size >= bytes[s]

Charging == {"alias", "alias_sync", "stage", "stage_sync", "link", "link_sync",
             "register", "unlink", "unlink_sync"} \cup Goals

\* Past the accounting transaction of _recover, and until its lease is given
\* back, a writer can rely on the tables: every inode that is on disk, or would
\* be after a power loss, is paid for by an object row, an orphan row or a
\* reservation of at least its length.  This is what _admit adds up, after any
\* sequence of crashes, failed fsyncs, cleanups, resets and uninstalls.
ChargedUnderLease ==
    \A w \in Writers : acq[w].pc \in Charging =>
        \A s \in Stages : OnDisk(s) => HasCharge(s)

FilesCovered == \A s \in Stages : Visible(s) => HasCharge(s)

\* Between recoveries the tables go on covering the files that can be seen: no
\* step of a writer, of cleanup or of reset, and no error or death in the
\* middle of one, leaves a visible file without a charge.  Two things may: an
\* uninstall, which drops the tables and leaves the files, and a power loss, by
\* bringing back a staging entry whose unlink was never synced after cleanup
\* retired the charge of the object it was linked to.  The next _recover charges
\* what they left before anything is admitted.
CoverKept == [][FilesCovered => FilesCovered' \/ PowerLoss \/ UninstallSchema]_vars

DiskFiles == {s \in Stages : OnDisk(s)}

\* The files on disk never take more than the budget, counting the ones a power
\* loss could bring back.
WithinBudget == Total(DiskFiles, bytes) <= Budget

\* The row of an object is never there without its file: whole, under its name,
\* and durably so, whatever is interrupted and whatever cleanup removes.
RegisteredReadable ==
    \A o \in objects : /\ published[o] # None
                       /\ publishedD[o] = published[o]
                       /\ bytes[published[o]] = Size[o]

\* A saved citation resolves: the rows it names are still there, and so are the
\* objects they refer to, across cleanups, resets and uninstalls that race the
\* acquisition of a body and the run that is about to cite it.
CitedResolve == cited \subseteq rows /\ rows \subseteq objects
=============================================================================
