------------------------- MODULE IdentityTransitions -------------------------
(****************************************************************************)
(* Ticker identity transitions (src/src/ticker_identity_transition.py,        *)
(* ticker_identity_service.py, service/ticker_identity_scheduler.py): a plan  *)
(* moves the user's tracking of one ticker to its successor, or ends it when  *)
(* the security is delisted.  A plan is approved against a preview of exactly *)
(* what it will change, executed later by the scheduler or the user, and may  *)
(* be reversed while nothing it wrote has changed.                            *)
(*                                                                           *)
(* A preview is read first and applied in a later transaction; the user edits *)
(* the same rows meanwhile.  A digest is modelled by what it is taken of, so   *)
(* two digests are equal when the contents are.  The timestamps in the rows   *)
(* are left out: they count whole seconds, so a row that is changed and       *)
(* changed back can look untouched, and nothing may rest on them.             *)
(*                                                                           *)
(* Applied continuations leave links, through which the active universe       *)
(* (active_universe.py) attributes every tracked ticker to its current one.   *)
(****************************************************************************)
EXTENDS Integers, FiniteSets

CONSTANTS
    Tickers,
    Lists,      \* watchlists, and the legacy seed list
    Meta,       \* the ticker_meta table, keyed like a list
    Plans,      \* [source, successor]; the successor of a delisting is None
    Executors,  \* who executes due plans
    Origins,    \* profiles the user may start from
    Holdings,   \* sets of tickers held at first
    MaxPlans,   \* bound: plans approved
    MaxEdits,   \* bound: edits by the user and assessments withdrawn
    None

Keys == (Lists \cup {Meta}) \X Tickers
States == {"none", "on", "off"}  \* no row, active or shown, archived or hidden

\* A successor that is not distinct blocks the preview.
ASSUME PlansAssumption ==
    /\ Plans \subseteq [source : Tickers, successor : Tickers \cup {None}]
    /\ \A p \in Plans : p.successor # p.source
ASSUME NoneAssumption == None \notin Tickers
ASSUME MetaAssumption == Meta \notin Lists
ASSUME OriginsAssumption == Origins \subseteq [Keys -> States]
ASSUME HoldingsAssumption == Holdings \subseteq SUBSET Tickers
ASSUME BoundsAssumption == {MaxPlans, MaxEdits} \subseteq Nat

VARIABLES
    profile,    \* the rows of the lists and of ticker_meta
    held,       \* tickers with an open portfolio position
    origin,     \* the profile the run started from (observed only)
    status,     \* status of each plan's transition
    authority,  \* approval_authority
    approved,   \* the preview it was approved with
    before,     \* rows it replaced (before_snapshot_json)
    after,      \* rows it wrote (after_snapshot_sha256)
    assessed,   \* plans whose assessment is accepted and current
    job,        \* what each executor has read and is about to apply
    edits

rows == <<profile, held, origin>>
ledger == <<status, authority, approved, before, after>>
vars == <<rows, ledger, assessed, job, edits>>

NoRows == [k \in {} |-> "none"]
NoView == [deps |-> NoRows, held |-> {}, sources |-> {}]
IdleJob == [plan |-> None, expected |-> NoView, view |-> NoView]

Init ==
    /\ origin \in Origins
    /\ profile = origin
    /\ held \in Holdings
    /\ status = [p \in Plans |-> "absent"]
    /\ authority = [p \in Plans |-> "user"]
    /\ approved = [p \in Plans |-> NoView]
    /\ before = [p \in Plans |-> NoRows]
    /\ after = [p \in Plans |-> NoRows]
    /\ assessed = Plans
    /\ job = [e \in Executors |-> IdleJob]
    /\ edits = 0

-----------------------------------------------------------------------------
(* The active universe                                                       *)

Active(l, t) == profile[<<l, t>>] = "on"
Hidden(t) == profile[<<Meta, t>>] = "off"

\* ticker_identity_links that are not reversed
Links == {p \in Plans : status[p] = "applied" /\ p.successor # None}

\* The tickers that following links from t leads to, t included.
Reach(t) ==
    LET hops[n \in 0 .. Cardinality(Tickers)] ==
          IF n = 0 THEN {t}
          ELSE hops[n - 1] \cup {p.successor : p \in {q \in Links : q.source \in hops[n - 1]}}
    IN hops[Cardinality(Tickers)]

\* _read_identity_links accepts them: one successor each, and no cycle.
LinksValid ==
    /\ \A p, q \in Links : p.source = q.source => p.successor = q.successor
    /\ \A p \in Links : p.source \notin Reach(p.successor)

\* _current_identity of u is t.
IsCurrent(u, t) == t \in Reach(u) /\ \A p \in Links : p.source # t

\* build_active_universe_snapshot: the kinds of sources a ticker is active by;
\* with invalid links no source of any ticker can be read.
Sources(t) ==
    LET former == {u \in Tickers : IsCurrent(u, t)}
    IN IF LinksValid /\ ~Hidden(t)
         THEN {kind \in {"membership", "portfolio"} :
                 CASE kind = "membership" -> \E l \in Lists, u \in former : Active(l, u)
                   [] kind = "portfolio" -> former \cap held # {}}
         ELSE {}

-----------------------------------------------------------------------------
(* Previews                                                                  *)

Involved(p) == {p.source, p.successor} \cap Tickers
KeysOf(p) == (Lists \cup {Meta}) \X Involved(p)

\* _profile_dependency_snapshot
Deps(p) == [k \in KeysOf(p) |-> profile[k]]

\* build_transition_preview: everything the digest covers.
View(p) == [deps |-> Deps(p), held |-> held \cap Involved(p),
            sources |-> Sources(p.source)]

SuccessorHidden(p) == p.successor # None /\ Hidden(p.successor)

\* The preview is eligible; a hidden successor needs the user's word.
Eligible(p, view, unhide) ==
    /\ view.sources # {}
    /\ p.successor = None => "portfolio" \notin view.sources
    /\ SuccessorHidden(p) => unhide

\* _automatic_membership_guard
Revives(p) ==
    /\ p.successor # None
    /\ \E l \in Lists : /\ Active(l, p.source)
                        /\ profile[<<l, p.successor>>] = "off"

-----------------------------------------------------------------------------
(* Approval and cancellation                                                 *)

Approvable(p, view, by) ==
    /\ p \in assessed
    /\ Eligible(p, view, by = "user")
    /\ by = "automation" => ~Revives(p)

\* _approve: a new row, or a fresh preview for one that has not been executed.
\* A known digest changes nothing.
Approve(p, by) ==
    LET view == View(p) IN
    /\ \/ /\ status[p] = "absent"
          /\ Cardinality({q \in Plans : status[q] # "absent"}) < MaxPlans
       \/ status[p] \in {"approved", "needs_review"}
    /\ Approvable(p, view, by)
    /\ approved[p] # view
    /\ status' = [status EXCEPT ![p] = "approved"]
    /\ authority' = [authority EXCEPT ![p] = by]
    /\ approved' = [approved EXCEPT ![p] = view]
    /\ UNCHANGED <<rows, before, after, assessed, job, edits>>

Cancel(p) ==
    /\ status[p] \in {"approved", "needs_review"}
    /\ status' = [status EXCEPT ![p] = "cancelled"]
    /\ UNCHANGED <<rows, authority, approved, before, after, assessed, job, edits>>

-----------------------------------------------------------------------------
(* Execution: execute_transition reads, apply writes                         *)

\* The approved preview was to show the successor again.
UnhideApproved(p) ==
    p.successor # None /\ approved[p].deps[<<Meta, p.successor>>] = "off"

\* The status, the digest and the current preview are read.
Look(e, p) ==
    LET view == View(p) IN
    /\ job[e].plan = None
    /\ status[p] = "approved"
    /\ job' = [job EXCEPT ![e] =
                 [plan |-> p, expected |-> approved[p],
                  view |-> IF p \in assessed /\ Eligible(p, view, UnhideApproved(p))
                             THEN view ELSE NoView]]
    /\ UNCHANGED <<rows, ledger, assessed, edits>>

Done(e) == job' = [job EXCEPT ![e] = IdleJob]

\* before_write raises (automation has been switched off, or the profile may not be
\* written), the digest is no longer the approved one, the plan is not approved any
\* more, or the transaction fails: nothing is written but an attempt.
Leave(e) ==
    /\ job[e].plan # None
    /\ Done(e)
    /\ UNCHANGED <<rows, ledger, assessed, edits>>

\* Mutant: the rows are not read again inside the transaction.
ConfirmedByPreview(p, view) == view = approved[p] /\ p \in assessed

\* What apply checks inside its transaction.
Confirmed(p, view) ==
    /\ view = approved[p]
    /\ view.deps = Deps(p)
    /\ view.held = held \cap Involved(p)
    /\ p \in assessed
    /\ authority[p] = "automation" => ~Revives(p)

Pending(e) ==
    /\ job[e].plan # None
    /\ job[e].expected = approved[job[e].plan]
    /\ status[job[e].plan] = "approved"

\* The row apply leaves under key k: memberships move to the successor, which is
\* shown; the source is archived, and hidden unless it is still held.
Written(p, k) ==
    LET l == k[1]
        t == k[2]
    IN CASE l # Meta /\ t = p.source /\ Active(l, t) -> "off"
         [] l # Meta /\ t = p.successor /\ Active(l, p.source) /\ ~Active(l, t) -> "on"
         [] l = Meta /\ t = p.successor /\ Hidden(t) -> "on"
         [] l = Meta /\ t = p.source /\ "portfolio" \notin approved[p].sources -> "off"
         [] OTHER -> profile[k]

\* _effect_keys: the rows apply writes, though a row may keep its content.
Affected(p) ==
    {k \in KeysOf(p) :
        LET l == k[1]
            t == k[2]
        IN IF l = Meta
             THEN \/ t = p.successor /\ Hidden(t)
                  \/ t = p.source /\ "portfolio" \notin approved[p].sources
             ELSE Active(l, p.source) /\ ~(t = p.successor /\ Active(l, t))}

\* apply, one transaction: rows, link, snapshots and status.
Apply(e) ==
    LET p == job[e].plan IN
    /\ Pending(e)
    /\ Confirmed(p, job[e].view)
    /\ profile' = [k \in Keys |-> IF k \in KeysOf(p) THEN Written(p, k) ELSE profile[k]]
    /\ before' = [before EXCEPT ![p] = [k \in Affected(p) |-> profile[k]]]
    /\ after' = [after EXCEPT ![p] = [k \in Affected(p) |-> profile'[k]]]
    /\ status' = [status EXCEPT ![p] = "applied"]
    /\ Done(e)
    /\ UNCHANGED <<held, origin, authority, approved, assessed, edits>>

\* A gate has changed: nothing but the status is written.
Block(e) ==
    LET p == job[e].plan IN
    /\ Pending(e)
    /\ ~Confirmed(p, job[e].view)
    /\ status' = [status EXCEPT ![p] = "needs_review"]
    /\ Done(e)
    /\ UNCHANGED <<rows, authority, approved, before, after, assessed, edits>>

\* Mutant: the rows are restored whatever has become of them.
ReversibleAlways(p) == TRUE

\* reverse_readiness
Reversible(p) ==
    /\ \A k \in DOMAIN after[p] : profile[k] = after[p][k]
    /\ \A q \in Links : q.source = p.successor => q = p

Reverse(p) ==
    /\ status[p] = "applied"
    /\ Reversible(p)
    /\ profile' = [k \in Keys |-> IF k \in DOMAIN before[p] THEN before[p][k]
                                                            ELSE profile[k]]
    /\ status' = [status EXCEPT ![p] = "reversed"]
    /\ UNCHANGED <<held, origin, authority, approved, before, after, assessed, job,
                   edits>>

-----------------------------------------------------------------------------
(* The user's edits, the assessments and time                                *)

Edit == edits < MaxEdits /\ edits' = edits + 1

\* add_member, remove_member
SetMember(l, t) ==
    /\ Edit
    /\ profile' = [profile EXCEPT ![<<l, t>>] = IF Active(l, t) THEN "none" ELSE "on"]
    /\ UNCHANGED <<held, origin, ledger, assessed, job>>

\* archive_ticker
ArchiveTicker(t) ==
    /\ Edit
    /\ \E l \in Lists : Active(l, t)
    /\ profile' = [k \in Keys |-> IF k[1] # Meta /\ k[2] = t /\ profile[k] = "on"
                                    THEN "off" ELSE profile[k]]
    /\ UNCHANGED <<held, origin, ledger, assessed, job>>

SetHidden(t) ==
    /\ Edit
    /\ profile' = [profile EXCEPT ![<<Meta, t>>] = IF Hidden(t) THEN "on" ELSE "off"]
    /\ UNCHANGED <<held, origin, ledger, assessed, job>>

\* A position is opened or closed.
SetHeld(t) ==
    /\ Edit
    /\ held' = IF t \in held THEN held \ {t} ELSE held \cup {t}
    /\ UNCHANGED <<profile, origin, ledger, assessed, job>>

\* The assessment of a plan stops being current, and may become so again.
Doubt(p) ==
    /\ Edit
    /\ p \in assessed
    /\ assessed' = assessed \ {p}
    /\ UNCHANGED <<rows, ledger, job>>

Reassess(p) ==
    /\ p \notin assessed
    /\ assessed' = assessed \cup {p}
    /\ UNCHANGED <<rows, ledger, job, edits>>

Execute(e) == Apply(e) \/ Block(e) \/ Leave(e)

Next ==
    \/ \E p \in Plans : \/ \E by \in {"user", "automation"} : Approve(p, by)
                        \/ Cancel(p) \/ Reverse(p) \/ Doubt(p) \/ Reassess(p)
                        \/ \E e \in Executors : Look(e, p)
    \/ \E e \in Executors : Execute(e)
    \/ \E t \in Tickers : \/ \E l \in Lists : SetMember(l, t)
                          \/ ArchiveTicker(t) \/ SetHidden(t) \/ SetHeld(t)

Spec == Init /\ [][Next]_vars

-----------------------------------------------------------------------------
(* Properties *)

\* A plan changes the profile only as its approval showed it and only while the
\* approval stands: when it becomes applied, the rows and positions it depends on
\* are those of the approved preview, whoever edited them, cancelled or reversed
\* the plan between approval, preview and transaction
\* (ticker_identity_transition.py:1968, 2036-2074).
AppliedAsApproved ==
    [][\A p \in Plans : status'[p] = "applied" /\ status[p] # "applied"
          => /\ status[p] = "approved"
             /\ approved[p].deps = Deps(p)
             /\ approved[p].held = held \cap Involved(p)
             /\ p \in assessed]_vars

\* Whatever plans were applied over each other and in whatever order they were
\* reversed, without edits by the user the profile is back where it began when
\* none is applied (ticker_identity_transition.py:660, 1871, 2268).
RoundTrip ==
    (edits = 0 /\ \A p \in Plans : status[p] # "applied") => profile = origin

\* The links the store writes are links the active universe can read
\* (active_universe.py:180): no ticker has two successors and none is its own.
UniverseReadable == LinksValid
=============================================================================
