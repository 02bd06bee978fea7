---------------------- MODULE IdentityTransitionsProofs ----------------------
(****************************************************************************)
(* Proofs about IdentityTransitions, for any tickers, lists and plans, any    *)
(* number of executors and any order of approvals, executions and reversals. *)
(*                                                                           *)
(* A row passes through many hands: plans write over each other's rows, and   *)
(* a plan may be reversed while later ones stand, when the row happens to     *)
(* show what it wrote.  So the rows are not a stack, and the value a reversal *)
(* restores need not be the one that was there before.  What makes the round  *)
(* trip exact is a count.  Each application moves a row from one value to     *)
(* another, and its reversal moves it back; so for every row and value, the   *)
(* applied plans that wrote the value, less those that replaced it, are one   *)
(* more or one less than none just when the row shows the value now and did   *)
(* not at first, or the other way round (Balanced).                           *)
(****************************************************************************)
EXTENDS IdentityTransitions, FiniteSetTheorems, TLAPS

Statuses == {"absent", "approved", "needs_review", "cancelled", "applied", "reversed"}

\* Snapshots: the contents of some rows.
RowSets == UNION {[S -> States] : S \in SUBSET Keys}

Typed ==
    /\ profile \in [Keys -> States] /\ origin \in [Keys -> States]
    /\ status \in [Plans -> Statuses]
    /\ before \in [Plans -> RowSets] /\ after \in [Plans -> RowSets]
    /\ \A p \in Plans : DOMAIN before[p] = DOMAIN after[p]
    /\ DOMAIN job = Executors
    /\ \A e \in Executors : job[e].plan \in Plans \cup {None}
    /\ edits \in Nat

Applied == {p \in Plans : status[p] = "applied"}

\* The applied plans that wrote value v in row k, and those that replaced it.
Wrote(k, v) == {p \in Applied : k \in DOMAIN after[p] /\ after[p][k] = v}
Replaced(k, v) == {p \in Applied : k \in DOMAIN before[p] /\ before[p][k] = v}

Shows(rows_, k, v) == IF rows_[k] = v THEN 1 ELSE 0

Balanced ==
    \A k \in Keys, v \in States :
        Cardinality(Wrote(k, v)) + Shows(origin, k, v)
            = Cardinality(Replaced(k, v)) + Shows(profile, k, v)

IndInv ==
    /\ Typed
    /\ IsFiniteSet(Applied)
    /\ edits = 0 => Balanced

-----------------------------------------------------------------------------
(* Rows and snapshots.                                                       *)

USE PlansAssumption, NoneAssumption, MetaAssumption, OriginsAssumption, BoundsAssumption

\* The keys a plan involves, and those it writes, are keys.
LEMMA PlanKeys ==
    ASSUME NEW p \in Plans
    PROVE  KeysOf(p) \subseteq Keys /\ Affected(p) \subseteq KeysOf(p)
BY DEF KeysOf, Affected, Involved, Keys

\* A snapshot has keys and states.
LEMMA Snapshot ==
    ASSUME NEW rows_ \in RowSets
    PROVE  DOMAIN rows_ \subseteq Keys /\ \A k \in DOMAIN rows_ : rows_[k] \in States
BY DEF RowSets

\* The rows of some keys are a snapshot.
LEMMA TakeSnapshot ==
    ASSUME NEW S \in SUBSET Keys, NEW f \in [Keys -> States]
    PROVE  /\ [k \in S |-> f[k]] \in RowSets
           /\ DOMAIN [k \in S |-> f[k]] = S
<1>1. [k \in S |-> f[k]] \in [S -> States] OBVIOUS
<1> QED BY <1>1 DEF RowSets

\* What apply leaves is a state, and a row that it does not list keeps its content.
LEMMA WrittenRows ==
    ASSUME NEW p \in Plans, NEW k \in KeysOf(p), profile \in [Keys -> States]
    PROVE  /\ Written(p, k) \in States
           /\ k \notin Affected(p) => Written(p, k) = profile[k]
<1> DEFINE l == k[1]
           t == k[2]
<1>1. /\ k = <<l, t>> /\ l \in Lists \cup {Meta} /\ t \in Involved(p)
      /\ k \in Keys /\ profile[k] \in States
  BY PlanKeys DEF KeysOf
<1>2. p.successor # p.source OBVIOUS
<1>3. CASE l # Meta /\ t = p.source /\ Active(l, t)
  <2>1. Written(p, k) = "off" BY <1>2, <1>3 DEF Written
  <2>2. k \in Affected(p) BY <1>1, <1>2, <1>3 DEF Affected
  <2> QED BY <2>1, <2>2 DEF States
<1>4. CASE l # Meta /\ t = p.successor /\ Active(l, p.source) /\ ~Active(l, t)
  <2>1. Written(p, k) = "on" BY <1>2, <1>4 DEF Written
  <2>2. k \in Affected(p) BY <1>1, <1>4 DEF Affected
  <2> QED BY <2>1, <2>2 DEF States
<1>5. CASE l = Meta /\ t = p.successor /\ Hidden(t)
  <2>1. Written(p, k) = "on" BY <1>2, <1>5 DEF Written
  <2>2. k \in Affected(p) BY <1>1, <1>5 DEF Affected
  <2> QED BY <2>1, <2>2 DEF States
<1>6. CASE l = Meta /\ t = p.source /\ "portfolio" \notin approved[p].sources
  <2>1. Written(p, k) = "off" BY <1>2, <1>6 DEF Written
  <2>2. k \in Affected(p) BY <1>1, <1>6 DEF Affected
  <2> QED BY <2>1, <2>2 DEF States
<1>7. CASE /\ ~(l # Meta /\ t = p.source /\ Active(l, t))
           /\ ~(l # Meta /\ t = p.successor /\ Active(l, p.source) /\ ~Active(l, t))
           /\ ~(l = Meta /\ t = p.successor /\ Hidden(t))
           /\ ~(l = Meta /\ t = p.source /\ "portfolio" \notin approved[p].sources)
  <2>1. Written(p, k) = profile[k] BY <1>7 DEF Written
  <2> QED BY <1>1, <2>1
<1> QED BY <1>3, <1>4, <1>5, <1>6, <1>7

\* The profile after apply, in terms of what it lists.
LEMMA AppliedRows ==
    ASSUME Typed, NEW p \in Plans, NEW rows_,
           rows_ = [k \in Keys |-> IF k \in KeysOf(p) THEN Written(p, k) ELSE profile[k]]
    PROVE  /\ rows_ \in [Keys -> States]
           /\ \A k \in Keys \ Affected(p) : rows_[k] = profile[k]
<1>1. profile \in [Keys -> States] BY DEF Typed
<1>2. \A k \in Keys : rows_[k] = IF k \in KeysOf(p) THEN Written(p, k) ELSE profile[k] OBVIOUS
<1>3. \A k \in Keys : rows_[k] \in States BY <1>1, <1>2, WrittenRows
<1> QED BY <1>1, <1>2, <1>3, WrittenRows

-----------------------------------------------------------------------------
(* What a step does to the rows and to the applied plans.                    *)

\* Nothing a count depends on changes.
Still == UNCHANGED <<profile, origin, before, after, edits>> /\ Applied' = Applied

\* The user edits.
Edited == edits' # 0 /\ Applied' = Applied

\* Plan p moves the rows S from what they showed to what they show.
Applies(p, S) ==
    /\ p \in Plans /\ status[p] = "approved" /\ status' = [status EXCEPT ![p] = "applied"]
    /\ S \subseteq Keys
    /\ \A k \in Keys \ S : profile'[k] = profile[k]
    /\ before' = [before EXCEPT ![p] = [k \in S |-> profile[k]]]
    /\ after' = [after EXCEPT ![p] = [k \in S |-> profile'[k]]]
    /\ UNCHANGED <<origin, edits>>

\* Plan p, whose rows show what it wrote, puts back what it replaced.
Reverses(p) ==
    /\ p \in Applied /\ status' = [status EXCEPT ![p] = "reversed"]
    /\ \A k \in DOMAIN after[p] : profile[k] = after[p][k] /\ profile'[k] = before[p][k]
    /\ \A k \in Keys \ DOMAIN after[p] : profile'[k] = profile[k]
    /\ UNCHANGED <<origin, before, after, edits>>

\* An approval, a cancellation or a blocked apply leaves the applied plans alone.
LEMMA StatusElsewhere ==
    ASSUME Typed, NEW p \in Plans, status[p] # "applied", NEW s, s # "applied",
           status' = [status EXCEPT ![p] = s]
    PROVE  Applied' = Applied
BY DEF Typed, Applied

\* Every step keeps the types and has one of the effects.
LEMMA StepEffect ==
    ASSUME Typed, Next
    PROVE  /\ Typed'
           /\ \/ Still \/ Edited
              \/ \E p \in Plans : Reverses(p) \/ \E S \in SUBSET Keys : Applies(p, S)
<1> DEFINE Effect == \/ Still \/ Edited
                     \/ \E p \in Plans : Reverses(p) \/ \E S \in SUBSET Keys : Applies(p, S)
<1>1. ASSUME NEW p \in Plans, NEW by \in {"user", "automation"}, Approve(p, by) PROVE Typed' /\ Effect
  <2>1. status[p] # "applied" /\ status' = [status EXCEPT ![p] = "approved"] BY <1>1 DEF Approve
  <2>2. UNCHANGED <<profile, origin, before, after, edits, job>> BY <1>1 DEF Approve, rows
  <2>3. Typed' BY <2>1, <2>2 DEF Typed, Statuses
  <2> QED BY <2>1, <2>2, <2>3, StatusElsewhere DEF Still
<1>2. ASSUME NEW p \in Plans, Cancel(p) PROVE Typed' /\ Effect
  <2>1. status[p] # "applied" /\ status' = [status EXCEPT ![p] = "cancelled"] BY <1>2 DEF Cancel
  <2>2. UNCHANGED <<profile, origin, before, after, edits, job>> BY <1>2 DEF Cancel, rows
  <2>3. Typed' BY <2>1, <2>2 DEF Typed, Statuses
  <2> QED BY <2>1, <2>2, <2>3, StatusElsewhere DEF Still
<1>3. ASSUME NEW p \in Plans, Reverse(p) PROVE Typed' /\ Effect
  <2>1. /\ status[p] = "applied" /\ status' = [status EXCEPT ![p] = "reversed"]
        /\ \A k \in DOMAIN after[p] : profile[k] = after[p][k]
        /\ profile' = [k \in Keys |-> IF k \in DOMAIN before[p] THEN before[p][k] ELSE profile[k]]
        /\ UNCHANGED <<origin, before, after, edits, job>>
    BY <1>3 DEF Reverse, Reversible
  <2>2. before[p] \in RowSets /\ DOMAIN before[p] = DOMAIN after[p] /\ profile \in [Keys -> States] BY DEF Typed
  <2>3. DOMAIN before[p] \subseteq Keys /\ \A k \in DOMAIN before[p] : before[p][k] \in States
    BY <2>2, Snapshot
  <2>4. profile' \in [Keys -> States] BY <2>1, <2>2, <2>3
  <2>5. Typed' BY <2>1, <2>4 DEF Typed, Statuses
  <2>6. Reverses(p) BY <2>1, <2>2, <2>3 DEF Reverses, Applied
  <2> QED BY <2>5, <2>6
<1>4. ASSUME NEW e \in Executors, Apply(e) PROVE Typed' /\ Effect
  <2>1. PICK p \in Plans : p = job[e].plan BY <1>4 DEF Apply, Pending, Typed
  <2>2. /\ status[p] = "approved" /\ status' = [status EXCEPT ![p] = "applied"]
        /\ profile' = [k \in Keys |-> IF k \in KeysOf(p) THEN Written(p, k) ELSE profile[k]]
        /\ before' = [before EXCEPT ![p] = [k \in Affected(p) |-> profile[k]]]
        /\ after' = [after EXCEPT ![p] = [k \in Affected(p) |-> profile'[k]]]
        /\ job' = [job EXCEPT ![e] = IdleJob]
        /\ UNCHANGED <<origin, edits>>
    BY <1>4, <2>1 DEF Apply, Pending, Done
  <2>3. Affected(p) \in SUBSET Keys BY PlanKeys
  <2>4. profile' \in [Keys -> States] /\ \A k \in Keys \ Affected(p) : profile'[k] = profile[k]
    BY <2>2, AppliedRows
  <2> DEFINE old == [k \in Affected(p) |-> profile[k]]
             new == [k \in Affected(p) |-> profile'[k]]
  <2>5. old \in RowSets /\ new \in RowSets /\ DOMAIN old = Affected(p) /\ DOMAIN new = Affected(p)
    BY <2>3, <2>4, TakeSnapshot DEF Typed
  <2>6. before' = [before EXCEPT ![p] = old] /\ after' = [after EXCEPT ![p] = new] BY <2>2
  <2> HIDE DEF old, new
  <2>7. /\ before' \in [Plans -> RowSets] /\ after' \in [Plans -> RowSets]
        /\ \A q \in Plans : DOMAIN before'[q] = DOMAIN after'[q]
    BY <2>5, <2>6 DEF Typed
  <2>8. DOMAIN job' = Executors /\ \A d \in Executors : job'[d].plan \in Plans \cup {None}
    BY <2>2 DEF Typed, IdleJob
  <2>9. Typed' BY <2>2, <2>4, <2>7, <2>8 DEF Typed, Statuses
  <2>10. Applies(p, Affected(p)) BY <2>2, <2>3, <2>4 DEF Applies
  <2> QED BY <2>3, <2>9, <2>10
<1>5. ASSUME NEW e \in Executors, Block(e) PROVE Typed' /\ Effect
  <2>1. PICK p \in Plans : p = job[e].plan BY <1>5 DEF Block, Pending, Typed
  <2>2. /\ status[p] # "applied" /\ status' = [status EXCEPT ![p] = "needs_review"]
        /\ job' = [job EXCEPT ![e] = IdleJob]
        /\ UNCHANGED <<profile, origin, before, after, edits>>
    BY <1>5, <2>1 DEF Block, Pending, Done, rows
  <2>3. DOMAIN job' = Executors /\ \A d \in Executors : job'[d].plan \in Plans \cup {None}
    BY <2>2 DEF Typed, IdleJob
  <2>4. Typed' BY <2>2, <2>3 DEF Typed, Statuses
  <2> QED BY <2>2, <2>4, StatusElsewhere DEF Still
<1>6. ASSUME NEW e \in Executors,
             Leave(e) \/ \E p \in Plans : Look(e, p)
      PROVE  Typed' /\ Effect
  <2>1. UNCHANGED <<profile, origin, before, after, edits, status>>
    BY <1>6 DEF Leave, Look, rows, ledger
  <2>2. \E x : job' = [job EXCEPT ![e] = x] /\ x.plan \in Plans \cup {None}
    <3>1. CASE Leave(e)
      <4>1. job' = [job EXCEPT ![e] = IdleJob] BY <3>1 DEF Leave, Done
      <4>2. IdleJob.plan = None BY DEF IdleJob
      <4> QED BY <4>1, <4>2
    <3>2. ASSUME NEW p \in Plans, Look(e, p) PROVE \E x : job' = [job EXCEPT ![e] = x] /\ x.plan \in Plans \cup {None}
      <4> DEFINE x == [plan |-> p, expected |-> approved[p],
                       view |-> IF p \in assessed /\ Eligible(p, View(p), UnhideApproved(p)) THEN View(p) ELSE NoView]
      <4>1. job' = [job EXCEPT ![e] = x] BY <3>2 DEF Look
      <4>2. x.plan = p OBVIOUS
      <4> QED BY <4>1, <4>2
    <3> QED BY <1>6, <3>1, <3>2
  <2>3. PICK x : job' = [job EXCEPT ![e] = x] /\ x.plan \in Plans \cup {None} BY <2>2
  <2>4. DOMAIN job' = Executors /\ \A d \in Executors : job'[d].plan \in Plans \cup {None}
    BY <2>3 DEF Typed
  <2>5. Typed' BY <2>1, <2>4 DEF Typed
  <2> QED BY <2>1, <2>5 DEF Still, Applied
<1>7. ASSUME NEW p \in Plans, Reassess(p) PROVE Typed' /\ Effect
  BY <1>7 DEF Reassess, Typed, Still, Applied, rows, ledger
<1>8. ASSUME NEW p \in Plans, Doubt(p) PROVE Typed' /\ Effect
  BY <1>8 DEF Doubt, Edit, Typed, Edited, Applied, rows, ledger
<1>9. ASSUME NEW t \in Tickers,
             (\E l \in Lists : SetMember(l, t)) \/ ArchiveTicker(t) \/ SetHidden(t) \/ SetHeld(t)
      PROVE  Typed' /\ Effect
  <2>1. /\ UNCHANGED <<origin, status, before, after, job>>
        /\ edits' = edits + 1
    <3>1. \A l \in Lists : SetMember(l, t) => UNCHANGED <<origin, status, before, after, job>> /\ edits' = edits + 1
      BY DEF SetMember, Edit, ledger
    <3>2. ArchiveTicker(t) => UNCHANGED <<origin, status, before, after, job>> /\ edits' = edits + 1
      BY DEF ArchiveTicker, Edit, ledger
    <3>3. SetHidden(t) \/ SetHeld(t) => UNCHANGED <<origin, status, before, after, job>> /\ edits' = edits + 1
      BY DEF SetHidden, SetHeld, Edit, ledger
    <3> QED BY <1>9, <3>1, <3>2, <3>3
  <2>2. profile' \in [Keys -> States]
    <3>1. profile \in [Keys -> States] BY DEF Typed
    <3>2. \A l \in Lists : SetMember(l, t) => profile' \in [Keys -> States]
      BY <3>1 DEF SetMember, States
    <3>3. ArchiveTicker(t) => profile' \in [Keys -> States]
      BY <3>1 DEF ArchiveTicker, States
    <3>4. SetHidden(t) => profile' \in [Keys -> States]
      BY <3>1 DEF SetHidden, States
    <3>5. SetHeld(t) => profile' \in [Keys -> States]
      BY <3>1 DEF SetHeld
    <3> QED BY <1>9, <3>2, <3>3, <3>4, <3>5
  <2>3. edits' \in Nat /\ edits' # 0 BY <2>1 DEF Typed
  <2> QED BY <2>1, <2>2, <2>3 DEF Typed, Edited, Applied
<1> QED BY <1>1, <1>2, <1>3, <1>4, <1>5, <1>6, <1>7, <1>8, <1>9 DEF Next, Execute

-----------------------------------------------------------------------------
(* The count.                                                                *)

\* Only applied plans are counted, and they are finitely many.
LEMMA CountsFinite ==
    ASSUME IsFiniteSet(Applied), NEW k, NEW v
    PROVE  /\ IsFiniteSet(Wrote(k, v)) /\ Cardinality(Wrote(k, v)) \in Nat
           /\ IsFiniteSet(Replaced(k, v)) /\ Cardinality(Replaced(k, v)) \in Nat
<1>1. Wrote(k, v) \in SUBSET Applied /\ Replaced(k, v) \in SUBSET Applied BY DEF Wrote, Replaced
<1> QED BY <1>1, FS_Subset, FS_CardinalityType

\* An application moves every row it lists from the value it replaced to the one
\* it wrote, and the counts with it.
LEMMA ApplyingBalances ==
    ASSUME Typed, Typed', IsFiniteSet(Applied), Balanced,
           NEW p \in Plans, NEW S \in SUBSET Keys, Applies(p, S)
    PROVE  IsFiniteSet(Applied') /\ Balanced'
<1>1. Applied' = Applied \cup {p} /\ p \notin Applied
  BY DEF Typed, Applied, Applies
<1>2. IsFiniteSet(Applied') BY <1>1, FS_AddElement
<1> DEFINE old == [k \in S |-> profile[k]]
           new == [k \in S |-> profile'[k]]
<1>3. before'[p] = old /\ after'[p] = new BY DEF Applies, Typed
<1>4. \A q \in Applied : before'[q] = before[q] /\ after'[q] = after[q]
  BY <1>1 DEF Applies, Typed, Applied
<1>5. ASSUME NEW k \in Keys, NEW v \in States
      PROVE  Cardinality(Wrote(k, v)') + Shows(origin, k, v)
                 = Cardinality(Replaced(k, v)') + Shows(profile', k, v)
  <2>1. Cardinality(Wrote(k, v)) + Shows(origin, k, v) = Cardinality(Replaced(k, v)) + Shows(profile, k, v)
    BY DEF Balanced
  <2>2. /\ IsFiniteSet(Wrote(k, v)) /\ Cardinality(Wrote(k, v)) \in Nat
        /\ IsFiniteSet(Replaced(k, v)) /\ Cardinality(Replaced(k, v)) \in Nat
    BY CountsFinite
  <2>3. Wrote(k, v)' = {q \in Applied' : k \in DOMAIN after'[q] /\ after'[q][k] = v}
    BY DEF Wrote
  <2>4. Replaced(k, v)' = {q \in Applied' : k \in DOMAIN before'[q] /\ before'[q][k] = v}
    BY DEF Replaced
  <2>5. p \notin Wrote(k, v) /\ p \notin Replaced(k, v) BY <1>1 DEF Wrote, Replaced
  <2>6. Wrote(k, v)' = IF k \in S /\ profile'[k] = v THEN Wrote(k, v) \cup {p} ELSE Wrote(k, v)
    BY <1>1, <1>3, <1>4, <2>3 DEF Wrote
  <2>7. Replaced(k, v)' = IF k \in S /\ profile[k] = v THEN Replaced(k, v) \cup {p} ELSE Replaced(k, v)
    BY <1>1, <1>3, <1>4, <2>4 DEF Replaced
  <2>8. Cardinality(Wrote(k, v)')
          = IF k \in S /\ profile'[k] = v THEN Cardinality(Wrote(k, v)) + 1 ELSE Cardinality(Wrote(k, v))
    BY <2>2, <2>5, <2>6, FS_AddElement
  <2>9. Cardinality(Replaced(k, v)')
          = IF k \in S /\ profile[k] = v THEN Cardinality(Replaced(k, v)) + 1 ELSE Cardinality(Replaced(k, v))
    BY <2>2, <2>5, <2>7, FS_AddElement
  <2>10. k \notin S => profile'[k] = profile[k] BY DEF Applies
  <2> QED BY <2>1, <2>2, <2>8, <2>9, <2>10 DEF Shows
<1>6. origin' = origin BY DEF Applies
<1>7. Balanced' BY <1>5, <1>6 DEF Balanced, Shows
<1> QED BY <1>2, <1>7

\* A reversal moves them back.
LEMMA ReversingBalances ==
    ASSUME Typed, Typed', IsFiniteSet(Applied), Balanced, NEW p \in Plans, Reverses(p)
    PROVE  IsFiniteSet(Applied') /\ Balanced'
<1>1. Applied' = Applied \ {p} /\ p \in Applied
  BY DEF Typed, Applied, Reverses
<1>2. IsFiniteSet(Applied') BY <1>1, FS_RemoveElement
<1>3. before' = before /\ after' = after /\ DOMAIN before[p] = DOMAIN after[p] /\ origin' = origin
  BY DEF Reverses, Typed
<1> DEFINE S == DOMAIN after[p]
<1>4. ASSUME NEW k \in Keys, NEW v \in States
      PROVE  Cardinality(Wrote(k, v)') + Shows(origin, k, v)
                 = Cardinality(Replaced(k, v)') + Shows(profile', k, v)
  <2>1. Cardinality(Wrote(k, v)) + Shows(origin, k, v) = Cardinality(Replaced(k, v)) + Shows(profile, k, v)
    BY DEF Balanced
  <2>2. /\ IsFiniteSet(Wrote(k, v)) /\ Cardinality(Wrote(k, v)) \in Nat
        /\ IsFiniteSet(Replaced(k, v)) /\ Cardinality(Replaced(k, v)) \in Nat
    BY CountsFinite
  <2>3. Wrote(k, v)' = Wrote(k, v) \ {p} /\ Replaced(k, v)' = Replaced(k, v) \ {p}
    BY <1>1, <1>3 DEF Wrote, Replaced
  <2>4. /\ p \in Wrote(k, v) <=> k \in S /\ profile[k] = v
        /\ p \in Replaced(k, v) <=> k \in S /\ profile'[k] = v
    BY <1>1, <1>3 DEF Wrote, Replaced, Reverses
  <2>5. Cardinality(Wrote(k, v)')
          = IF k \in S /\ profile[k] = v THEN Cardinality(Wrote(k, v)) - 1 ELSE Cardinality(Wrote(k, v))
    BY <2>2, <2>3, <2>4, FS_RemoveElement
  <2>6. Cardinality(Replaced(k, v)')
          = IF k \in S /\ profile'[k] = v THEN Cardinality(Replaced(k, v)) - 1 ELSE Cardinality(Replaced(k, v))
    BY <2>2, <2>3, <2>4, FS_RemoveElement
  <2>7. k \notin S => profile'[k] = profile[k] BY DEF Reverses
  <2> QED BY <2>1, <2>2, <2>5, <2>6, <2>7 DEF Shows
<1>5. Balanced' BY <1>3, <1>4 DEF Balanced, Shows
<1> QED BY <1>2, <1>5

\* With nothing applied the profile is where it began.
LEMMA NothingApplied ==
    ASSUME Typed, Balanced, \A p \in Plans : status[p] # "applied"
    PROVE  profile = origin
<1>1. Applied = {} BY DEF Applied
<1>2. ASSUME NEW k \in Keys PROVE profile[k] = origin[k]
  <2> DEFINE v == origin[k]
  <2>1. v \in States BY DEF Typed
  <2>2. Wrote(k, v) = {} /\ Replaced(k, v) = {} BY <1>1 DEF Wrote, Replaced
  <2>3. Cardinality({}) = 0 BY FS_EmptySet
  <2>4. Cardinality(Wrote(k, v)) + Shows(origin, k, v) = Cardinality(Replaced(k, v)) + Shows(profile, k, v)
    BY <2>1 DEF Balanced
  <2>5. Shows(origin, k, v) = 1 /\ Shows(profile, k, v) \in {0, 1} BY DEF Shows
  <2>6. Shows(profile, k, v) = 1 BY <2>2, <2>3, <2>4, <2>5
  <2> QED BY <2>6 DEF Shows
<1> QED BY <1>2 DEF Typed

-----------------------------------------------------------------------------
(* The theorems.                                                             *)

\* At first nothing is applied and the profile is the origin.
LEMMA InitInv == Init => IndInv
<1> SUFFICES ASSUME Init PROVE IndInv OBVIOUS
<1>1. NoRows \in RowSets
  <2>1. NoRows \in [{} -> States] BY DEF NoRows
  <2> QED BY <2>1 DEF RowSets
<1>2. origin \in [Keys -> States] BY DEF Init
<1>3. Typed BY <1>1, <1>2 DEF Init, Typed, Statuses, IdleJob
<1>4. Applied = {} BY DEF Init, Applied
<1>5. Balanced
  <2>1. \A k, v : Wrote(k, v) = {} /\ Replaced(k, v) = {} BY <1>4 DEF Wrote, Replaced
  <2>2. profile = origin BY DEF Init
  <2> QED BY <2>1, <2>2 DEF Balanced
<1> QED BY <1>3, <1>4, <1>5, FS_EmptySet DEF IndInv

\* Every step keeps the invariant.
LEMMA NextInv == IndInv /\ [Next]_vars => IndInv'
<1> SUFFICES ASSUME IndInv, [Next]_vars PROVE IndInv' OBVIOUS
<1>1. Typed /\ IsFiniteSet(Applied) /\ (edits = 0 => Balanced) BY DEF IndInv
<1>2. CASE UNCHANGED vars
  BY <1>1, <1>2 DEF IndInv, Typed, Balanced, Wrote, Replaced, Applied, Shows, vars, rows, ledger
<1>3. CASE Next
  <2>1. Typed' BY <1>1, <1>3, StepEffect
  <2>2. CASE Still
    BY <1>1, <2>1, <2>2 DEF Still, IndInv, Balanced, Wrote, Replaced, Shows
  <2>3. CASE Edited BY <1>1, <2>1, <2>3 DEF Edited, IndInv
  <2>4. ASSUME NEW p \in Plans, NEW S \in SUBSET Keys, Applies(p, S) PROVE IndInv'
    <3>1. edits' = edits BY <2>4 DEF Applies
    <3>2. IsFiniteSet(Applied')
      <4>1. Applied' = Applied \cup {p} BY <1>1, <2>4 DEF Typed, Applied, Applies
      <4> QED BY <1>1, <4>1, FS_AddElement
    <3> QED BY <1>1, <2>1, <2>4, <3>1, <3>2, ApplyingBalances DEF IndInv
  <2>5. ASSUME NEW p \in Plans, Reverses(p) PROVE IndInv'
    <3>1. edits' = edits BY <2>5 DEF Reverses
    <3>2. IsFiniteSet(Applied')
      <4>1. Applied' = Applied \ {p} BY <1>1, <2>5 DEF Typed, Applied, Reverses
      <4> QED BY <1>1, <4>1, FS_RemoveElement
    <3> QED BY <1>1, <2>1, <2>5, <3>1, <3>2, ReversingBalances DEF IndInv
  <2> QED BY <1>1, <1>3, <2>2, <2>3, <2>4, <2>5, StepEffect
<1> QED BY <1>2, <1>3

\* The invariant holds in every state.
LEMMA Inductive == Spec => []IndInv
BY InitInv, NextInv, PTL DEF Spec

\* Whatever plans were applied over each other and in whatever order they were
\* reversed, without edits the profile is back where it began when none is
\* applied.
THEOREM RoundTripExact == Spec => []RoundTrip
<1>1. IndInv => RoundTrip BY NothingApplied DEF IndInv, RoundTrip
<1> QED BY <1>1, Inductive, PTL

\* The step that makes a plan applied is the apply of an executor that holds it.
LEMMA OnlyApplyApplies ==
    ASSUME Typed, Next, NEW p \in Plans, status'[p] = "applied", status[p] # "applied"
    PROVE  \E e \in Executors : Apply(e) /\ job[e].plan = p
<1>1. status \in [Plans -> Statuses] BY DEF Typed
<1>2. ASSUME NEW q \in Plans, NEW s, s # "applied", status' = [status EXCEPT ![q] = s] PROVE FALSE
  BY <1>1, <1>2
<1>3. ASSUME status' = status PROVE FALSE BY <1>3
<1>4. ASSUME NEW e \in Executors, job[e].plan # None PROVE job[e].plan \in Plans BY <1>4 DEF Typed
<1>5. ASSUME NEW q \in Plans,
             \/ \E by \in {"user", "automation"} : Approve(q, by)
             \/ Cancel(q) \/ Reverse(q) \/ Doubt(q) \/ Reassess(q)
             \/ \E e \in Executors : Look(e, q)
      PROVE  FALSE
  BY <1>2, <1>3, <1>5 DEF Approve, Cancel, Reverse, Doubt, Reassess, Look, ledger
<1>6. ASSUME NEW e \in Executors, Block(e) \/ Leave(e) PROVE FALSE
  BY <1>2, <1>3, <1>4, <1>6 DEF Block, Leave, Pending, ledger
<1>7. ASSUME NEW t \in Tickers,
             (\E l \in Lists : SetMember(l, t)) \/ ArchiveTicker(t) \/ SetHidden(t) \/ SetHeld(t)
      PROVE  FALSE
  BY <1>3, <1>7 DEF SetMember, ArchiveTicker, SetHidden, SetHeld, ledger
<1>8. PICK e \in Executors : Apply(e) BY <1>5, <1>6, <1>7 DEF Next, Execute
<1>9. job[e].plan \in Plans /\ status' = [status EXCEPT ![job[e].plan] = "applied"]
  BY <1>4, <1>8 DEF Apply, Pending
<1>10. job[e].plan = p BY <1>1, <1>9
<1> QED BY <1>8, <1>10

\* A plan becomes applied only while its approval stands, and on rows and
\* positions that are those its approval showed, whoever acted between the
\* approval, the preview and the transaction.
THEOREM AppliedOnlyAsApproved == Spec => AppliedAsApproved
<1> DEFINE A == \A p \in Plans : status'[p] = "applied" /\ status[p] # "applied"
                  => /\ status[p] = "approved"
                     /\ approved[p].deps = Deps(p)
                     /\ approved[p].held = held \cap Involved(p)
                     /\ p \in assessed
<1>1. IndInv /\ [Next]_vars => [A]_vars
  <2>1. SUFFICES ASSUME IndInv, Next PROVE A OBVIOUS
  <2>2. SUFFICES ASSUME NEW p \in Plans, status'[p] = "applied", status[p] # "applied"
                 PROVE  /\ status[p] = "approved"
                        /\ approved[p].deps = Deps(p)
                        /\ approved[p].held = held \cap Involved(p)
                        /\ p \in assessed
    OBVIOUS
  <2>3. PICK e \in Executors : Apply(e) /\ job[e].plan = p
    BY <2>1, <2>2, OnlyApplyApplies DEF IndInv
  <2> QED BY <2>3 DEF Apply, Pending, Confirmed
<1> QED BY <1>1, Inductive, PTL DEF Spec, AppliedAsApproved
=============================================================================
