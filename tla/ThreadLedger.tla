----------------------------- MODULE ThreadLedger -----------------------------
(***************************************************************************)
(* What the AI Research store promises of a thread: one admission slot and  *)
(* a ledger of published results.  A run enters an empty slot; the step     *)
(* that empties the slot is the step that publishes exactly one result of   *)
(* the run ("Commit answer, completion event and status before releasing    *)
(* admission", research_runs.py).  A thread is dropped only when idle.      *)
(***************************************************************************)
CONSTANTS Threads, Runs, NoRun

VARIABLES
    slot,    \* [Threads -> the admitted run, or NoRun]
    ledger   \* [Threads -> set of <<run, "ok" | "error">>]

ledgerVars == <<slot, ledger>>

Results == {"ok", "error"}

Published == {r \in Runs : \E t \in Threads, k \in Results : <<r, k>> \in ledger[t]}

Init ==
    /\ slot \in [Threads -> Runs \cup {NoRun}]
    /\ \A t, u \in Threads : slot[t] = slot[u] /\ slot[t] # NoRun => t = u
    /\ ledger = [t \in Threads |-> {}]

Admit(t, r) ==
    /\ slot[t] = NoRun
    /\ \A u \in Threads : slot[u] # r
    /\ r \notin Published
    /\ slot' = [slot EXCEPT ![t] = r]
    /\ UNCHANGED ledger

\* the runs of the threads in T end together; a restart ends all of them
Publish(T) ==
    /\ \A t \in T : slot[t] # NoRun
    /\ slot' = [t \in Threads |-> IF t \in T THEN NoRun ELSE slot[t]]
    /\ \E result \in [T -> Results] :
          ledger' = [t \in Threads |->
             IF t \in T THEN ledger[t] \cup {<<slot[t], result[t]>>} ELSE ledger[t]]

Drop(t) ==
    /\ slot[t] = NoRun
    /\ ledger' = [ledger EXCEPT ![t] = {}]
    /\ UNCHANGED slot

Next ==
    \/ \E t \in Threads, r \in Runs : Admit(t, r)
    \/ \E T \in SUBSET Threads : Publish(T)
    \/ \E t \in Threads : Drop(t)

Spec == Init /\ [][Next]_ledgerVars
=============================================================================
