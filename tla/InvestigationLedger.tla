-------------------------- MODULE InvestigationLedger --------------------------
(***************************************************************************)
(* What a reader of the lifecycle-investigation journal is promised: a job  *)
(* is submitted once and its outcome, once shown, never changes; a job has  *)
(* at most one model call without an answer, and a job that ends while one  *)
(* is unanswered ends as "unknown" and as nothing else.                     *)
(***************************************************************************)
CONSTANT Jobs

VARIABLES
    outcome,      \* [Jobs -> "absent", "running" or how the job ended]
    outstanding   \* the jobs with a model call that has no recorded answer

ledgerVars == <<outcome, outstanding>>

Settled == {"succeeded", "incomplete", "failed", "cancelled"}

Init ==
    /\ outcome = [j \in Jobs |-> "absent"]
    /\ outstanding = {}

Submit(j) ==
    /\ outcome[j] = "absent"
    /\ outcome' = [outcome EXCEPT ![j] = "running"]
    /\ UNCHANGED outstanding

Ask(j) ==
    /\ outcome[j] = "running" /\ j \notin outstanding
    /\ outstanding' = outstanding \cup {j}
    /\ UNCHANGED outcome

Answered(j) ==
    /\ outcome[j] = "running" /\ j \in outstanding
    /\ outstanding' = outstanding \ {j}
    /\ UNCHANGED outcome

Decide(j) ==
    /\ outcome[j] = "running"
    /\ \E s \in (IF j \in outstanding THEN {"unknown"} ELSE Settled) :
          outcome' = [outcome EXCEPT ![j] = s]
    /\ UNCHANGED outstanding

Next == \E j \in Jobs : Submit(j) \/ Ask(j) \/ Answered(j) \/ Decide(j)

Spec == Init /\ [][Next]_ledgerVars
=============================================================================
