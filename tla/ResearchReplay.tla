---------------------------- MODULE ResearchReplay ----------------------------
(***************************************************************************)
(* A browser attached to a run.  GET /research/runs/{id}/events returns the *)
(* status and one page of events of a single snapshot; pollRun (Research.tsx *)
(* of the web client) keeps a cursor, filters frames by the status it was    *)
(* given (researchRunReplay.ts) and stops at a terminal status with no page  *)
(* left.  The client composes with every step of ResearchRuns.               *)
(***************************************************************************)
EXTENDS ResearchRuns

CONSTANTS PageSize,     \* _RUN_EVENT_PAGE_SIZE
          MaxAttach     \* bound on the times the client attaches

ASSUME PageAssumption == PageSize \in Nat \ {0} /\ MaxAttach \in Nat

VARIABLES reader,       \* the client's poll loop
          attached      \* how often it was started

replayVars == <<vars, reader, attached>>

Detached == [state |-> "detached", run |-> NoRun, cursor |-> 0, shown |-> {}]

\* opening a thread with an active run, or creating one, starts the loop from seq 0
Attach(r) ==
    /\ attached < MaxAttach /\ attached' = attached + 1
    /\ status[r] \in Active
    /\ reader' = [state |-> "polling", run |-> r, cursor |-> 0, shown |-> {}]
    /\ UNCHANGED vars

Detach ==
    /\ reader.state = "polling"
    /\ reader' = Detached
    /\ UNCHANGED <<vars, attached>>

\* shouldApplyResearchEvent: a terminal frame must agree with the status it came with
ShouldApply(st, event) == event \in Terminal => event = st

\* (mutant) the terminal status alone ends the loop
NeverMore(r, after) == FALSE

\* get_run_with_events(after = cursor, limit = PageSize + 1) and the page cut from it
Page(r, after) == {i \in 1..Len(events[r]) : after < i /\ i <= after + PageSize}
HasMore(r, after) == Len(events[r]) > after + PageSize

\* after = Math.max(after, event.seq), for each event of the page
NextCursor(page, after) ==
    IF page = {} THEN after ELSE CHOOSE i \in page : \A j \in page : j <= i

\* has_persistence_failure of the store the request resolves
Reported(r) == status[r] \in Active /\ <<cached, r>> \in notes

PollPage ==
    LET r == reader.run
        page == Page(r, reader.cursor)
    IN
    /\ reader.state = "polling" /\ cached # NoStore
    /\ status[r] \in Active \cup Terminal /\ ~Reported(r)
    /\ reader' = [reader EXCEPT
          !.cursor = NextCursor(page, @),
          !.shown = @ \cup {i \in page : ShouldApply(status[r], events[r][i])},
          !.state = IF status[r] \in Terminal /\ ~HasMore(r, reader.cursor) THEN "ended" ELSE @]
    /\ UNCHANGED <<vars, attached>>

\* 404 of a deleted run, 503 of a noted one, no answer while the sidecar restarts
PollFails ==
    LET r == reader.run IN
    /\ reader.state = "polling"
    /\ cached = NoStore \/ status[r] \notin Active \cup Terminal \/ Reported(r)
    /\ reader' = [reader EXCEPT !.state = "failed"]
    /\ UNCHANGED <<vars, attached>>

ReplayInit == Init /\ reader = Detached /\ attached = 0

ReaderStep == (\E r \in Runs : Attach(r)) \/ Detach \/ PollPage \/ PollFails

ReplayNext == (Next /\ UNCHANGED <<reader, attached>>) \/ ReaderStep

ReplaySpec == ReplayInit /\ [][ReplayNext]_replayVars

\* A client whose loop ended has shown every progress frame and exactly one outcome,
\* the run's own: no lost page, no stale frame, no "connection lost" bubble made up
\* for a run that did finish (pollRun, list_research_run_events).
ReplayComplete ==
    LET r == reader.run IN
    reader.state = "ended" /\ status[r] # "deleted" =>
        reader.shown = {i \in 1..Len(events[r]) : events[r][i] = "progress"} \cup {Len(events[r])}
=============================================================================
