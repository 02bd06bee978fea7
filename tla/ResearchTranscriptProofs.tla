------------------------ MODULE ResearchTranscriptProofs ------------------------
(***************************************************************************)
(* Proofs about the transcripts of ResearchRuns: what a run leaves in its   *)
(* thread, what the next question is given of it, the ledger of results the *)
(* store implements, and what an attached client has shown of a run         *)
(* (ResearchReplay).  They build on the inductive invariant IInv of         *)
(* ResearchRunsProofs.                                                      *)
(*                                                                          *)
(* Of a step only its effect on the five tables and on the direct streams   *)
(* matters here.  DBStep lists the effects a step can have; each property   *)
(* is then proved once per effect instead of once per action.               *)
(***************************************************************************)
EXTENDS ResearchRunsProofs, ResearchReplay

\* A turn linked to a run is the assistant's.
WellLinked(x) == x.run # NoRun => x.role = "assistant"
LinkedTurnsAreAnswers ==
    \A t \in Threads : \A i \in 1..Len(messages[t]) : WellLinked(messages[t][i])

\* The question of a run is in the transcript of its thread.
QuestionsStored ==
    \A r \in Runs : home[r] \in Threads => asked[r] \in 1..Len(messages[home[r]])

\* A direct stream is under way only after a direct turn was counted.
DirectCounted == turns = 0 => \A t \in Threads : direct[t] = "idle"

\* A turn that an older version left of an active run follows its question.
ActivePaired ==
    turns = 0 =>
        \A r \in Runs : status[r] \in Active /\ Linked(r) # {} => asked[r] + 1 \in Linked(r)

TranscriptInv ==
    /\ NoOrphanTurns
    /\ LinkedTurnsAreAnswers
    /\ QuestionsStored
    /\ DirectCounted
    /\ SuccessIsAnswered
    /\ ContextSettled
    /\ TranscriptPaired
    /\ ActivePaired

-----------------------------------------------------------------------------
(***************************************************************************)
(* The effects.                                                             *)
(***************************************************************************)
\* what an admission and only an admission writes, and the count of direct turns
Recorded == <<asked, context, turns>>

\* Nothing a transcript shows changes: frames of a running row, thread flags, the
\* process, a stutter.
QuietStep ==
    /\ UNCHANGED <<status, home, messages, asked, context>>
    /\ \A r \in Runs :
          \/ events'[r] = events[r]
          \/ status[r] \in Active /\ events'[r] = Append(events[r], "progress")
    /\ \A t \in Threads : thread'[t] = "absent" => thread[t] = "absent"
    /\ turns' = 0 => turns = 0

\* mark_running_with_personalization
ClaimStep(r) ==
    /\ status[r] = "queued"
    /\ status' = [status EXCEPT ![r] = "running"]
    /\ UNCHANGED <<thread, home, events, messages, Recorded>>

\* terminalize_*_with_message, fail_queued_run_handoff
PublishStep(r, o) ==
    /\ r \notin Legacy /\ status[r] \in Active
    /\ Publish(r, o)
    /\ UNCHANGED <<thread, home, Recorded>>

\* reconcile_interrupted
ReconcileStepAlone == Reconcile /\ UNCHANGED <<thread, home, Recorded>>

\* create_run_with_user_message
AdmitStep(r, t, retry) ==
    /\ status[r] = "unborn" /\ ActiveOn(t) = {}
    /\ thread' = [thread EXCEPT ![t] = "current"]
    /\ status' = [status EXCEPT ![r] = "queued"]
    /\ home' = [home EXCEPT ![r] = t]
    /\ messages' = [messages EXCEPT ![t] = Append(@, Question)]
    /\ context' = [context EXCEPT ![r] = HistoryOf(messages[t], retry)]
    /\ asked' = [asked EXCEPT ![r] = Len(messages[t]) + 1]
    /\ UNCHANGED <<events, turns>>

\* append_message for a direct stream
UnlinkedStep(t, x) ==
    /\ x.run = NoRun /\ thread[t] # "absent" /\ turns # 0
    /\ messages' = [messages EXCEPT ![t] = Append(@, x)]
    /\ UNCHANGED <<thread, status, home, events, Recorded>>

DBStep ==
    \/ QuietStep
    \/ \E r \in Runs : ClaimStep(r)
    \/ \E r \in Runs, o \in Terminal : PublishStep(r, o)
    \/ ReconcileStepAlone
    \/ \E r \in Runs, t \in Threads, retry \in BOOLEAN : AdmitStep(r, t, retry)
    \/ \E t \in Threads : DeleteThread(t)
    \/ \E t \in Threads, x \in Message : UnlinkedStep(t, x)

\* Steps that leave the tables and the records alone are quiet.
LEMMA QuietIf ==
    ASSUME UNCHANGED <<thread, status, home, events, messages, Recorded>>
    PROVE  QuietStep
BY DEF QuietStep, Recorded

\* A terminalization publishes or leaves the row alone.
LEMMA ErrorEffect ==
    ASSUME IInv, NEW s, NEW r \in Runs, NEW o \in Terminal, cached # NoStore,
           TerminalizeError(s, r, o), UNCHANGED <<thread, home, Recorded>>
    PROVE  DBStep
<1>1. CASE status[r] \in Active
  <2>1. PublishStep(r, o)
    BY <1>1 DEF TerminalizeError, PublishStep, IInv, MemInv
  <2> QED
    BY <2>1 DEF DBStep
<1>2. CASE status[r] \notin Active
  BY <1>2, QuietIf DEF TerminalizeError, DBStep
<1> QED
  BY <1>1, <1>2

\* The same for an answer, accepted by a running row only.
LEMMA SuccessEffect ==
    ASSUME IInv, NEW s, NEW r \in Runs, cached # NoStore,
           TerminalizeSuccess(s, r), UNCHANGED <<thread, home, Recorded>>
    PROVE  DBStep
<1>1. CASE status[r] = "running"
  <2>1. PublishStep(r, "succeeded") /\ "succeeded" \in Terminal
    BY <1>1 DEF TerminalizeSuccess, PublishStep, IInv, MemInv, Active, Terminal
  <2> QED
    BY <2>1 DEF DBStep
<1>2. CASE status[r] # "running"
  BY <1>2, QuietIf DEF TerminalizeSuccess, DBStep
<1> QED
  BY <1>1, <1>2

\* Every stretch of an executor task has one of the effects (execute_research_run).
LEMMA TaskEffect ==
    ASSUME IInv, NEW r \in Runs, TaskStep(r)
    PROVE  DBStep
<1>1. CASE TaskStart(r)
  <2>1. UNCHANGED <<thread, home, events, messages, Recorded>>
    BY <1>1 DEF TaskStart, Recorded, ghosts, budget
  <2>2. ClaimStep(r) \/ UNCHANGED status
    BY <1>1, <2>1 DEF TaskStart, ClaimStep
  <2> QED
    BY <2>1, <2>2, QuietIf DEF DBStep
<1>2. CASE TaskReadFails(r)
  <2>1. UNCHANGED <<thread, home, events, messages, Recorded>>
    BY <1>2 DEF TaskReadFails, Recorded, ghosts
  <2>2. ClaimStep(r) \/ UNCHANGED status
    BY <1>2, <2>1 DEF TaskReadFails, ClaimStep
  <2> QED
    BY <2>1, <2>2, QuietIf DEF DBStep
<1>3. CASE TaskFrame(r)
  <2>1. UNCHANGED <<thread, status, home, messages, Recorded>>
    BY <1>3 DEF TaskFrame, Recorded, ghosts, budget
  <2>2. \A q \in Runs :
           \/ events'[q] = events[q]
           \/ status[q] \in Active /\ events'[q] = Append(events[q], "progress")
    BY <1>3 DEF TaskFrame, Active, IInv, TypeOK
  <2>3. QuietStep
    BY <2>1, <2>2 DEF QuietStep, Recorded
  <2> QED
    BY <2>3 DEF DBStep
<1>4. CASE TaskFinish(r)
  <2>1. cached # NoStore /\ UNCHANGED <<thread, home, Recorded>> /\ "failed" \in Terminal
    BY <1>4 DEF TaskFinish, IInv, MemInv, Terminal, Recorded, ghosts, budget
  <2> QED
    BY <1>4, <2>1, ErrorEffect, SuccessEffect DEF TaskFinish
<1>5. CASE TaskCancelled(r)
  <2>1. cached # NoStore /\ UNCHANGED <<thread, home, Recorded>> /\ "cancelled" \in Terminal
    BY <1>5 DEF TaskCancelled, IInv, MemInv, Terminal, Recorded, ghosts, budget
  <2> QED
    BY <1>5, <2>1, ErrorEffect DEF TaskCancelled
<1>6. CASE \/ TaskCancelledUnstarted(r) \/ TaskWriteFails(r)
           \/ \E outcome \in {"done", "error"} : TaskStreamEnds(r, outcome)
  <2>1. UNCHANGED <<thread, status, home, events, messages, Recorded>>
    BY <1>6 DEF TaskCancelledUnstarted, TaskWriteFails, TaskStreamEnds, Recorded, db, ghosts, budget
  <2> QED
    BY <2>1, QuietIf DEF DBStep
<1> QED
  BY <1>1, <1>2, <1>3, <1>4, <1>5, <1>6 DEF TaskStep

\* So has every step of a creation (create_research_run).
LEMMA CreateEffect ==
    ASSUME IInv, CreateStep
    PROVE  DBStep
<1>1. CASE \/ \E s \in Stores, t \in Threads : CreateRead(s, t)
           \/ CreateRefused \/ CreateSchedule \/ ScheduleFails \/ HandoffFails
  <2>1. UNCHANGED <<thread, status, home, events, messages, Recorded>>
    BY <1>1 DEF CreateRead, CreateRefused, CreateSchedule, ScheduleFails, HandoffFails, Recorded, db, ghosts, budget
  <2> QED
    BY <2>1, QuietIf DEF DBStep
<1>2. ASSUME NEW r \in Runs, NEW retry \in BOOLEAN, CreateAdmit(r, retry) PROVE DBStep
  <2>1. AdmitStep(r, creating.thread, retry) /\ creating.thread \in Threads
    BY <1>2 DEF CreateAdmit, Admissible, AdmitStep, IInv, MemInv, budget
  <2> QED
    BY <2>1 DEF DBStep
<1>3. CASE Handoff
  <2>1. UNCHANGED <<thread, home, Recorded>> /\ creating.run \in Runs /\ cached # NoStore
    BY <1>3 DEF Handoff, IInv, MemInv, Recorded, ghosts, budget
  <2>2. CASE status[creating.run] = "queued"
    <3>1. PublishStep(creating.run, "failed") /\ "failed" \in Terminal
      BY <1>3, <2>1, <2>2 DEF Handoff, PublishStep, IInv, MemInv, Active, Terminal
    <3> QED
      BY <2>1, <3>1 DEF DBStep
  <2>3. CASE status[creating.run] # "queued"
    BY <1>3, <2>1, <2>3, QuietIf DEF Handoff, DBStep
  <2> QED
    BY <2>2, <2>3
<1> QED
  BY <1>1, <1>2, <1>3 DEF CreateStep

\* So have the thread routes and the direct stream.
LEMMA ThreadEffect ==
    ASSUME IInv, DirectCounted, NEW t \in Threads, ThreadStep(t)
    PROVE  DBStep
<1>1. ASSUME NEW archived \in BOOLEAN, SetArchived(t, archived) PROVE DBStep
  <2>1. UNCHANGED <<status, home, events, messages, Recorded>>
    BY <1>1 DEF SetArchived, Recorded, ghosts, budget
  <2>2. \A u \in Threads : thread'[u] = "absent" => thread[u] = "absent"
    BY <1>1 DEF SetArchived, IInv, TypeOK
  <2> QED
    BY <2>1, <2>2 DEF DBStep, QuietStep, Recorded
<1>2. CASE DirectEnsure(t)
  <2>1. UNCHANGED <<status, home, events, messages, asked, context>> /\ turns' # 0
    BY <1>2 DEF DirectEnsure, ghosts, IInv, TypeOK
  <2>2. \A u \in Threads : thread'[u] = "absent" => thread[u] = "absent"
    BY <1>2 DEF DirectEnsure, IInv, TypeOK
  <2> QED
    BY <2>1, <2>2 DEF DBStep, QuietStep
<1>3. ASSUME NEW x \in Message, x.run = NoRun, AppendUnlinked(t, x), turns # 0,
             UNCHANGED <<thread, status, home, events, Recorded>>
      PROVE  DBStep
  <2>1. CASE thread[t] = "absent"
    BY <1>3, <2>1, QuietIf DEF AppendUnlinked, DBStep
  <2>2. CASE thread[t] # "absent"
    <3>1. UnlinkedStep(t, x)
      BY <1>3, <2>2 DEF AppendUnlinked, UnlinkedStep
    <3> QED
      BY <3>1, <1>3 DEF DBStep
  <2> QED
    BY <2>1, <2>2
<1>4. CASE DirectAsk(t)
  <2>1. Question \in Message /\ Question.run = NoRun
    BY DEF Question, Message, Kinds
  <2>2. UNCHANGED <<thread, status, home, events, Recorded>> /\ turns # 0
    BY <1>4 DEF DirectAsk, DirectCounted, Recorded, ghosts, budget
  <2> QED
    BY <1>3, <1>4, <2>1, <2>2 DEF DirectAsk
<1>5. CASE DirectEnd(t)
  <2>1. \A k \in Kinds : Answer(NoRun, k) \in Message /\ Answer(NoRun, k).run = NoRun
    BY DEF Answer, Message
  <2>2. UNCHANGED <<thread, status, home, events, Recorded>> /\ turns # 0
    BY <1>5 DEF DirectEnd, DirectCounted, Recorded, ghosts, budget
  <2>3. CASE UNCHANGED messages
    BY <2>2, <2>3, QuietIf DEF DBStep
  <2>4. CASE \E k \in Kinds : AppendUnlinked(t, Answer(NoRun, k))
    BY <1>3, <2>1, <2>2, <2>4
  <2> QED
    BY <1>5, <2>3, <2>4 DEF DirectEnd
<1> QED
  BY <1>1, <1>2, <1>4, <1>5 DEF ThreadStep, DBStep

\* So have the constructor of a store and the cancel routes.
LEMMA StoreEffect ==
    ASSUME IInv, NEW s \in Stores, StoreStep(s)
    PROVE  DBStep
<1>1. CASE \/ OpenStart(s) \/ OpenFails(s)
           \/ \E r \in Runs : CancelRequest(s, r) \/ CancelFails(s, r)
  <2>1. UNCHANGED <<thread, status, home, events, messages, Recorded>>
    BY <1>1 DEF OpenStart, OpenFails, CancelRequest, CancelFails, Recorded, db, ghosts, budget
  <2> QED
    BY <2>1, QuietIf DEF DBStep
<1>2. CASE OpenFinish(s)
  BY <1>2 DEF OpenFinish, ReconcileStepAlone, Recorded, ghosts, budget, DBStep
<1>3. ASSUME NEW r \in Runs, CancelTerminalize(s, r) PROVE DBStep
  <2>1. cached # NoStore /\ UNCHANGED <<thread, home, Recorded>> /\ "cancelled" \in Terminal
    BY <1>3 DEF CancelTerminalize, IInv, MemInv, Terminal, Recorded, ghosts, budget
  <2> QED
    BY <1>3, <2>1, ErrorEffect DEF CancelTerminalize
<1> QED
  BY <1>1, <1>2, <1>3 DEF StoreStep

\* Whatever the program does, its tables change by one of the effects.
LEMMA StepEffect ==
    ASSUME IInv, DirectCounted, [Next]_vars
    PROVE  DBStep
<1>1. CASE Crash
  BY <1>1, QuietIf DEF Crash, Recorded, db, ghosts, DBStep
<1>2. CASE UNCHANGED vars
  BY <1>2, QuietIf DEF vars, Recorded, db, ghosts, budget, DBStep
<1> QED
  BY <1>1, <1>2, TaskEffect, CreateEffect, ThreadEffect, StoreEffect DEF Next

-----------------------------------------------------------------------------
(***************************************************************************)
(* What the effects do to the transcripts.                                  *)
(***************************************************************************)
\* No transcript is rewritten: each keeps its turns or gets one more at its end.
Grows ==
    \A t \in Threads :
        \/ messages'[t] = messages[t]
        \/ \E x \in Message : messages'[t] = Append(messages[t], x) /\ WellLinked(x)

\* An appended turn is the last one.
LEMMA AppendedTurn ==
    ASSUME NEW m \in Seq(Message), NEW x \in Message
    PROVE  Len(Append(m, x)) = Len(m) + 1 /\ Append(m, x)[Len(m) + 1] = x
OBVIOUS

\* A transcript that grew keeps its turns at their positions.
LEMMA GrownTurns ==
    ASSUME TypeOK, Grows, NEW t \in Threads
    PROVE  /\ Len(messages[t]) \in Nat /\ Len(messages'[t]) \in Nat
           /\ Len(messages'[t]) = Len(messages[t]) \/ Len(messages'[t]) = Len(messages[t]) + 1
           /\ \A i \in 1..Len(messages[t]) : messages'[t][i] = messages[t][i]
           /\ \A i \in 1..Len(messages'[t]) : i \in 1..Len(messages[t]) \/ WellLinked(messages'[t][i])
<1>1. messages[t] \in Seq(Message) /\ Len(messages[t]) \in Nat
  BY DEF TypeOK
<1>2. CASE messages'[t] = messages[t]
  BY <1>1, <1>2
<1>3. ASSUME NEW x \in Message, messages'[t] = Append(messages[t], x), WellLinked(x)
      PROVE  /\ Len(messages'[t]) = Len(messages[t]) + 1
             /\ \A i \in 1..Len(messages[t]) : messages'[t][i] = messages[t][i]
             /\ messages'[t][Len(messages[t]) + 1] = x
  BY <1>1, <1>3
<1>4. CASE \E x \in Message : messages'[t] = Append(messages[t], x) /\ WellLinked(x)
  BY <1>1, <1>3, <1>4
<1> QED
  BY <1>2, <1>4 DEF Grows

\* The turns an executor links are answers or errors of the assistant.
LEMMA LinkedAnswersGrow ==
    ASSUME TypeOK, Grows, LinkedTurnsAreAnswers
    PROVE  LinkedTurnsAreAnswers'
<1> SUFFICES ASSUME NEW t \in Threads, NEW i \in 1..Len(messages'[t]) PROVE WellLinked(messages'[t][i])
  BY DEF LinkedTurnsAreAnswers, WellLinked
<1> QED
  BY GrownTurns DEF LinkedTurnsAreAnswers

\* A published turn: where it stands, what it says, and that nothing else moves.
LEMMA PublishEffect ==
    ASSUME IInv, NEW r \in Runs, NEW o \in Terminal, PublishStep(r, o)
    PROVE  /\ Grows
           /\ home[r] \in Threads /\ ActiveOn(home[r]) = {r} /\ Linked(r) = {}
           /\ status'[r] = o
           /\ Linked(r)' = {Len(messages[home[r]]) + 1}
           /\ \E k \in AnswerKinds(o) : messages'[home[r]][Len(messages[home[r]]) + 1] = Answer(r, k)
           /\ \A q \in Runs : q # r => status'[q] = status[q] /\ events'[q] = events[q] /\ Linked(q)' = Linked(q)
<1> DEFINE h == home[r]
<1>0. PICK k \in AnswerKinds(o) : messages' = [messages EXCEPT ![h] = Append(messages[h], Answer(r, k))]
  BY DEF Publish, PublishStep
<1> DEFINE x == Answer(r, k)
<1>1. /\ h \in Threads /\ Linked(r) = {}
      /\ x \in Message /\ x.run = r /\ WellLinked(x)
  BY DEF IInv, DBInv, RowsHaveHomes, AtomicPublication, PublishedAtomically, Answer, AnswerKinds, Message, Kinds,
         WellLinked, PublishStep
<1>2. /\ status' = [status EXCEPT ![r] = o]
      /\ events' = [events EXCEPT ![r] = Append(events[r], o)]
      /\ messages' = [messages EXCEPT ![h] = Append(messages[h], x)]
      /\ home' = home
  BY <1>0 DEF Publish, PublishStep
<1>3. messages[h] \in Seq(Message) /\ Len(messages[h]) \in Nat
  BY <1>1 DEF IInv, TypeOK
<1>4. ActiveOn(h) = {r}
  BY <1>1 DEF ActiveOn, ActiveRuns, IInv, DBInv, OneActiveRun, PublishStep
<1>5. \A t \in Threads : messages'[t] = IF t = h THEN Append(messages[h], x) ELSE messages[t]
  BY <1>2 DEF IInv, TypeOK
<1>6. \A q : LinkedIn(Append(messages[h], x), q) =
                IF q = r THEN LinkedIn(messages[h], q) \cup {Len(messages[h]) + 1} ELSE LinkedIn(messages[h], q)
  BY <1>1, <1>3, LinkedAppend
<1>7. \A q \in Runs : q # r => status'[q] = status[q] /\ events'[q] = events[q] /\ Linked(q)' = Linked(q)
  BY <1>1, <1>2, <1>5, <1>6 DEF Linked, IInv, TypeOK
<1>8. Linked(r)' = {Len(messages[h]) + 1}
  BY <1>1, <1>2, <1>5, <1>6 DEF Linked
<1> HIDE DEF x
<1>9. messages'[h][Len(messages[h]) + 1] = x
  <2>1. messages'[h] = Append(messages[h], x)
    BY <1>1, <1>5
  <2> QED
    BY <1>1, <1>3, <2>1, AppendedTurn
<1>10. Grows
  BY <1>1, <1>5 DEF Grows
<1>11. status'[r] = o
  BY <1>2 DEF IInv, TypeOK
<1> QED
  BY <1>1, <1>4, <1>7, <1>8, <1>9, <1>10, <1>11 DEF x

\* Reconciliation: an active run that has no turn gets an error turn at the end of
\* its thread, one that has a turn keeps it, and a success is a recovered one.
LEMMA ReconcileEffect ==
    ASSUME IInv, ReconcileStepAlone
    PROVE  /\ Grows
           /\ \A q \in Runs : status[q] \notin Active =>
                 status'[q] = status[q] /\ events'[q] = events[q] /\ Linked(q)' = Linked(q)
           /\ \A q \in Runs : status[q] \in Active =>
                 /\ status'[q] \in Terminal
                 /\ Linked(q) # {} => Linked(q)' = Linked(q)
                 /\ Linked(q) = {} =>
                       /\ Linked(q)' = {Len(messages[home[q]]) + 1}
                       /\ messages'[home[q]][Len(messages[home[q]]) + 1].kind = "error"
                 /\ status'[q] = "succeeded" =>
                       \E i \in Linked(q) : messages[home[q]][i].kind \in AnswerKinds("succeeded")
<1>1. TypeOK /\ DBInv /\ Reconcile /\ UNCHANGED home
  BY DEF IInv, ReconcileStepAlone
<1>2. Grows
  <2> SUFFICES ASSUME NEW t \in Threads
               PROVE  \/ messages'[t] = messages[t]
                      \/ \E x \in Message : messages'[t] = Append(messages[t], x) /\ WellLinked(x)
    BY DEF Grows
  <2> DEFINE p == CHOOSE r \in ActiveOn(t) : Linked(r) = {}
  <2>1. CASE \E r \in ActiveOn(t) : Linked(r) = {}
    <3>1. p \in Runs /\ messages'[t] = Append(messages[t], Answer(p, "error"))
      BY <1>1, <2>1 DEF Reconcile, ActiveOn, ActiveRuns
    <3> HIDE DEF p
    <3>2. Answer(p, "error") \in Message /\ WellLinked(Answer(p, "error"))
      BY <3>1 DEF Answer, Message, Kinds, WellLinked
    <3> QED
      BY <3>1, <3>2
  <2>2. CASE ~ \E r \in ActiveOn(t) : Linked(r) = {}
    BY <1>1, <2>2 DEF Reconcile
  <2> QED
    BY <2>1, <2>2
<1>3. \A q \in Runs : status[q] \notin Active =>
         status'[q] = status[q] /\ events'[q] = events[q] /\ Linked(q)' = Linked(q)
  BY <1>1, ReconcileStep, ReconcileLinked
<1>4. ASSUME NEW q \in Runs, status[q] \in Active
      PROVE  /\ status'[q] \in Terminal
             /\ Linked(q) # {} => Linked(q)' = Linked(q)
             /\ Linked(q) = {} =>
                   /\ Linked(q)' = {Len(messages[home[q]]) + 1}
                   /\ messages'[home[q]][Len(messages[home[q]]) + 1].kind = "error"
             /\ status'[q] = "succeeded" =>
                   \E i \in Linked(q) : messages[home[q]][i].kind \in AnswerKinds("succeeded")
  <2>1. status'[q] \in Terminal /\ (Linked(q) # {} => Linked(q)' = Linked(q)) /\ home[q] \in Threads
    BY <1>1, <1>4, ReconcileStep, ReconcileLinked DEF DBInv, RowsHaveHomes
  <2>2. ASSUME Linked(q) = {}
        PROVE  /\ Linked(q)' = {Len(messages[home[q]]) + 1}
               /\ messages'[home[q]][Len(messages[home[q]]) + 1].kind = "error"
    <3>1. PICK i \in Linked(q)' : Linked(q)' = {i} /\ messages'[home[q]][i].kind = "error"
      BY <1>1, <1>4, <2>2, ReconcileLinked
    <3>2. i \in 1..Len(messages'[home[q]]) /\ messages'[home[q]][i].run = q
      BY <1>1, <2>1, <3>1 DEF Linked, LinkedIn
    <3>3. i \notin 1..Len(messages[home[q]])
      BY <1>1, <1>2, <2>1, <2>2, <3>2, GrownTurns DEF Linked, LinkedIn
    <3>4. i = Len(messages[home[q]]) + 1
      BY <1>1, <1>2, <2>1, <3>2, <3>3, GrownTurns
    <3> QED
      BY <3>1, <3>4
  <2>3. ASSUME status'[q] = "succeeded"
        PROVE  \E i \in Linked(q) : messages[home[q]][i].kind \in AnswerKinds("succeeded")
    <3>1. Recovered(q) /\ events[q][Len(events[q])] = "succeeded"
      BY <1>1, <1>4, <2>3 DEF Reconcile
    <3> QED
      BY <3>1 DEF Recovered
  <2> QED
    BY <2>1, <2>2, <2>3
<1> QED
  BY <1>2, <1>3, <1>4

\* An admitted question links nothing, in any thread.
LEMMA AdmitEffect ==
    ASSUME IInv, NEW r \in Runs, NEW t \in Threads, NEW retry \in BOOLEAN, AdmitStep(r, t, retry)
    PROVE  /\ Grows
           /\ Len(messages'[t]) = Len(messages[t]) + 1
           /\ status'[r] = "queued" /\ home'[r] = t /\ asked'[r] = Len(messages[t]) + 1
           /\ context'[r] = HistoryOf(messages[t], retry)
           /\ Linked(r)' = {}
           /\ \A q \in Runs : q # r =>
                 /\ status'[q] = status[q] /\ home'[q] = home[q] /\ Linked(q)' = Linked(q)
                 /\ asked'[q] = asked[q] /\ context'[q] = context[q]
           /\ \A q \in Runs : home[q] = t => status[q] \in Terminal /\ q # r
           /\ \A u \in Threads : messages'[u] = IF u = t THEN Append(messages[t], Question) ELSE messages[u]
<1>1. messages[t] \in Seq(Message) /\ Question \in Message /\ WellLinked(Question) /\ Question.run = NoRun
  BY DEF IInv, TypeOK, Question, Message, Kinds, WellLinked
<1>2. \A u \in Threads : messages'[u] = IF u = t THEN Append(messages[t], Question) ELSE messages[u]
  BY DEF AdmitStep, IInv, TypeOK
<1>3. Grows
  BY <1>1, <1>2 DEF Grows
<1>4. \A q \in Runs, u \in Threads : LinkedIn(messages'[u], q) = LinkedIn(messages[u], q)
  BY <1>1, <1>2, LinkedAppend, RunsAssumption
<1>5. /\ status'[r] = "queued" /\ home'[r] = t /\ asked'[r] = Len(messages[t]) + 1
      /\ context'[r] = HistoryOf(messages[t], retry)
      /\ \A q \in Runs : q # r => /\ status'[q] = status[q] /\ home'[q] = home[q]
                                  /\ asked'[q] = asked[q] /\ context'[q] = context[q]
  BY DEF AdmitStep, IInv, TypeOK
<1>6. home[r] \notin Threads
  BY DEF AdmitStep, IInv, DBInv, RowsHaveHomes, Active, Terminal
<1>7. \A q \in Runs : home[q] = t => status[q] \in Terminal /\ q # r
  BY <1>6 DEF AdmitStep, IInv, DBInv, RowsHaveHomes, ActiveOn, ActiveRuns
<1>8. LinkedIn(messages[t], r) = {}
  BY <1>6, RunsAssumption DEF LinkedIn, IInv, DBInv, TurnsStayHome
<1>9. Linked(r)' = {}
  BY <1>4, <1>5, <1>8 DEF Linked
<1>10. \A q \in Runs : q # r => Linked(q)' = Linked(q)
  BY <1>4, <1>5 DEF Linked
<1>11. Len(messages'[t]) = Len(messages[t]) + 1
  BY <1>1, <1>2, AppendedTurn
<1> QED
  BY <1>2, <1>3, <1>5, <1>7, <1>9, <1>10, <1>11

\* A direct turn links nothing either.
LEMMA UnlinkedEffect ==
    ASSUME IInv, NEW t \in Threads, NEW x \in Message, UnlinkedStep(t, x)
    PROVE  Grows /\ \A q \in Runs : Linked(q)' = Linked(q)
<1>1. messages[t] \in Seq(Message) /\ WellLinked(x) /\ x.run = NoRun /\ home' = home
  BY DEF IInv, TypeOK, WellLinked, UnlinkedStep
<1>2. \A u \in Threads : messages'[u] = IF u = t THEN Append(messages[t], x) ELSE messages[u]
  BY DEF UnlinkedStep, IInv, TypeOK
<1>3. \A q \in Runs, u \in Threads : LinkedIn(messages'[u], q) = LinkedIn(messages[u], q)
  BY <1>1, <1>2, LinkedAppend, RunsAssumption
<1> QED
  BY <1>1, <1>2, <1>3 DEF Grows, Linked

\* A deletion empties one thread and forgets its runs.
LEMMA DeleteEffect ==
    ASSUME IInv, NEW t \in Threads, DeleteThread(t)
    PROVE  /\ messages'[t] = <<>> /\ ActiveOn(t) = {}
           /\ \A u \in Threads : u # t => messages'[u] = messages[u] /\ thread'[u] = thread[u]
           /\ \A q \in Runs : home[q] = t => status'[q] = "deleted" /\ home'[q] = NoThread
           /\ \A q \in Runs : home[q] # t =>
                 status'[q] = status[q] /\ home'[q] = home[q] /\ events'[q] = events[q] /\ Linked(q)' = Linked(q)
           /\ UNCHANGED Recorded
<1>1. /\ messages' = [messages EXCEPT ![t] = <<>>] /\ ActiveOn(t) = {}
      /\ thread' = [thread EXCEPT ![t] = "absent"]
      /\ \A q \in Runs : home[q] = t => status'[q] = "deleted" /\ home'[q] = NoThread
      /\ \A q \in Runs : home[q] # t => status'[q] = status[q] /\ home'[q] = home[q] /\ events'[q] = events[q]
  BY DEF DeleteThread
<1>2. /\ messages'[t] = <<>>
      /\ \A u \in Threads : u # t => messages'[u] = messages[u] /\ thread'[u] = thread[u]
  BY <1>1 DEF IInv, TypeOK
<1>3. \A q \in Runs : home[q] # t => Linked(q)' = Linked(q)
  BY <1>1, <1>2 DEF Linked
<1>4. UNCHANGED Recorded
  BY DEF DeleteThread, Recorded, ghosts, budget
<1> QED
  BY <1>1, <1>2, <1>3, <1>4

-----------------------------------------------------------------------------
(***************************************************************************)
(* Finality: no effect but a deletion touches a terminal run.               *)
(***************************************************************************)
Kept(r) ==
    /\ status'[r] = status[r]
    /\ events'[r] = events[r]
    /\ home'[r] = home[r]
    /\ Linked(r)' = Linked(r)

\* A terminal run is kept as it is or deleted with its thread.
LEMMA FinalEffect ==
    ASSUME IInv, DBStep, NEW r \in Runs, status[r] \in Terminal
    PROVE  \/ Kept(r)
           \/ status'[r] = "deleted" /\ \E t \in Threads : DeleteThread(t) /\ home[r] = t
<1>1. status[r] \notin Active /\ status[r] \notin {"queued", "unborn"}
  BY DEF Active, Terminal
<1>2. CASE QuietStep
  BY <1>1, <1>2 DEF QuietStep, Kept, Linked
<1>3. ASSUME NEW q \in Runs, ClaimStep(q) PROVE Kept(r)
  BY <1>1, <1>3 DEF ClaimStep, Kept, Linked, IInv, TypeOK
<1>4. ASSUME NEW q \in Runs, NEW o \in Terminal, PublishStep(q, o) PROVE Kept(r)
  <2>1. q # r /\ home' = home
    BY <1>1, <1>4 DEF PublishStep
  <2> QED
    BY <1>4, <2>1, PublishEffect DEF Kept
<1>5. CASE ReconcileStepAlone
  BY <1>1, <1>5, ReconcileEffect DEF Kept, ReconcileStepAlone
<1>6. ASSUME NEW q \in Runs, NEW t \in Threads, NEW retry \in BOOLEAN, AdmitStep(q, t, retry) PROVE Kept(r)
  <2>1. q # r /\ events' = events
    BY <1>1, <1>6 DEF AdmitStep
  <2> QED
    BY <1>6, <2>1, AdmitEffect DEF Kept
<1>7. ASSUME NEW t \in Threads, DeleteThread(t)
      PROVE  \/ Kept(r)
             \/ status'[r] = "deleted" /\ \E u \in Threads : DeleteThread(u) /\ home[r] = u
  BY <1>7, DeleteEffect DEF Kept
<1>8. ASSUME NEW t \in Threads, NEW x \in Message, UnlinkedStep(t, x) PROVE Kept(r)
  BY <1>8, UnlinkedEffect DEF UnlinkedStep, Kept
<1> QED
  BY <1>2, <1>3, <1>4, <1>5, <1>6, <1>7, <1>8 DEF DBStep

-----------------------------------------------------------------------------
(***************************************************************************)
(* The conjuncts of TranscriptInv, one lemma each.                          *)
(***************************************************************************)
\* Turns are written into existing threads only, and a deletion takes all of them.
LEMMA OrphansStep ==
    ASSUME IInv, NoOrphanTurns, DBStep
    PROVE  NoOrphanTurns'
<1> SUFFICES ASSUME NEW t \in Threads, thread'[t] = "absent" PROVE messages'[t] = <<>>
  BY DEF NoOrphanTurns
<1>1. thread[t] = "absent" => messages[t] = <<>> /\ ActiveOn(t) = {}
  BY DEF NoOrphanTurns, ActiveOn, IInv, DBInv, ActiveThreadIsCurrent
<1>2. CASE QuietStep
  BY <1>1, <1>2 DEF QuietStep
<1>3. ASSUME NEW q \in Runs, ClaimStep(q) PROVE messages'[t] = <<>>
  BY <1>1, <1>3 DEF ClaimStep
<1>4. ASSUME NEW q \in Runs, NEW o \in Terminal, PublishStep(q, o) PROVE messages'[t] = <<>>
  <2>1. home[q] # t /\ thread[t] = "absent"
    BY <1>1, <1>4, PublishEffect DEF PublishStep
  <2> QED
    BY <1>1, <1>4, <2>1 DEF PublishStep, Publish, IInv, TypeOK
<1>5. CASE ReconcileStepAlone
  BY <1>1, <1>5 DEF ReconcileStepAlone, Reconcile
<1>6. ASSUME NEW q \in Runs, NEW u \in Threads, NEW retry \in BOOLEAN, AdmitStep(q, u, retry)
      PROVE messages'[t] = <<>>
  BY <1>1, <1>6 DEF AdmitStep, IInv, TypeOK
<1>7. ASSUME NEW u \in Threads, DeleteThread(u) PROVE messages'[t] = <<>>
  BY <1>1, <1>7, DeleteEffect
<1>8. ASSUME NEW u \in Threads, NEW x \in Message, UnlinkedStep(u, x) PROVE messages'[t] = <<>>
  BY <1>1, <1>8 DEF UnlinkedStep, IInv, TypeOK
<1> QED
  BY <1>2, <1>3, <1>4, <1>5, <1>6, <1>7, <1>8 DEF DBStep

\* Linked turns are answers: no step links a turn of any other sort.
LEMMA AnswersStep ==
    ASSUME IInv, LinkedTurnsAreAnswers, DBStep
    PROVE  LinkedTurnsAreAnswers'
<1>1. CASE UNCHANGED messages
  BY <1>1 DEF LinkedTurnsAreAnswers, WellLinked
<1>2. CASE Grows
  BY <1>2, LinkedAnswersGrow DEF IInv
<1>3. ASSUME NEW t \in Threads, DeleteThread(t) PROVE LinkedTurnsAreAnswers'
  <2> SUFFICES ASSUME NEW u \in Threads, NEW i \in 1..Len(messages'[u]) PROVE WellLinked(messages'[u][i])
    BY DEF LinkedTurnsAreAnswers, WellLinked
  <2>1. messages'[u] = messages[u]
    BY <1>3, DeleteEffect
  <2> QED
    BY <2>1 DEF LinkedTurnsAreAnswers
<1> QED
  BY <1>1, <1>2, <1>3, PublishEffect, ReconcileEffect, AdmitEffect, UnlinkedEffect
     DEF DBStep, QuietStep, ClaimStep

\* The question of a run stays where the admission put it.
LEMMA QuestionsStep ==
    ASSUME IInv, QuestionsStored, DBStep
    PROVE  QuestionsStored'
<1>1. ASSUME UNCHANGED <<home, asked>>, UNCHANGED messages \/ Grows PROVE QuestionsStored'
  <2>1. \A t \in Threads : 1..Len(messages[t]) \subseteq 1..Len(messages'[t])
    BY <1>1, GrownTurns DEF IInv
  <2> QED
    BY <1>1, <2>1 DEF QuestionsStored
<1>2. ASSUME NEW r \in Runs, NEW t \in Threads, NEW retry \in BOOLEAN, AdmitStep(r, t, retry)
      PROVE  QuestionsStored'
  <2>1. \A u \in Threads : 1..Len(messages[u]) \subseteq 1..Len(messages'[u])
    BY <1>2, AdmitEffect, GrownTurns DEF IInv
  <2>2. Len(messages[t]) + 1 \in 1..Len(messages'[t])
    BY <1>2, AdmitEffect, GrownTurns DEF IInv
  <2> QED
    BY <1>2, <2>1, <2>2, AdmitEffect DEF QuestionsStored
<1>3. ASSUME NEW t \in Threads, DeleteThread(t) PROVE QuestionsStored'
  <2>1. NoThread \notin Threads
    BY RunsAssumption
  <2> QED
    BY <1>3, <2>1, DeleteEffect DEF QuestionsStored, Recorded
<1> QED
  BY <1>1, <1>2, <1>3, PublishEffect, ReconcileEffect, UnlinkedEffect
     DEF DBStep, QuietStep, ClaimStep, PublishStep, ReconcileStepAlone, UnlinkedStep, Recorded

\* Direct streams start by counting their turn.
LEMMA DirectStep ==
    ASSUME IInv, DirectCounted, [Next]_vars
    PROVE  DirectCounted'
<1>1. ASSUME UNCHANGED <<direct, turns>> PROVE DirectCounted'
  BY <1>1 DEF DirectCounted
<1>2. ASSUME NEW r \in Runs, TaskStep(r) PROVE UNCHANGED <<direct, turns>>
  BY <1>2 DEF TaskStep, TaskStart, TaskCancelledUnstarted, TaskFrame, TaskStreamEnds, TaskFinish, TaskCancelled,
     TaskWriteFails, TaskReadFails, budget
<1>3. CASE CreateStep
  <2>1. UNCHANGED <<direct, turns>>
    BY <1>3 DEF CreateStep, CreateRead, CreateAdmit, CreateRefused, CreateSchedule, ScheduleFails, Handoff,
       HandoffFails, budget
  <2> QED
    BY <1>1, <2>1
<1>4. ASSUME NEW t \in Threads, ThreadStep(t) PROVE DirectCounted'
  <2>1. CASE DirectEnsure(t)
    BY <2>1 DEF DirectEnsure, DirectCounted, IInv, TypeOK
  <2>2. CASE DirectAsk(t) \/ DirectEnd(t)
    <3>1. direct[t] # "idle" /\ turns' = turns
      BY <2>2 DEF DirectAsk, DirectEnd, budget
    <3> QED
      BY <3>1 DEF DirectCounted
  <2>3. CASE DeleteThread(t) \/ \E archived \in BOOLEAN : SetArchived(t, archived)
    BY <1>1, <2>3 DEF DeleteThread, SetArchived, memory, budget
  <2> QED
    BY <1>4, <2>1, <2>2, <2>3 DEF ThreadStep
<1>5. ASSUME NEW s \in Stores, StoreStep(s) PROVE UNCHANGED <<direct, turns>>
  BY <1>5 DEF StoreStep, OpenStart, OpenFinish, OpenFails, CancelRequest, CancelTerminalize, CancelFails, budget
<1>6. CASE Crash
  BY <1>6 DEF Crash, DirectCounted
<1>7. CASE UNCHANGED vars
  BY <1>1, <1>7 DEF vars, memory, budget
<1> QED
  BY <1>1, <1>2, <1>3, <1>4, <1>5, <1>6, <1>7 DEF Next

\* A run becomes succeeded together with its answer, or by recovering one.
LEMMA SuccessStep ==
    ASSUME IInv, SuccessIsAnswered, DBStep
    PROVE  SuccessIsAnswered'
<1> SUFFICES ASSUME NEW r \in Runs, status'[r] = "succeeded"
             PROVE  \E i \in Linked(r)' : messages'[home'[r]][i].kind \in AnswerKinds("succeeded")
  BY DEF SuccessIsAnswered
<1>1. "succeeded" \in Terminal /\ "succeeded" \notin Active /\ "deleted" # "succeeded"
  BY DEF Active, Terminal
<1>2. ASSUME status[r] = "succeeded", Linked(r)' = Linked(r), home'[r] = home[r],
             home[r] \in Threads => Grows \/ messages'[home[r]] = messages[home[r]]
      PROVE  \E i \in Linked(r)' : messages'[home'[r]][i].kind \in AnswerKinds("succeeded")
  <2>1. PICK i \in Linked(r) : messages[home[r]][i].kind \in AnswerKinds("succeeded")
    BY <1>2 DEF SuccessIsAnswered
  <2>2. home[r] \in Threads /\ i \in 1..Len(messages[home[r]])
    BY <2>1 DEF Linked, LinkedIn
  <2>3. messages'[home[r]][i] = messages[home[r]][i]
    BY <1>2, <2>2, GrownTurns DEF IInv
  <2> QED
    BY <1>2, <2>1, <2>3
<1>3. CASE QuietStep
  BY <1>2, <1>3 DEF QuietStep, Linked
<1>4. ASSUME NEW q \in Runs, ClaimStep(q) PROVE \E i \in Linked(r)' : messages'[home'[r]][i].kind \in AnswerKinds("succeeded")
  <2>1. status[r] = "succeeded"
    BY <1>4 DEF ClaimStep, IInv, TypeOK
  <2> QED
    BY <1>2, <1>4, <2>1 DEF ClaimStep, Linked
<1>5. ASSUME NEW q \in Runs, NEW o \in Terminal, PublishStep(q, o)
      PROVE  \E i \in Linked(r)' : messages'[home'[r]][i].kind \in AnswerKinds("succeeded")
  <2>1. CASE q = r
    <3> DEFINE n == Len(messages[home[r]]) + 1
    <3>1. o = "succeeded" /\ Linked(r)' = {n} /\ home' = home
      BY <1>5, <2>1, PublishEffect DEF PublishStep
    <3>2. PICK k \in AnswerKinds(o) : messages'[home[r]][n] = Answer(r, k)
      BY <1>5, <2>1, PublishEffect
    <3>3. Answer(r, k).kind \in AnswerKinds("succeeded")
      BY <3>1 DEF Answer
    <3> QED
      BY <3>1, <3>2, <3>3
  <2>2. CASE q # r
    BY <1>2, <1>5, <2>2, PublishEffect DEF PublishStep
  <2> QED
    BY <2>1, <2>2
<1>6. CASE ReconcileStepAlone
  <2>1. home' = home
    BY <1>6 DEF ReconcileStepAlone
  <2>2. CASE status[r] \notin Active
    BY <1>2, <1>6, <2>1, <2>2, ReconcileEffect
  <2>3. CASE status[r] \in Active
    <3>1. PICK i \in Linked(r) : messages[home[r]][i].kind \in AnswerKinds("succeeded")
      BY <1>6, <2>3, ReconcileEffect
    <3>2. home[r] \in Threads /\ i \in 1..Len(messages[home[r]]) /\ i \in Linked(r)'
      BY <1>6, <2>3, <3>1, ReconcileEffect DEF Linked, LinkedIn
    <3>3. messages'[home[r]][i] = messages[home[r]][i]
      BY <1>6, <3>2, ReconcileEffect, GrownTurns DEF IInv
    <3> QED
      BY <2>1, <3>1, <3>2, <3>3
  <2> QED
    BY <2>2, <2>3
<1>7. ASSUME NEW q \in Runs, NEW t \in Threads, NEW retry \in BOOLEAN, AdmitStep(q, t, retry)
      PROVE  \E i \in Linked(r)' : messages'[home'[r]][i].kind \in AnswerKinds("succeeded")
  <2>1. q # r
    BY <1>7, AdmitEffect
  <2> QED
    BY <1>2, <1>7, <2>1, AdmitEffect
<1>8. ASSUME NEW t \in Threads, DeleteThread(t) PROVE \E i \in Linked(r)' : messages'[home'[r]][i].kind \in AnswerKinds("succeeded")
  <2>1. home[r] # t
    BY <1>1, <1>8, DeleteEffect
  <2> QED
    BY <1>2, <1>8, <2>1, DeleteEffect
<1>9. ASSUME NEW t \in Threads, NEW x \in Message, UnlinkedStep(t, x)
      PROVE  \E i \in Linked(r)' : messages'[home'[r]][i].kind \in AnswerKinds("succeeded")
  BY <1>2, <1>9, UnlinkedEffect DEF UnlinkedStep
<1> QED
  BY <1>3, <1>4, <1>5, <1>6, <1>7, <1>8, <1>9 DEF DBStep

\* Turns are never rewritten: a step appends to a transcript or deletes it.
LEMMA TurnsKept ==
    ASSUME IInv, DBStep, NEW t \in Threads, ~DeleteThread(t), NEW i \in 1..Len(messages[t])
    PROVE  messages'[t][i] = messages[t][i]
<1>1. Grows => messages'[t][i] = messages[t][i]
  BY GrownTurns DEF IInv
<1>2. ASSUME NEW r \in Runs, NEW o \in Terminal, PublishStep(r, o) PROVE Grows
  BY <1>2, PublishEffect
<1>3. CASE ReconcileStepAlone
  BY <1>1, <1>3, ReconcileEffect
<1>4. ASSUME NEW r \in Runs, NEW u \in Threads, NEW retry \in BOOLEAN, AdmitStep(r, u, retry) PROVE Grows
  BY <1>4, AdmitEffect
<1>5. ASSUME NEW u \in Threads, DeleteThread(u) PROVE messages'[t] = messages[t]
  BY <1>5, DeleteEffect
<1>6. ASSUME NEW u \in Threads, NEW x \in Message, UnlinkedStep(u, x) PROVE Grows
  BY <1>6, UnlinkedEffect
<1>7. CASE QuietStep \/ \E r \in Runs : ClaimStep(r)
  BY <1>7 DEF QuietStep, ClaimStep
<1> QED
  BY <1>1, <1>2, <1>3, <1>4, <1>5, <1>6, <1>7 DEF DBStep

\* A retry drops the failed pair of the newest question only: what the history takes
\* of a linked turn (_build_thread_history_from_messages).
LEMMA TurnsAsHistory ==
    ASSUME NEW m \in Seq(Message), NEW retry \in BOOLEAN, NEW i \in 1..Len(m),
           WellLinked(m[i]), m[i].run # NoRun
    PROVE  /\ m[i].kind \in {"error", "empty"} => i \notin HistoryOf(m, retry)
           /\ m[i].kind = "ok" => i \in HistoryOf(m, retry)
           /\ m[i].kind = "exhausted" => i \in HistoryOf(m, retry) \/ i = Len(m)
<1>1. Len(m) \in Nat /\ m[i].role = "assistant"
  BY DEF WellLinked
<1>2. m[i].kind \in {"error", "empty"} => i \notin HistoryOf(m, retry)
  BY DEF HistoryOf
<1>3. ASSUME m[i].kind \notin {"error", "empty"}, i \notin HistoryOf(m, retry)
      PROVE  i = Len(m) /\ m[i].kind \in {"error", "exhausted"}
  <2>1. retry /\ RetryablePair(m) /\ i \notin 1..(Len(m) - 2)
    BY <1>1, <1>3 DEF HistoryOf
  <2>2. i = Len(m) \/ i = Len(m) - 1
    BY <1>1, <2>1
  <2> QED
    BY <1>1, <2>1, <2>2 DEF RetryablePair
<1> QED
  BY <1>2, <1>3

\* Nothing is published before a later question, and the later question was given
\* every earlier turn it should have.
LEMMA ContextStep ==
    ASSUME IInv, LinkedTurnsAreAnswers, QuestionsStored, ContextSettled, DBStep
    PROVE  ContextSettled'
<1> DEFINE Told(q, r) ==
             /\ status[q] \in Terminal
             /\ \A i \in Linked(q) : i < asked[r] /\ TakenInto(r, i, messages[home[q]][i].kind)
<1> SUFFICES ASSUME NEW q \in Runs, NEW r \in Runs, home'[q] \in Threads, home'[r] = home'[q], asked'[q] < asked'[r]
             PROVE  Told(q, r)'
  BY DEF ContextSettled
<1>1. ASSUME home[q] \in Threads, home[r] = home[q], asked[q] < asked[r], asked'[r] = asked[r],
             context'[r] = context[r], ~ DeleteThread(home[q])
      PROVE  Told(q, r)'
  <2>1. Told(q, r)
    BY <1>1 DEF ContextSettled
  <2>2. Kept(q)
    BY <1>1, <2>1, FinalEffect
  <2>3. \A i \in Linked(q) : i \in 1..Len(messages[home[q]]) /\ messages'[home[q]][i] = messages[home[q]][i]
    BY <1>1, TurnsKept DEF Linked, LinkedIn
  <2> QED
    BY <1>1, <2>1, <2>2, <2>3 DEF Kept, TakenInto
<1>2. CASE /\ UNCHANGED <<home, asked, context>>
           /\ \A t \in Threads : ~DeleteThread(t)
  BY <1>1, <1>2
<1>3. ASSUME NEW t \in Threads, DeleteThread(t)
      PROVE  Told(q, r)'
  <2>1. home[q] # t /\ home[r] # t
    BY <1>3, DeleteEffect, RunsAssumption
  <2>2. /\ home'[q] = home[q] /\ home'[r] = home[r] /\ UNCHANGED <<asked, context>>
    BY <1>3, <2>1, DeleteEffect DEF Recorded
  <2>3. ~DeleteThread(home[q])
    <3>1. status[q] \in Terminal /\ status'[q] = status[q]
      BY <1>3, <2>1, <2>2, DeleteEffect DEF ContextSettled
    <3>2. "deleted" \notin Terminal
      BY DEF Terminal
    <3> QED
      BY <2>2, <3>1, <3>2, DeleteEffect
  <2> QED
    BY <1>1, <2>2, <2>3
<1>4. ASSUME NEW p \in Runs, NEW t \in Threads, NEW retry \in BOOLEAN, AdmitStep(p, t, retry)
      PROVE  Told(q, r)'
  <2>0. messages[t] \in Seq(Message) /\ Len(messages[t]) \in Nat
    BY DEF IInv, TypeOK
  <2>1. q # p
    <3> SUFFICES ASSUME q = p PROVE FALSE
      OBVIOUS
    <3>1. home'[r] = t /\ asked'[q] = Len(messages[t]) + 1
      BY <1>4, AdmitEffect
    <3>2. r = p \/ (asked'[r] = asked[r] /\ home[r] = t)
      BY <1>4, <3>1, AdmitEffect
    <3> QED
      BY <2>0, <3>1, <3>2 DEF QuestionsStored
  <2>2. /\ home'[q] = home[q] /\ asked'[q] = asked[q] /\ status'[q] = status[q] /\ Linked(q)' = Linked(q)
    BY <1>4, <2>1, AdmitEffect
  <2>3. CASE r # p
    <3>1. home'[r] = home[r] /\ asked'[r] = asked[r] /\ context'[r] = context[r]
      BY <1>4, <2>3, AdmitEffect
    <3>2. Grows
      BY <1>4, AdmitEffect
    <3>3. \A i \in Linked(q) : messages'[home[q]][i] = messages[home[q]][i]
      BY <2>2, <3>2, GrownTurns DEF Linked, LinkedIn, IInv
    <3> QED
      BY <2>2, <3>1, <3>3 DEF ContextSettled, TakenInto
  <2>4. CASE r = p
    <3>1. /\ home[q] = t /\ status[q] \in Terminal /\ asked'[r] = Len(messages[t]) + 1
          /\ context'[r] = HistoryOf(messages[t], retry) /\ Grows
      BY <1>4, <2>2, <2>4, AdmitEffect
    <3>2. ASSUME NEW i \in Linked(q) PROVE i < asked'[r] /\ TakenInto(r, i, messages[home[q]][i].kind)'
      <4>1. i \in 1..Len(messages[t]) /\ messages[t][i].run = q /\ WellLinked(messages[t][i])
        BY <3>1, <3>2 DEF Linked, LinkedIn, LinkedTurnsAreAnswers
      <4>2. q # NoRun
        BY RunsAssumption
      <4>3. messages'[t][i] = messages[t][i] /\ asked'[r] - 1 = Len(messages[t])
        BY <2>0, <3>1, <4>1, GrownTurns DEF IInv
      <4> QED
        BY <2>0, <2>2, <3>1, <4>1, <4>2, <4>3, TurnsAsHistory DEF TakenInto
    <3> QED
      BY <2>2, <3>1, <3>2
  <2> QED
    BY <2>3, <2>4
<1> QED
  BY <1>2, <1>3, <1>4 DEF DBStep, QuietStep, ClaimStep, PublishStep, ReconcileStepAlone, UnlinkedStep, Recorded

\* What TranscriptPaired and ActivePaired say of one run.
PairedRun(r) ==
    /\ status[r] \in Terminal => asked[r] + 1 \in Linked(r)
    /\ status[r] \in Active /\ Linked(r) = {} => asked[r] = Len(messages[home[r]])
    /\ status[r] \in Active /\ Linked(r) # {} => asked[r] + 1 \in Linked(r)

\* Without direct turns questions and answers alternate in every transcript.
LEMMA PairedStep ==
    ASSUME IInv, TranscriptPaired, ActivePaired, DBStep
    PROVE  TranscriptPaired' /\ ActivePaired'
<1>0. turns' = 0 => turns = 0
  BY DEF DBStep, QuietStep, ClaimStep, PublishStep, ReconcileStepAlone, AdmitStep, DeleteThread, UnlinkedStep, Recorded, budget
<1> SUFFICES ASSUME NEW r \in Runs, turns = 0, turns' = 0 PROVE PairedRun(r)'
  BY <1>0 DEF TranscriptPaired, ActivePaired, PairedRun
<1>1. PairedRun(r)
  BY DEF TranscriptPaired, ActivePaired, PairedRun
<1>2. ASSUME /\ status'[r] = status[r] \/ (status[r] \in Active /\ status'[r] \in Active)
             /\ Linked(r)' = Linked(r) /\ asked'[r] = asked[r] /\ home'[r] = home[r]
             /\ status[r] \in Active => messages'[home[r]] = messages[home[r]]
      PROVE  PairedRun(r)'
  <2>1. status'[r] \in Active => status'[r] \notin Terminal
    BY DEF Active, Terminal
  <2> QED
    BY <1>1, <1>2, <2>1 DEF PairedRun
<1>3. CASE QuietStep
  BY <1>2, <1>3 DEF QuietStep, Linked
<1>4. ASSUME NEW q \in Runs, ClaimStep(q) PROVE PairedRun(r)'
  BY <1>2, <1>4 DEF ClaimStep, Recorded, Linked, IInv, TypeOK, Active
<1>5. ASSUME NEW q \in Runs, NEW o \in Terminal, PublishStep(q, o) PROVE PairedRun(r)'
  <2>0. home' = home /\ asked' = asked /\ o \notin Active /\ status[q] \in Active
    BY <1>5 DEF PublishStep, Recorded, Active, Terminal
  <2>1. CASE q = r
    <3>1. asked[r] = Len(messages[home[r]]) /\ Linked(r)' = {Len(messages[home[r]]) + 1} /\ status'[r] = o
      BY <1>1, <1>5, <2>0, <2>1, PublishEffect DEF PairedRun
    <3> QED
      BY <2>0, <3>1 DEF PairedRun
  <2>2. CASE q # r
    <3>1. status'[r] = status[r] /\ Linked(r)' = Linked(r)
      BY <1>5, <2>2, PublishEffect
    <3>2. ASSUME status[r] \in Active PROVE messages'[home[r]] = messages[home[r]]
      <4>1. home[r] # home[q]
        BY <1>5, <2>2, <3>2, PublishEffect DEF ActiveOn, ActiveRuns
      <4> QED
        BY <1>5, <3>2, <4>1 DEF PublishStep, Publish, IInv, TypeOK, DBInv, RowsHaveHomes
    <3> QED
      BY <1>2, <2>0, <3>1, <3>2
  <2> QED
    BY <2>1, <2>2
<1>6. CASE ReconcileStepAlone
  <2>0. home' = home /\ asked' = asked
    BY <1>6 DEF ReconcileStepAlone, Recorded
  <2>1. CASE status[r] \in Active
    <3>1. status'[r] \in Terminal /\ status'[r] \notin Active
      BY <1>6, <2>1, ReconcileEffect DEF Active, Terminal
    <3>2. CASE Linked(r) = {}
      BY <1>1, <1>6, <2>0, <2>1, <3>1, <3>2, ReconcileEffect DEF PairedRun
    <3>3. CASE Linked(r) # {}
      BY <1>1, <1>6, <2>0, <2>1, <3>1, <3>3, ReconcileEffect DEF PairedRun
    <3> QED
      BY <3>2, <3>3
  <2>2. CASE status[r] \notin Active
    BY <1>2, <1>6, <2>0, <2>2, ReconcileEffect
  <2> QED
    BY <2>1, <2>2
<1>7. ASSUME NEW q \in Runs, NEW t \in Threads, NEW retry \in BOOLEAN, AdmitStep(q, t, retry) PROVE PairedRun(r)'
  <2>1. CASE r = q
    <3>1. /\ status'[r] = "queued" /\ home'[r] = t /\ asked'[r] = Len(messages[t]) + 1 /\ Linked(r)' = {}
          /\ Len(messages'[t]) = Len(messages[t]) + 1
      BY <1>7, <2>1, AdmitEffect
    <3> QED
      BY <3>1 DEF PairedRun, Terminal
  <2>2. CASE r # q
    <3>1. status'[r] = status[r] /\ home'[r] = home[r] /\ Linked(r)' = Linked(r) /\ asked'[r] = asked[r]
      BY <1>7, <2>2, AdmitEffect
    <3>2. ASSUME status[r] \in Active PROVE messages'[home[r]] = messages[home[r]]
      <4>1. home[r] \in Threads /\ home[r] # t
        BY <1>7, <3>2, AdmitEffect DEF IInv, DBInv, RowsHaveHomes, Active, Terminal
      <4> QED
        BY <1>7, <4>1, AdmitEffect
    <3> QED
      BY <1>2, <3>1, <3>2
  <2> QED
    BY <2>1, <2>2
<1>8. ASSUME NEW t \in Threads, DeleteThread(t) PROVE PairedRun(r)'
  <2>1. asked' = asked
    BY <1>8, DeleteEffect DEF Recorded
  <2>2. CASE home[r] = t
    <3>1. status'[r] = "deleted"
      BY <1>8, <2>2, DeleteEffect
    <3> QED
      BY <3>1 DEF PairedRun, Active, Terminal
  <2>3. CASE home[r] # t
    <3>1. status[r] \in Active => messages'[home[r]] = messages[home[r]]
      BY <1>8, <2>3, DeleteEffect DEF IInv, DBInv, RowsHaveHomes
    <3> QED
      BY <1>2, <1>8, <2>1, <2>3, <3>1, DeleteEffect
  <2> QED
    BY <2>2, <2>3
<1>9. ASSUME NEW t \in Threads, NEW x \in Message, UnlinkedStep(t, x) PROVE PairedRun(r)'
  BY <1>9 DEF UnlinkedStep
<1> QED
  BY <1>3, <1>4, <1>5, <1>6, <1>7, <1>8, <1>9 DEF DBStep

-----------------------------------------------------------------------------
\* A fresh installation and one with rows of an older version have sound transcripts.
LEMMA TranscriptInit == Init => TranscriptInv
<1> SUFFICES ASSUME Init PROVE TranscriptInv
  OBVIOUS
<1>1. \A r \in Runs : status[r] \notin Terminal /\ (status[r] \in Active <=> r \in Legacy)
  BY RunsAssumption DEF Init, Active, Terminal
<1>2. \A r \in Runs : home[r] \in Threads => r \in Legacy /\ asked[r] = 1
  BY RunsAssumption DEF Init
<1>3. \A r \in Legacy : r # NoRun /\ r \in Runs
  BY RunsAssumption
<1>4. \A r \in Legacy : \A m \in LegacyTurns(r) :
        /\ Len(m) \in {1, 2}
        /\ LinkedIn(m, r) = {} => Len(m) = 1
        /\ LinkedIn(m, r) # {} => 2 \in LinkedIn(m, r)
        /\ \A i \in 1..Len(m) : WellLinked(m[i])
  <2> TAKE r \in Legacy
  <2> TAKE m \in LegacyTurns(r)
  <2>1. CASE m = <<Question>>
    BY <1>3, <2>1 DEF LinkedIn, Question, WellLinked
  <2>2. ASSUME NEW k \in Kinds, m = <<Question, Answer(r, k)>>
        PROVE  /\ Len(m) = 2 /\ 2 \in LinkedIn(m, r)
               /\ \A i \in 1..Len(m) : WellLinked(m[i])
    <3>1. Len(m) = 2 /\ m[1] = Question /\ m[2] = Answer(r, k)
      BY <2>2
    <3>2. m[2].run = r /\ WellLinked(m[1]) /\ WellLinked(m[2])
      BY <3>1 DEF Question, Answer, WellLinked
    <3> QED
      BY <3>1, <3>2 DEF LinkedIn
  <2> QED
    BY <2>1, <2>2 DEF LegacyTurns
<1>5. \A r \in Runs : home[r] \in Threads => messages[home[r]] \in LegacyTurns(r)
  BY <1>2 DEF Init
<1>6. \A t \in Threads : messages[t] = <<>> \/ \E r \in Legacy : messages[t] \in LegacyTurns(r)
  BY DEF Init
<1>7. LinkedTurnsAreAnswers
  BY <1>4, <1>6 DEF LinkedTurnsAreAnswers
<1>8. QuestionsStored
  BY <1>2, <1>4, <1>5 DEF QuestionsStored
<1>9. NoOrphanTurns /\ DirectCounted
  BY DEF Init, NoOrphanTurns, DirectCounted
<1>10. SuccessIsAnswered
  BY <1>1 DEF SuccessIsAnswered, Terminal
<1>11. ContextSettled
  BY <1>2 DEF ContextSettled
<1>12. \A r \in Runs : status[r] \in Active => PairedRun(r)
  <2> TAKE r \in Runs
  <2> HAVE status[r] \in Active
  <2>1. r \in Legacy /\ home[r] \in Threads /\ asked[r] = 1
    BY <1>1 DEF Init
  <2> QED
    BY <1>1, <1>4, <1>5, <2>1 DEF PairedRun, Linked
<1>13. TranscriptPaired /\ ActivePaired
  BY <1>1, <1>12 DEF TranscriptPaired, ActivePaired, PairedRun
<1> QED
  BY <1>7, <1>8, <1>9, <1>10, <1>11, <1>13 DEF TranscriptInv

\* Every step keeps the transcripts sound.
LEMMA TranscriptStep == IInv /\ TranscriptInv /\ [Next]_vars => TranscriptInv'
<1> SUFFICES ASSUME IInv, TranscriptInv, [Next]_vars PROVE TranscriptInv'
  OBVIOUS
<1>1. DBStep
  BY StepEffect DEF TranscriptInv
<1> QED
  BY <1>1, OrphansStep, AnswersStep, QuestionsStep, DirectStep, SuccessStep, ContextStep, PairedStep DEF TranscriptInv

\* The transcripts are sound in every reachable state.
LEMMA TranscriptInvariance == Spec => [](IInv /\ TranscriptInv)
BY InitInv, StepInv, TranscriptInit, TranscriptStep, PTL DEF Spec

\* A run shown as succeeded has a readable answer, whoever wrote the rows and however
\* the process stopped (terminalize_success_with_message, reconcile_interrupted).
THEOREM SuccessAnswered == Spec => []SuccessIsAnswered
<1>1. TranscriptInv => SuccessIsAnswered
  BY DEF TranscriptInv
<1> QED
  BY <1>1, TranscriptInvariance, PTL

\* A later question of a thread was asked after every earlier run had published, and its
\* history takes each earlier turn as ContextSettled says: errors and empty answers never,
\* answers always, and an answer that mentions an exhausted turn budget unless the question
\* is asked directly after it (create_run_with_user_message, a retry).
THEOREM ContextComplete == Spec => []ContextSettled
<1>1. TranscriptInv => ContextSettled
  BY DEF TranscriptInv
<1> QED
  BY <1>1, TranscriptInvariance, PTL

\* Questions and results pair up in a transcript no direct stream wrote to.
THEOREM TurnsPaired == Spec => []TranscriptPaired
<1>1. TranscriptInv => TranscriptPaired
  BY DEF TranscriptInv
<1> QED
  BY <1>1, TranscriptInvariance, PTL

\* A deleted thread leaves no turn, whatever still streams into it.
THEOREM DeletionComplete == Spec => []NoOrphanTurns
<1>1. TranscriptInv => NoOrphanTurns
  BY DEF TranscriptInv
<1> QED
  BY <1>1, TranscriptInvariance, PTL

\* Published results are final: no late frame, outcome, cancel, handoff or second
\* reconciliation changes a terminal run.
THEOREM ResultsFinal == Spec => TerminalIsFinal
<1>1. IInv /\ TranscriptInv /\ [Next]_vars =>
        [\A r \in Runs : status[r] \in Terminal =>
            \/ status'[r] = "deleted"
            \/ /\ status'[r] = status[r]
               /\ events'[r] = events[r]
               /\ home'[r] = home[r]
               /\ Linked(r)' = Linked(r)]_vars
  <2> SUFFICES ASSUME IInv, TranscriptInv, [Next]_vars, NEW r \in Runs, status[r] \in Terminal
               PROVE  status'[r] = "deleted" \/ Kept(r)
    BY DEF Kept
  <2>1. DBStep
    BY StepEffect DEF TranscriptInv
  <2> QED
    BY <2>1, FinalEffect
<1> QED
  BY <1>1, TranscriptInvariance, PTL DEF Spec, TerminalIsFinal

-----------------------------------------------------------------------------
(***************************************************************************)
(* The thread ledger (ThreadLedger): the slot of a thread is its active run *)
(* and its entries are the linked turns of its terminal runs.               *)
(***************************************************************************)
Slots   == [t \in Threads |-> SlotOf(t)]
Ledgers == [t \in Threads |-> LedgerOf(t)]

\* The slot is the one active run of the thread.
LEMMA SlotIs ==
    ASSUME IInv, NEW t \in Threads
    PROVE  /\ Slots[t] = NoRun <=> ActiveOn(t) = {}
           /\ \A r \in ActiveOn(t) : Slots[t] = r /\ ActiveOn(t) = {r}
BY RunsAssumption DEF Slots, SlotOf, ActiveOn, ActiveRuns, IInv, DBInv, OneActiveRun

\* How the slot looks after a step.
LEMMA SlotAfter ==
    ASSUME NEW t \in Threads
    PROVE  /\ ActiveOn(t)' = ActiveOn(t) => Slots'[t] = Slots[t]
           /\ ActiveOn(t)' = {} => Slots'[t] = NoRun
           /\ \A r : ActiveOn(t)' = {r} => Slots'[t] = r
<1>1. Slots[t] = SlotOf(t) /\ Slots'[t] = SlotOf(t)'
  BY DEF Slots
<1>2. ActiveOn(t)' = ActiveOn(t) => SlotOf(t)' = SlotOf(t)
  BY DEF SlotOf
<1>3. ActiveOn(t)' = {} => SlotOf(t)' = NoRun
  BY DEF SlotOf
<1>4. ASSUME NEW r, ActiveOn(t)' = {r} PROVE SlotOf(t)' = r
  <2>1. (CHOOSE q \in ActiveOn(t)' : TRUE) = r
    BY <1>4
  <2> QED
    BY <1>4, <2>1 DEF SlotOf
<1> QED
  BY <1>1, <1>2, <1>3, <1>4

\* Every linked turn belongs to a run.
LEMMA RunOfTurn ==
    ASSUME NEW m \in Seq(Message), NEW i \in 1..Len(m), m[i].run # NoRun
    PROVE  m[i].run \in Runs
<1>1. m[i] \in Message
  OBVIOUS
<1> QED
  BY <1>1 DEF Message

\* The runs of thread t that are terminal before or after are the same, with the
\* same turns.
SameResults(t) ==
    \A q \in Runs :
        \/ status[q] \in Terminal /\ home[q] = t
        \/ status'[q] \in Terminal /\ home'[q] = t
        => /\ status[q] \in Terminal /\ status'[q] = status[q]
           /\ home[q] = t /\ home'[q] = t
           /\ Linked(q)' = Linked(q)

\* The entries of a thread are told by its terminal runs.
LEMMA SameEntries ==
    ASSUME IInv, IInv', NEW t \in Threads, SameResults(t),
           messages'[t] = messages[t] \/ Grows
    PROVE  Ledgers'[t] = Ledgers[t]
<1>1. \A i \in 1..Len(messages[t]) : i \in 1..Len(messages'[t]) => messages'[t][i] = messages[t][i]
  BY GrownTurns DEF IInv
<1>2. ASSUME NEW i \in 1..Len(messages[t]), messages[t][i].run # NoRun, status[messages[t][i].run] \in Terminal
      PROVE  /\ i \in 1..Len(messages'[t]) /\ messages'[t][i] = messages[t][i]
             /\ status'[messages[t][i].run] \in Terminal
  <2>1. PICK q \in Runs : q = messages[t][i].run
    BY <1>2, RunOfTurn DEF IInv, TypeOK
  <2>2. home[q] = t
    BY <1>2, <2>1 DEF IInv, DBInv, TurnsStayHome
  <2>3. i \in Linked(q)
    BY <2>1, <2>2 DEF Linked, LinkedIn
  <2>4. status'[q] \in Terminal /\ home'[q] = t /\ i \in Linked(q)'
    BY <1>2, <2>1, <2>2, <2>3 DEF SameResults
  <2> QED
    BY <1>1, <2>1, <2>4 DEF Linked, LinkedIn
<1>3. ASSUME NEW i \in 1..Len(messages'[t]), messages'[t][i].run # NoRun, status'[messages'[t][i].run] \in Terminal
      PROVE  /\ i \in 1..Len(messages[t]) /\ messages'[t][i] = messages[t][i]
             /\ status[messages'[t][i].run] \in Terminal
  <2>1. PICK q \in Runs : q = messages'[t][i].run
    BY <1>3, RunOfTurn DEF IInv, TypeOK
  <2>2. home'[q] = t
    BY <1>3, <2>1 DEF IInv, DBInv, TurnsStayHome
  <2>3. i \in Linked(q)'
    BY <2>1, <2>2 DEF Linked, LinkedIn
  <2>4. status[q] \in Terminal /\ home[q] = t /\ i \in Linked(q)
    BY <1>3, <2>1, <2>2, <2>3 DEF SameResults
  <2> QED
    BY <1>1, <2>1, <2>4 DEF Linked, LinkedIn
<1>4. LedgerOf(t)' = LedgerOf(t)
  BY <1>2, <1>3 DEF LedgerOf
<1> QED
  BY <1>4 DEF Ledgers

\* The end of a thread's active run adds its one result.
LEMMA NewEntry ==
    ASSUME IInv, IInv', Grows, home' = home,
           NEW t \in Threads, NEW r \in Runs, ActiveOn(t) = {r}, status'[r] \in Terminal,
           \A q \in Runs : q # r /\ home[q] = t => status'[q] = status[q] /\ Linked(q)' = Linked(q)
    PROVE  \E k \in {"ok", "error"} : Ledgers'[t] = Ledgers[t] \cup {<<r, k>>}
<1>1. home[r] = t /\ status[r] \in Active /\ r # NoRun
  BY RunsAssumption DEF ActiveOn, ActiveRuns
<1>2. PICK n \in Linked(r)' : Linked(r)' = {n}
  BY DEF IInv, DBInv, AtomicPublication, PublishedAtomically
<1>3. n \in 1..Len(messages'[t]) /\ messages'[t][n].run = r
  BY <1>1, <1>2 DEF Linked, LinkedIn
<1> DEFINE k == ResultOf(messages'[t][n])
<1>4. k \in {"ok", "error"}
  BY DEF ResultOf
<1>5. \A i \in 1..Len(messages[t]) : i \in 1..Len(messages'[t]) /\ messages'[t][i] = messages[t][i]
  BY GrownTurns DEF IInv
<1>6. ASSUME NEW i \in 1..Len(messages[t]), messages[t][i].run # NoRun, status[messages[t][i].run] \in Terminal
      PROVE  status'[messages[t][i].run] \in Terminal
  <2>1. PICK q \in Runs : q = messages[t][i].run
    BY <1>6, RunOfTurn DEF IInv, TypeOK
  <2>2. home[q] = t /\ q # r
    BY <1>1, <1>6, <2>1 DEF IInv, DBInv, TurnsStayHome, Active, Terminal
  <2> QED
    BY <1>6, <2>1, <2>2
<1>7. ASSUME NEW i \in 1..Len(messages'[t]), messages'[t][i].run # NoRun, i # n
      PROVE  i \in 1..Len(messages[t]) /\ status[messages[t][i].run] \in Terminal
  <2>1. PICK q \in Runs : q = messages'[t][i].run
    BY <1>7, RunOfTurn DEF IInv, TypeOK
  <2>2. home'[q] = t
    BY <1>7, <2>1 DEF IInv, DBInv, TurnsStayHome
  <2>3. i \in Linked(q)' /\ q # r
    BY <1>1, <1>2, <1>7, <2>1, <2>2 DEF Linked, LinkedIn
  <2>4. i \in Linked(q)
    BY <2>2, <2>3
  <2>5. i \in 1..Len(messages[t]) /\ messages[t][i].run = q
    BY <2>2, <2>4 DEF Linked, LinkedIn
  <2>6. status[q] \in Terminal
    BY <2>2, <2>3 DEF IInv, DBInv, RowsHaveHomes, ActiveOn, ActiveRuns
  <2> QED
    BY <2>5, <2>6
<1>8. LedgerOf(t)' = LedgerOf(t) \cup {<<r, k>>}
  <2>1. LedgerOf(t) \cup {<<r, k>>} \subseteq LedgerOf(t)'
    <3>1. <<r, k>> \in LedgerOf(t)'
      BY <1>1, <1>3 DEF LedgerOf
    <3> QED
      BY <1>5, <1>6, <3>1 DEF LedgerOf
  <2>2. LedgerOf(t)' \subseteq LedgerOf(t) \cup {<<r, k>>}
    BY <1>3, <1>5, <1>7 DEF LedgerOf
  <2> QED
    BY <2>1, <2>2
<1> QED
  BY <1>4, <1>8 DEF Ledgers

\* Nothing is admitted, published or dropped.
LedgerStutter == Slots' = Slots /\ Ledgers' = Ledgers

\* Slots and ledgers are compared thread by thread.
LEMMA Threadwise ==
    ASSUME \A t \in Threads : Slots'[t] = Slots[t] /\ Ledgers'[t] = Ledgers[t]
    PROVE  LedgerStutter
BY DEF LedgerStutter, Slots, Ledgers

\* Frames, claims, flags and direct turns are not seen in the ledger.
LEMMA StutterStep ==
    ASSUME IInv, IInv',
           \/ QuietStep
           \/ \E r \in Runs : ClaimStep(r)
           \/ \E t \in Threads, x \in Message : UnlinkedStep(t, x)
    PROVE  LedgerStutter
<1>1. home' = home /\ \A q \in Runs : Linked(q)' = Linked(q)
  <2>1. CASE QuietStep
    BY <2>1 DEF QuietStep, Linked
  <2>2. CASE \E r \in Runs : ClaimStep(r)
    BY <2>2 DEF ClaimStep, Linked
  <2>3. CASE \E t \in Threads, x \in Message : UnlinkedStep(t, x)
    BY <2>3, UnlinkedEffect DEF UnlinkedStep
  <2> QED
    BY <2>1, <2>2, <2>3
<1>2. \A q \in Runs : /\ status'[q] \in Active <=> status[q] \in Active
                      /\ status[q] \in Terminal \/ status'[q] \in Terminal => status'[q] = status[q]
  <2>1. ASSUME NEW r \in Runs, ClaimStep(r)
        PROVE  \A q \in Runs :
                  /\ status'[q] \in Active <=> status[q] \in Active
                  /\ status[q] \in Terminal \/ status'[q] \in Terminal => status'[q] = status[q]
    BY <2>1 DEF ClaimStep, IInv, TypeOK, Active, Terminal
  <2>2. CASE status' = status
    BY <2>2
  <2> QED
    BY <2>1, <2>2 DEF QuietStep, UnlinkedStep
<1>3. UNCHANGED messages \/ Grows
  BY UnlinkedEffect DEF QuietStep, ClaimStep
<1>4. ASSUME NEW t \in Threads PROVE Slots'[t] = Slots[t] /\ Ledgers'[t] = Ledgers[t]
  <2>1. ActiveOn(t)' = ActiveOn(t)
    BY <1>1, <1>2 DEF ActiveOn, ActiveRuns
  <2>2. SameResults(t)
    BY <1>1, <1>2 DEF SameResults
  <2> QED
    BY <1>3, <2>1, <2>2, SlotAfter, SameEntries
<1> QED
  BY <1>4, Threadwise

\* An admission fills an empty slot with a run that has no result.
LEMMA AdmitRefines ==
    ASSUME IInv, IInv', NEW r \in Runs, NEW t \in Threads, NEW retry \in BOOLEAN, AdmitStep(r, t, retry)
    PROVE  Ledger!Admit(t, r)
<1>1. status[r] = "unborn" /\ ActiveOn(t) = {} /\ "unborn" \notin Active \cup Terminal
  BY DEF AdmitStep, Active, Terminal
<1>2. Slots[t] = NoRun /\ \A u \in Threads : Slots[u] # r
  <2>1. \A u \in Threads : r \notin ActiveOn(u) /\ (ActiveOn(u) = {} \/ \E q \in ActiveOn(u) : Slots[u] = q)
    BY <1>1, SlotIs DEF ActiveOn, ActiveRuns
  <2> QED
    BY <1>1, <2>1, SlotIs, RunsAssumption
<1>3. r \notin Ledger!Published
  <2>1. \A u \in Threads : \A i \in 1..Len(messages[u]) :
           messages[u][i].run = r => status[messages[u][i].run] \notin Terminal
    BY <1>1
  <2>2. \A u \in Threads : \A k : <<r, k>> \notin Ledgers[u]
    BY <2>1 DEF Ledgers, LedgerOf
  <2> QED
    BY <2>2 DEF Ledger!Published, Ledgers
<1>4. ActiveOn(t)' = {r} /\ \A u \in Threads : u # t => ActiveOn(u)' = ActiveOn(u)
  <2>1. \A q \in Runs : q # r => status'[q] = status[q] /\ home'[q] = home[q]
    BY AdmitEffect
  <2>2. status'[r] \in Active /\ home'[r] = t
    BY AdmitEffect DEF Active
  <2> QED
    BY <1>1, <2>1, <2>2 DEF ActiveOn, ActiveRuns
<1>5. \A u \in Threads : Slots'[u] = IF u = t THEN r ELSE Slots[u]
  BY <1>4, SlotAfter
<1>6. Slots' = [Slots EXCEPT ![t] = r]
  BY <1>5 DEF Slots
<1>7. \A u \in Threads : SameResults(u)
  <2>1. status'[r] \notin Terminal /\ status[r] \notin Terminal
    BY <1>1, AdmitEffect DEF Terminal
  <2> QED
    BY <2>1, AdmitEffect DEF SameResults
<1>8. Ledgers' = Ledgers
  <2>1. \A u \in Threads : Ledgers'[u] = Ledgers[u]
    BY <1>7, AdmitEffect, SameEntries
  <2> QED
    BY <2>1 DEF Ledgers
<1> QED
  BY <1>2, <1>3, <1>6, <1>8 DEF Ledger!Admit, Slots, Ledgers

\* A terminalization and a reconciliation publish one result for each slot they empty.
LEMMA EndRefines ==
    ASSUME IInv, IInv', Grows, home' = home, NEW T \in SUBSET Threads,
           \A t \in T : ActiveOn(t) # {} /\ \A q \in ActiveOn(t) : status'[q] \in Terminal,
           \A q \in Runs : (status[q] \in Active /\ home[q] \in T) \/ (status'[q] = status[q] /\ Linked(q)' = Linked(q))
    PROVE  Ledger!Publish(T)
<1>0. \A x \in Active : x \notin Terminal
  BY DEF Active, Terminal
<1>1. \A t \in T : /\ Slots[t] \in Runs /\ ActiveOn(t) = {Slots[t]} /\ Slots[t] # NoRun
                    /\ ActiveOn(t)' = {} /\ Slots'[t] = NoRun
  <2> TAKE t \in T
  <2>1. PICK r \in ActiveOn(t) : TRUE
    OBVIOUS
  <2>2. Slots[t] = r /\ ActiveOn(t) = {r} /\ r \in Runs
    BY <2>1, SlotIs DEF ActiveOn, ActiveRuns
  <2>3. ActiveOn(t)' = {}
    BY <1>0, <2>2 DEF ActiveOn, ActiveRuns
  <2> QED
    BY <2>2, <2>3, SlotAfter, RunsAssumption
<1>2. \A t \in Threads \ T : Slots'[t] = Slots[t] /\ Ledgers'[t] = Ledgers[t]
  <2> TAKE t \in Threads \ T
  <2>1. \A q \in Runs : home[q] = t => status'[q] = status[q] /\ Linked(q)' = Linked(q)
    OBVIOUS
  <2>2. ActiveOn(t)' = ActiveOn(t)
    BY <2>1 DEF ActiveOn, ActiveRuns
  <2>3. SameResults(t)
    BY <2>1 DEF SameResults
  <2> QED
    BY <2>2, <2>3, SlotAfter, SameEntries
<1>3. \A t \in T : \E k \in {"ok", "error"} : Ledgers'[t] = Ledgers[t] \cup {<<Slots[t], k>>}
  <2> TAKE t \in T
  <2>1. \A q \in Runs : q # Slots[t] /\ home[q] = t => status'[q] = status[q] /\ Linked(q)' = Linked(q)
    BY <1>1 DEF ActiveOn, ActiveRuns
  <2> QED
    BY <1>1, <2>1, NewEntry
<1> DEFINE result == [t \in T |-> CHOOSE k \in {"ok", "error"} : Ledgers'[t] = Ledgers[t] \cup {<<Slots[t], k>>}]
<1>4. result \in [T -> {"ok", "error"}] /\ \A t \in T : Ledgers'[t] = Ledgers[t] \cup {<<Slots[t], result[t]>>}
  BY <1>3
<1> HIDE DEF result
<1>5. Slots' = [t \in Threads |-> IF t \in T THEN NoRun ELSE Slots[t]]
  <2>1. Slots' = [t \in Threads |-> Slots'[t]]
    BY DEF Slots
  <2> QED
    BY <1>1, <1>2, <2>1
<1>6. Ledgers' = [t \in Threads |-> IF t \in T THEN Ledgers[t] \cup {<<Slots[t], result[t]>>} ELSE Ledgers[t]]
  <2>1. Ledgers' = [t \in Threads |-> Ledgers'[t]]
    BY DEF Ledgers
  <2> QED
    BY <1>2, <1>4, <2>1
<1> QED
  BY <1>1, <1>4, <1>5, <1>6 DEF Ledger!Publish, Ledger!Results, Slots, Ledgers

\* A deletion drops the entries of an idle thread.
LEMMA DropRefines ==
    ASSUME IInv, IInv', NEW t \in Threads, DeleteThread(t)
    PROVE  Ledger!Drop(t)
<1>1. Slots[t] = NoRun
  BY SlotIs, DeleteEffect
<1>2. \A q \in Runs : home[q] = t => status'[q] \notin Active \cup Terminal /\ status[q] \notin Active /\ home'[q] # t
  <2>1. "deleted" \notin Active \cup Terminal
    BY DEF Active, Terminal
  <2> QED
    BY <2>1, DeleteEffect, RunsAssumption DEF ActiveOn, ActiveRuns
<1>3. \A u \in Threads : ActiveOn(u)' = ActiveOn(u)
  BY <1>2, DeleteEffect DEF ActiveOn, ActiveRuns
<1>4. Slots' = Slots
  BY <1>3, SlotAfter DEF Slots
<1>5. \A u \in Threads : u # t => Ledgers'[u] = Ledgers[u]
  <2> TAKE u \in Threads
  <2> HAVE u # t
  <2>1. SameResults(u)
    BY <1>2, DeleteEffect, RunsAssumption DEF SameResults
  <2> QED
    BY <2>1, DeleteEffect, SameEntries
<1>6. Ledgers'[t] = {}
  <2>1. messages'[t] = <<>>
    BY DeleteEffect
  <2>2. LedgerOf(t)' = {}
    BY <2>1 DEF LedgerOf
  <2> QED
    BY <2>2 DEF Ledgers
<1>7. Ledgers' = [Ledgers EXCEPT ![t] = {}]
  BY <1>5, <1>6 DEF Ledgers
<1> QED
  BY <1>1, <1>4, <1>7 DEF Ledger!Drop, Slots, Ledgers

\* Every step is a step of the ledger or is not seen in it.
LEMMA LedgerStep == IInv /\ IInv' /\ TranscriptInv /\ TranscriptInv' /\ [Next]_vars => [Ledger!Next]_(Ledger!ledgerVars)
<1> SUFFICES ASSUME IInv, IInv', TranscriptInv, TranscriptInv', [Next]_vars
             PROVE  Ledger!Next \/ LedgerStutter
  BY DEF Ledger!ledgerVars, LedgerStutter, Slots, Ledgers
<1>0. DBStep /\ LinkedTurnsAreAnswers'
  BY StepEffect DEF TranscriptInv
<1>1. ASSUME NEW r \in Runs, NEW o \in Terminal, PublishStep(r, o) PROVE Ledger!Next
  <2> DEFINE T == {home[r]}
  <2>1. T \in SUBSET Threads /\ home' = home /\ Grows
    BY <1>1, PublishEffect DEF PublishStep
  <2>2. \A t \in T : ActiveOn(t) # {} /\ \A q \in ActiveOn(t) : status'[q] \in Terminal
    BY <1>1, PublishEffect
  <2>3. \A q \in Runs : (status[q] \in Active /\ home[q] \in T) \/ (status'[q] = status[q] /\ Linked(q)' = Linked(q))
    BY <1>1, PublishEffect DEF PublishStep
  <2>4. Ledger!Publish(T)
    BY <1>0, <2>1, <2>2, <2>3, EndRefines
  <2> QED
    BY <2>1, <2>4 DEF Ledger!Next
<1>2. CASE ReconcileStepAlone
  <2> DEFINE T == {t \in Threads : ActiveOn(t) # {}}
  <2>1. T \in SUBSET Threads /\ home' = home /\ Grows
    BY <1>2, ReconcileEffect DEF ReconcileStepAlone
  <2>2. \A t \in T : ActiveOn(t) # {} /\ \A q \in ActiveOn(t) : status'[q] \in Terminal
    BY <1>2, ReconcileEffect DEF ActiveOn, ActiveRuns
  <2>3. \A q \in Runs : status[q] \in Active => home[q] \in T
    BY DEF ActiveOn, ActiveRuns, IInv, DBInv, RowsHaveHomes
  <2>4. \A q \in Runs : (status[q] \in Active /\ home[q] \in T) \/ (status'[q] = status[q] /\ Linked(q)' = Linked(q))
    BY <1>2, <2>3, ReconcileEffect
  <2>5. Ledger!Publish(T)
    BY <1>0, <2>1, <2>2, <2>4, EndRefines
  <2> QED
    BY <2>1, <2>5 DEF Ledger!Next
<1> QED
  BY <1>0, <1>1, <1>2, StutterStep, AdmitRefines, DropRefines DEF DBStep, Ledger!Next

\* The store keeps what it promises of a thread: one slot, emptied only by the commit
\* that publishes the run's one result, across crashes and racing reconciliations.
THEOREM LedgerImplemented == Spec => LedgerSpec
<1>1. Init /\ IInv => Ledger!Init
  <2> SUFFICES ASSUME Init, IInv PROVE Ledger!Init
    OBVIOUS
  <2>1. \A r \in Runs : status[r] \notin Terminal
    BY DEF Init, Terminal
  <2>2. \A t \in Threads : Slots[t] \in Runs \cup {NoRun} /\ (Slots[t] # NoRun => home[Slots[t]] = t)
    <3> TAKE t \in Threads
    <3>1. CASE ActiveOn(t) = {}
      BY <3>1, SlotIs
    <3>2. ASSUME NEW r \in ActiveOn(t) PROVE Slots[t] \in Runs /\ home[Slots[t]] = t
      BY <3>2, SlotIs DEF ActiveOn, ActiveRuns
    <3> QED
      BY <3>1, <3>2
  <2>3. \A t, u \in Threads : Slots[t] = Slots[u] /\ Slots[t] # NoRun => t = u
    BY <2>2
  <2>4. Slots \in [Threads -> Runs \cup {NoRun}]
    BY <2>2 DEF Slots
  <2>5. \A t \in Threads : LedgerOf(t) = {}
    <3> TAKE t \in Threads
    <3>1. messages[t] \in Seq(Message)
      BY DEF IInv, TypeOK
    <3> QED
      BY <2>1, <3>1, RunOfTurn DEF LedgerOf
  <2> QED
    BY <2>3, <2>4, <2>5 DEF Ledger!Init, Slots
<1> QED
  BY <1>1, InitInv, StepInv, TranscriptInit, TranscriptStep, LedgerStep, PTL DEF Spec, LedgerSpec, Ledger!Spec

-----------------------------------------------------------------------------
(***************************************************************************)
(* The client that replays a run while the program goes on.                 *)
(***************************************************************************)
\* A row that stays active keeps its replay log or gets one more frame.
GoesOn(r) ==
    /\ status[r] \in Active /\ status'[r] \in Active
    /\ events'[r] = events[r] \/ events'[r] = Append(events[r], "progress")

\* A row ends with the event that announces its outcome; a legacy row is interrupted.
EndsWith(r, o) ==
    /\ status[r] \in Active /\ status'[r] = o
    /\ events'[r] = Append(events[r], o)
    /\ r \in Legacy => o = "interrupted"

\* A legacy row ends with the outcome that its one terminal event announced before.
EndsRecovered(r, o) ==
    /\ r \in Legacy /\ status[r] \in Active /\ status'[r] = o
    /\ events'[r] = events[r]
    /\ TerminalIn(events[r]) = {Len(events[r])} /\ events[r][Len(events[r])] = o

RowStep(r) ==
    \/ status'[r] = "deleted"
    \/ status'[r] = status[r] /\ events'[r] = events[r]
    \/ status[r] = "unborn" /\ status'[r] = "queued" /\ events'[r] = <<>>
    \/ GoesOn(r)
    \/ \E o \in Terminal : EndsWith(r, o) \/ EndsRecovered(r, o)

\* That is all a step does to a row and its replay log.
LEMMA RowEffect ==
    ASSUME IInv, DBStep, NEW r \in Runs
    PROVE  RowStep(r)
<1>1. /\ status \in [Runs -> {"unborn", "deleted"} \cup Active \cup Terminal]
      /\ events \in [Runs -> Seq({"progress"} \cup Terminal)]
  BY DEF IInv, TypeOK
<1>2. CASE QuietStep
  BY <1>2 DEF QuietStep, RowStep, GoesOn
<1>3. ASSUME NEW q \in Runs, ClaimStep(q) PROVE RowStep(r)
  BY <1>1, <1>3 DEF ClaimStep, RowStep, GoesOn, Active
<1>4. ASSUME NEW q \in Runs, NEW o \in Terminal, PublishStep(q, o) PROVE RowStep(r)
  BY <1>1, <1>4 DEF PublishStep, Publish, RowStep, EndsWith
<1>5. CASE ReconcileStepAlone
  <2>1. CASE status[r] \notin Active
    BY <1>5, <2>1 DEF ReconcileStepAlone, Reconcile, RowStep
  <2>2. CASE status[r] \in Active /\ ~Recovered(r)
    <3>1. EndsWith(r, "interrupted") /\ "interrupted" \in Terminal
      BY <1>5, <2>2 DEF ReconcileStepAlone, Reconcile, EndsWith, Terminal
    <3> QED
      BY <3>1 DEF RowStep
  <2>3. CASE status[r] \in Active /\ Recovered(r)
    <3> DEFINE o == events[r][Len(events[r])]
    <3>1. r \in Legacy /\ TerminalIn(events[r]) = {Len(events[r])}
      BY <2>3 DEF Recovered, IInv, TypeOK
    <3>2. o \in Terminal
      BY <3>1 DEF TerminalIn
    <3>3. EndsRecovered(r, o)
      BY <1>5, <2>3, <3>1 DEF ReconcileStepAlone, Reconcile, EndsRecovered
    <3> QED
      BY <3>2, <3>3 DEF RowStep
  <2> QED
    BY <2>1, <2>2, <2>3
<1>6. ASSUME NEW q \in Runs, NEW t \in Threads, NEW retry \in BOOLEAN, AdmitStep(q, t, retry)
      PROVE  RowStep(r)
  BY <1>1, <1>6 DEF AdmitStep, RowStep, IInv, DBInv, UnbornIsBlank
<1>7. ASSUME NEW t \in Threads, DeleteThread(t) PROVE RowStep(r)
  BY <1>7 DEF DeleteThread, RowStep
<1>8. ASSUME NEW t \in Threads, NEW x \in Message, UnlinkedStep(t, x) PROVE RowStep(r)
  BY <1>8 DEF UnlinkedStep, RowStep
<1> QED
  BY <1>2, <1>3, <1>4, <1>5, <1>6, <1>7, <1>8 DEF DBStep

-----------------------------------------------------------------------------
\* The positions of the progress frames among the first n events.
ProgressUpTo(e, n) == {i \in 1..Len(e) : i <= n /\ e[i] = "progress"}

ReaderTyped ==
    /\ reader \in [state : {"detached", "polling", "ended", "failed"}, run : Runs \cup {NoRun},
                   cursor : Nat, shown : SUBSET Nat]
    /\ reader.state \in {"polling", "ended"} => reader.run \in Runs

\* An outcome is announced once, and last; the ambiguous events of an older version
\* before it announce something else.
SoleOutcome ==
    \A r \in Runs : status[r] \in Terminal =>
        \A i \in 1..Len(events[r]) : events[r][i] = status[r] => i = Len(events[r])

\* No version before this one wrote an interruption and left the row active.
LegacyUninterrupted ==
    \A r \in Legacy : status[r] \in Active =>
        \A i \in 1..Len(events[r]) : events[r][i] # "interrupted"

\* A polling client has shown the progress frames up to its cursor and nothing else,
\* and the last event of a finished run is still ahead of it.
KeepsUp ==
    LET r == reader.run IN
    reader.state = "polling" /\ status[r] # "deleted" =>
        /\ status[r] \in Active \cup Terminal
        /\ reader.cursor <= Len(events[r])
        /\ reader.shown = ProgressUpTo(events[r], reader.cursor)
        /\ r \in Legacy /\ status[r] \in Active => reader.cursor = 0
        /\ status[r] \in Terminal => reader.cursor < Len(events[r])

EndsWithTheRun ==
    reader.state = "ended" => status[reader.run] \in Terminal \cup {"deleted"}

RowsInv    == SoleOutcome /\ LegacyUninterrupted
ReaderInv  == KeepsUp /\ EndsWithTheRun /\ ReplayComplete
ReplayInv  == ReaderTyped /\ RowsInv /\ ReaderInv

\* An event added to a replay log is its last one; the others stay.
LEMMA LogAppend ==
    ASSUME NEW e \in Seq({"progress"} \cup Terminal), NEW x \in {"progress"} \cup Terminal
    PROVE  /\ Append(e, x) \in Seq({"progress"} \cup Terminal)
           /\ Len(e) \in Nat /\ Len(Append(e, x)) = Len(e) + 1
           /\ \A i \in 1..Len(e) : Append(e, x)[i] = e[i]
           /\ Append(e, x)[Len(e) + 1] = x
OBVIOUS

\* A longer log has the same progress frames up to an old position.
LEMMA ProgressKept ==
    ASSUME NEW e \in Seq({"progress"} \cup Terminal), NEW x \in {"progress"} \cup Terminal,
           NEW n \in Nat, n <= Len(e)
    PROVE  ProgressUpTo(Append(e, x), n) = ProgressUpTo(e, n)
BY LogAppend DEF ProgressUpTo

\* A step of the program keeps outcomes single and legacy logs uninterrupted.
LEMMA RowsKept ==
    ASSUME IInv, IInv', DBStep, RowsInv
    PROVE  RowsInv'
<1>1. /\ status \in [Runs -> {"unborn", "deleted"} \cup Active \cup Terminal]
      /\ events \in [Runs -> Seq({"progress"} \cup Terminal)]
      /\ Legacy \subseteq Runs
  BY RunsAssumption DEF IInv, TypeOK
<1>2. SUFFICES ASSUME NEW r \in Runs
               PROVE  /\ status'[r] \in Terminal =>
                            \A i \in 1..Len(events'[r]) : events'[r][i] = status'[r] => i = Len(events'[r])
                      /\ r \in Legacy /\ status'[r] \in Active =>
                            \A i \in 1..Len(events'[r]) : events'[r][i] # "interrupted"
  BY <1>1 DEF RowsInv, SoleOutcome, LegacyUninterrupted
<1> DEFINE e == events[r]
<1>3. e \in Seq({"progress"} \cup Terminal) /\ Len(e) \in Nat
  BY <1>1
<1>4. CASE status'[r] = "deleted"
  BY <1>4 DEF Active, Terminal
<1>5. CASE status'[r] = status[r] /\ events'[r] = events[r]
  BY <1>5 DEF RowsInv, SoleOutcome, LegacyUninterrupted
<1>6. CASE status'[r] = "queued" /\ events'[r] = <<>>
  BY <1>6 DEF Terminal
<1>7. CASE GoesOn(r)
  <2>1. status'[r] \notin Terminal /\ status[r] \in Active
    BY <1>7 DEF GoesOn, Active, Terminal
  <2>2. CASE events'[r] = e
    BY <2>1, <2>2 DEF RowsInv, LegacyUninterrupted
  <2>3. CASE events'[r] = Append(e, "progress")
    BY <1>3, <2>1, <2>3, LogAppend DEF RowsInv, LegacyUninterrupted
  <2> QED
    BY <1>7, <2>2, <2>3 DEF GoesOn
<1>8. ASSUME NEW o \in Terminal, EndsWith(r, o)
      PROVE  /\ status'[r] \notin Active
             /\ \A i \in 1..Len(events'[r]) : events'[r][i] = status'[r] => i = Len(events'[r])
  <2>1. \A i \in 1..Len(e) : e[i] # o
    <3>1. CASE r \in Legacy
      BY <1>8, <3>1 DEF EndsWith, RowsInv, LegacyUninterrupted
    <3>2. CASE r \notin Legacy
      BY <1>8, <3>2 DEF EndsWith, IInv, DBInv, AtomicPublication, PublishedAtomically, TerminalIn
    <3> QED
      BY <3>1, <3>2
  <2>2. /\ Len(events'[r]) = Len(e) + 1
        /\ \A i \in 1..Len(e) : events'[r][i] = e[i]
    BY <1>3, <1>8, LogAppend DEF EndsWith
  <2> QED
    BY <1>3, <1>8, <2>1, <2>2 DEF EndsWith, Active, Terminal
<1>9. ASSUME NEW o \in Terminal, EndsRecovered(r, o)
      PROVE  /\ status'[r] \notin Active
             /\ \A i \in 1..Len(events'[r]) : events'[r][i] = status'[r] => i = Len(events'[r])
  <2>1. \A i \in 1..Len(e) : e[i] \in Terminal => i = Len(e)
    BY <1>9 DEF EndsRecovered, TerminalIn
  <2> QED
    BY <1>9, <2>1 DEF EndsRecovered, Active, Terminal
<1>10. RowStep(r)
  BY RowEffect
<1> QED
  BY <1>4, <1>5, <1>6, <1>7, <1>8, <1>9, <1>10 DEF RowStep

\* A step of the program leaves a polling client in step with the log, and what an
\* ended client has shown complete.
LEMMA ReaderKept ==
    ASSUME IInv, DBStep, ReaderTyped, ReaderInv, UNCHANGED reader
    PROVE  ReaderInv'
<1> DEFINE r == reader.run
           e == events[r]
           c == reader.cursor
<1>1. CASE reader.state \notin {"polling", "ended"}
  BY <1>1 DEF ReaderInv, KeepsUp, EndsWithTheRun, ReplayComplete
<1>2. CASE reader.state \in {"polling", "ended"}
  <2>1. r \in Runs /\ c \in Nat
    BY <1>2 DEF ReaderTyped
  <2>2. e \in Seq({"progress"} \cup Terminal) /\ Len(e) \in Nat
    BY <2>1 DEF IInv, TypeOK
  <2>3. RowStep(r)
    BY <2>1, RowEffect
  <2>4. CASE status'[r] = "deleted"
    BY <2>4 DEF ReaderInv, KeepsUp, EndsWithTheRun, ReplayComplete
  <2>5. CASE status'[r] = status[r] /\ events'[r] = e
    BY <2>5 DEF ReaderInv, KeepsUp, EndsWithTheRun, ReplayComplete
  <2>6. ASSUME status[r] \notin {"unborn", "deleted"}, status[r] \notin Terminal
        PROVE  /\ reader.state = "polling" /\ c <= Len(e) /\ reader.shown = ProgressUpTo(e, c)
               /\ r \in Legacy => c = 0
    <3>1. status[r] \in Active
      BY <2>1, <2>6 DEF IInv, TypeOK
    <3> QED
      BY <1>2, <2>6, <3>1 DEF ReaderInv, KeepsUp, EndsWithTheRun
  <2>7. CASE status[r] = "unborn"
    BY <1>2, <2>7 DEF ReaderInv, KeepsUp, EndsWithTheRun, Active, Terminal
  <2>8. CASE GoesOn(r)
    <3>1. status'[r] \in Active /\ status[r] \notin {"unborn", "deleted"} /\ status[r] \notin Terminal
      BY <2>8 DEF GoesOn, Active, Terminal
    <3>2. /\ c <= Len(events'[r])
          /\ ProgressUpTo(events'[r], c) = ProgressUpTo(e, c)
      <4>1. CASE events'[r] = e
        BY <2>6, <3>1, <4>1
      <4>2. CASE events'[r] = Append(e, "progress")
        BY <2>1, <2>2, <2>6, <3>1, <4>2, LogAppend, ProgressKept
      <4> QED
        BY <2>8, <4>1, <4>2 DEF GoesOn
    <3>3. status'[r] \notin Terminal
      BY <3>1 DEF Active, Terminal
    <3> QED
      BY <2>6, <3>1, <3>2, <3>3 DEF ReaderInv, KeepsUp, EndsWithTheRun, ReplayComplete
  <2>9. ASSUME NEW o \in Terminal, EndsWith(r, o) PROVE ReaderInv'
    <3>1. status'[r] = o /\ o \notin Active /\ status[r] \notin {"unborn", "deleted"} /\ status[r] \notin Terminal
      BY <2>9 DEF EndsWith, Active, Terminal
    <3>2. /\ c < Len(events'[r])
          /\ ProgressUpTo(events'[r], c) = ProgressUpTo(e, c)
      <4>1. events'[r] = Append(e, o) /\ c <= Len(e)
        BY <2>6, <2>9, <3>1 DEF EndsWith
      <4>2. o \in {"progress"} \cup Terminal
        BY <2>9
      <4>3. Len(Append(e, o)) = Len(e) + 1
        BY <2>2, <4>2, LogAppend
      <4>4. ProgressUpTo(Append(e, o), c) = ProgressUpTo(e, c)
        BY <2>1, <2>2, <4>1, <4>2, ProgressKept
      <4> QED
        BY <2>1, <2>2, <4>1, <4>3, <4>4
    <3>3. Len(events'[r]) \in Nat
      BY <2>2, <2>9, LogAppend DEF EndsWith
    <3> QED
      BY <2>1, <2>6, <3>1, <3>2, <3>3 DEF ReaderInv, KeepsUp, EndsWithTheRun, ReplayComplete
  <2>10. ASSUME NEW o \in Terminal, EndsRecovered(r, o) PROVE ReaderInv'
    <3>1. /\ status'[r] = o /\ o \notin Active /\ status[r] \notin {"unborn", "deleted"} /\ status[r] \notin Terminal
          /\ events'[r] = e
      BY <2>10 DEF EndsRecovered, Active, Terminal
    <3>2. c = 0 /\ Len(e) > 0
      BY <2>2, <2>6, <2>10, <3>1 DEF EndsRecovered, TerminalIn
    <3> QED
      BY <2>6, <3>1, <3>2 DEF ReaderInv, KeepsUp, EndsWithTheRun, ReplayComplete
  <2> QED
    BY <2>3, <2>4, <2>5, <2>7, <2>8, <2>9, <2>10 DEF RowStep
<1> QED
  BY <1>1, <1>2

\* The cursor moves to the end of the page, or of the log when that comes first.
LEMMA CursorMoves ==
    ASSUME NEW r \in Runs, events[r] \in Seq({"progress"} \cup Terminal), NEW c \in Nat, c <= Len(events[r])
    PROVE  NextCursor(Page(r, c), c) = IF HasMore(r, c) THEN c + PageSize ELSE Len(events[r])
<1> DEFINE n == Len(events[r])
           last == IF n > c + PageSize THEN c + PageSize ELSE n
<1>1. n \in Nat /\ PageSize \in Nat \ {0}
  BY PageAssumption
<1>2. CASE c = n
  <2>1. Page(r, c) = {}
    BY <1>1, <1>2 DEF Page
  <2> QED
    BY <1>1, <1>2, <2>1 DEF NextCursor, HasMore
<1>3. CASE c < n
  <2>1. last \in Page(r, c) /\ \A j \in Page(r, c) : j <= last
    BY <1>1, <1>3 DEF Page
  <2>2. \A i \in Page(r, c) : (\A j \in Page(r, c) : j <= i) => i = last
    BY <1>1, <2>1 DEF Page
  <2>3. (CHOOSE i \in Page(r, c) : \A j \in Page(r, c) : j <= i) = last
    BY <2>1, <2>2
  <2> QED
    BY <2>1, <2>3 DEF NextCursor, HasMore
<1> QED
  BY <1>1, <1>2, <1>3

\* A page answered by the store keeps the client in step, or ends it with all shown.
LEMMA PollKeeps ==
    ASSUME IInv, ReplayInv, PollPage
    PROVE  ReplayInv'
<1> DEFINE r == reader.run
           e == events[r]
           c == reader.cursor
           d == NextCursor(Page(r, c), c)
           seen == reader.shown \cup {i \in Page(r, c) : ShouldApply(status[r], e[i])}
           after == IF status[r] \in Terminal /\ ~HasMore(r, c) THEN "ended" ELSE "polling"
<1>1. /\ r \in Runs /\ c \in Nat /\ reader.shown \subseteq Nat
      /\ reader.state = "polling" /\ status[r] \in Active \cup Terminal
  BY DEF ReplayInv, ReaderTyped, PollPage
<1>2. /\ e \in Seq({"progress"} \cup Terminal) /\ Len(e) \in Nat
      /\ PageSize \in Nat \ {0}
  BY <1>1, PageAssumption DEF IInv, TypeOK
<1>3. /\ c <= Len(e) /\ reader.shown = ProgressUpTo(e, c)
      /\ status[r] \in Terminal => c < Len(e)
  BY <1>1 DEF ReplayInv, ReaderInv, KeepsUp, Active, Terminal
<1>4. r \in Legacy => status[r] \notin Active
  BY DEF PollPage, IInv, MemInv
<1>5. reader' = [reader EXCEPT !.cursor = d, !.shown = seen, !.state = after]
  BY <1>1 DEF PollPage
<1>6. /\ reader'.run = r /\ reader'.cursor = d /\ reader'.shown = seen /\ reader'.state = after
      /\ UNCHANGED <<status, events>>
  BY <1>5 DEF PollPage, ReplayInv, ReaderTyped, vars, db
<1>7. d = IF HasMore(r, c) THEN c + PageSize ELSE Len(e)
  BY <1>1, <1>2, <1>3, CursorMoves
<1> HIDE DEF d
<1>8. d \in Nat /\ c <= d /\ d <= Len(e) /\ (HasMore(r, c) => d < Len(e))
  BY <1>1, <1>2, <1>3, <1>7 DEF HasMore
<1>9. Page(r, c) = {i \in 1..Len(e) : c < i /\ i <= d}
  <2>1. \A i \in 1..Len(e) : i <= c + PageSize <=> i <= d
    BY <1>1, <1>2, <1>3, <1>7 DEF HasMore
  <2> QED
    BY <2>1 DEF Page
<1>10. ReaderTyped'
  <2>1. seen \subseteq Nat
    BY <1>1, <1>2, <1>9
  <2> QED
    BY <1>1, <1>5, <1>8, <2>1 DEF ReplayInv, ReaderTyped
<1>11. RowsInv'
  BY <1>6 DEF ReplayInv, RowsInv, SoleOutcome, LegacyUninterrupted
<1>12. ASSUME \A i \in Page(r, c) : ShouldApply(status[r], e[i]) <=> e[i] = "progress"
       PROVE  seen = ProgressUpTo(e, d)
  <2>1. \A i : i \in seen <=> i \in ProgressUpTo(e, c) \/ (i \in Page(r, c) /\ e[i] = "progress")
    BY <1>3, <1>12
  <2>2. \A i : i \in seen <=> i \in ProgressUpTo(e, d)
    BY <1>1, <1>2, <1>8, <1>9, <2>1 DEF ProgressUpTo
  <2> QED
    BY <2>2
<1>13. CASE status[r] \in Active
  <2>1. \A i \in Page(r, c) : ShouldApply(status[r], e[i]) <=> e[i] = "progress"
    BY <1>2, <1>9, <1>13 DEF ShouldApply, Active, Terminal
  <2>2. after = "polling" /\ status[r] \notin Terminal
    BY <1>13 DEF Active, Terminal
  <2> QED
    BY <1>1, <1>4, <1>6, <1>8, <1>10, <1>11, <1>12, <1>13, <2>1, <2>2
       DEF ReplayInv, ReaderInv, KeepsUp, EndsWithTheRun, ReplayComplete
<1>14. CASE status[r] \in Terminal
  <2>1. \A i \in 1..Len(e) : e[i] = status[r] <=> i = Len(e)
    BY <1>1, <1>2, <1>3, <1>14
       DEF ReplayInv, RowsInv, SoleOutcome, IInv, DBInv, AtomicPublication, PublishedAtomically
  <2>2. \A i \in 1..Len(e) : ShouldApply(status[r], e[i]) <=> e[i] = "progress" \/ i = Len(e)
    BY <1>2, <1>14, <2>1 DEF ShouldApply, Terminal
  <2>3. status[r] \notin Active /\ status[r] # "deleted"
    BY <1>14 DEF Active, Terminal
  <2>4. CASE HasMore(r, c)
    <3>1. \A i \in Page(r, c) : ShouldApply(status[r], e[i]) <=> e[i] = "progress"
      <4>1. \A i \in Page(r, c) : i \in 1..Len(e) /\ i # Len(e)
        BY <1>2, <1>8, <1>9, <2>4
      <4> QED
        BY <2>2, <4>1
    <3> QED
      BY <1>1, <1>6, <1>8, <1>10, <1>11, <1>12, <1>14, <2>3, <2>4, <3>1
         DEF ReplayInv, ReaderInv, KeepsUp, EndsWithTheRun, ReplayComplete
  <2>5. CASE ~HasMore(r, c)
    <3>1. d = Len(e) /\ c < Len(e) /\ after = "ended"
      BY <1>3, <1>7, <1>14, <2>5
    <3>2. seen = {i \in 1..Len(e) : e[i] = "progress"} \cup {Len(e)}
      <4>1. Page(r, c) \subseteq 1..Len(e)
        BY <1>9
      <4>2. \A i : i \in seen <=>
                 i \in ProgressUpTo(e, c) \/ (i \in Page(r, c) /\ (e[i] = "progress" \/ i = Len(e)))
        BY <1>3, <2>2, <4>1
      <4>3. \A i : i \in seen <=> i \in {j \in 1..Len(e) : e[j] = "progress"} \cup {Len(e)}
        BY <1>1, <1>2, <1>8, <1>9, <3>1, <4>2 DEF ProgressUpTo
      <4> QED
        BY <4>3
    <3> QED
      BY <1>6, <1>10, <1>11, <1>14, <3>1, <3>2
         DEF ReplayInv, ReaderInv, KeepsUp, EndsWithTheRun, ReplayComplete
  <2> QED
    BY <2>4, <2>5
<1> QED
  BY <1>1, <1>13, <1>14

\* Every step of program and client keeps the client's invariant.
LEMMA ReplayStep ==
    ASSUME IInv, IInv', DirectCounted, ReplayInv, [ReplayNext]_replayVars
    PROVE  ReplayInv'
<1>1. CASE [Next]_vars /\ UNCHANGED <<reader, attached>>
  <2>1. DBStep
    BY <1>1, StepEffect
  <2>2. RowsInv' /\ ReaderInv'
    BY <1>1, <2>1, RowsKept, ReaderKept DEF ReplayInv
  <2>3. ReaderTyped'
    BY <1>1 DEF ReplayInv, ReaderTyped
  <2> QED
    BY <2>2, <2>3 DEF ReplayInv
<1>2. ASSUME NEW r \in Runs, Attach(r) PROVE ReplayInv'
  <2>1. events[r] \in Seq({"progress"} \cup Terminal) /\ Len(events[r]) \in Nat
    BY DEF IInv, TypeOK
  <2>2. /\ reader' = [state |-> "polling", run |-> r, cursor |-> 0, shown |-> {}]
        /\ status[r] \in Active /\ status[r] \notin Terminal
        /\ UNCHANGED <<status, events>>
    BY <1>2 DEF Attach, vars, db, Active, Terminal
  <2>3. ProgressUpTo(events[r], 0) = {}
    BY <2>1 DEF ProgressUpTo
  <2> QED
    BY <2>1, <2>2, <2>3
       DEF ReplayInv, ReaderTyped, RowsInv, SoleOutcome, LegacyUninterrupted, ReaderInv, KeepsUp, EndsWithTheRun, ReplayComplete
<1>3. CASE Detach \/ PollFails
  <2>1. /\ reader' \in {Detached, [reader EXCEPT !.state = "failed"]}
        /\ UNCHANGED <<status, events>>
    BY <1>3 DEF Detach, PollFails, vars, db
  <2>2. reader'.state \in {"detached", "failed"}
    BY <2>1 DEF Detached, ReplayInv, ReaderTyped
  <2>3. ReaderTyped'
    BY <2>1 DEF Detached, ReplayInv, ReaderTyped
  <2> QED
    BY <2>1, <2>2, <2>3
       DEF ReplayInv, RowsInv, SoleOutcome, LegacyUninterrupted, ReaderInv, KeepsUp, EndsWithTheRun, ReplayComplete
<1>4. CASE PollPage
  BY <1>4, PollKeeps
<1> QED
  BY <1>1, <1>2, <1>3, <1>4 DEF ReplayNext, ReaderStep, replayVars

\* A client whose loop ended has shown every progress frame and exactly one outcome,
\* the run's own, for any page size, any number of runs and any point at which the run
\* was published, recovered or deleted (pollRun, list_research_run_events).
THEOREM ReplayShowsAll == ReplaySpec => []ReplayComplete
<1>1. ReplayInit => Init /\ ReplayInv
  <2> SUFFICES ASSUME ReplayInit PROVE ReplayInv
    BY DEF ReplayInit
  <2>1. \A r \in Runs : status[r] \notin Terminal
    BY DEF ReplayInit, Init, Terminal
  <2>2. LegacyUninterrupted
    BY RunsAssumption DEF ReplayInit, Init, LegacyUninterrupted, LegacyEvents
  <2>3. ReaderTyped /\ reader.state = "detached"
    BY DEF ReplayInit, Detached, ReaderTyped
  <2> QED
    BY <2>1, <2>2, <2>3 DEF ReplayInv, RowsInv, SoleOutcome, ReaderInv, KeepsUp, EndsWithTheRun, ReplayComplete
<1>2. [ReplayNext]_replayVars => [Next]_vars
  BY DEF ReplayNext, ReaderStep, Attach, Detach, PollPage, PollFails, replayVars
<1>3. ReplayInv => ReplayComplete
  BY DEF ReplayInv, ReaderInv
<1>4. TranscriptInv => DirectCounted
  BY DEF TranscriptInv
<1> QED
  BY <1>1, <1>2, <1>3, <1>4, InitInv, StepInv, TranscriptInit, TranscriptStep, ReplayStep, PTL DEF ReplaySpec
=============================================================================
