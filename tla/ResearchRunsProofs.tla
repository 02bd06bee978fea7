-------------------------- MODULE ResearchRunsProofs --------------------------
(***************************************************************************)
(* Proofs about ResearchRuns, for any number of threads, runs, stores,      *)
(* lifetimes and faults.                                                    *)
(***************************************************************************)
EXTENDS ResearchRuns, TLAPS

(***************************************************************************)
(* The inductive invariant.  DBInv is about the database alone, so that one *)
(* lemma per transaction serves every caller of it; MemInv ties the process *)
(* to it: nothing works on the store before the first reconciliation, and   *)
(* that reconciliation leaves no legacy run active.                         *)
(***************************************************************************)
RowsHaveHomes ==
    \A r \in Runs : home[r] \in Threads <=> status[r] \in Active \cup Terminal

TurnsStayHome ==
    \A t \in Threads : \A i \in 1..Len(messages[t]) :
        messages[t][i].run # NoRun => home[messages[t][i].run] = t

UnbornIsBlank ==
    \A r \in Runs : status[r] = "unborn" => events[r] = <<>> /\ r \notin Legacy

LegacyTurnsAtMostOne ==
    \A r \in Legacy : status[r] \in Active => Linked(r) = {} \/ \E i \in Linked(r) : Linked(r) = {i}

DBInv ==
    /\ RowsHaveHomes
    /\ TurnsStayHome
    /\ UnbornIsBlank
    /\ LegacyTurnsAtMostOne
    /\ OneActiveRun
    /\ ActiveThreadIsCurrent
    /\ AtomicPublication

MemInv ==
    /\ cached # NoStore => \A r \in Legacy : status[r] \notin Active
    /\ cached = NoStore =>
          /\ creating.pc = "idle"
          /\ \A r \in Runs : task[r] = "none"
          /\ cancelling = {}
          /\ \A s \in Stores : opener[s] # "late"
    /\ creating.pc = "admit" => creating.thread \in Threads
    /\ creating.pc # "idle" => creating.store \in Stores
    /\ creating.pc \in {"schedule", "handoff"} => creating.run \in Runs

IInv == TypeOK /\ DBInv /\ MemInv

-----------------------------------------------------------------------------
(***************************************************************************)
(* Type correctness.                                                        *)
(***************************************************************************)
\* Publishing a turn keeps the tables well typed.
LEMMA PublishType ==
    ASSUME TypeOK, NEW r \in Runs, home[r] \in Threads, NEW o \in Terminal, Publish(r, o)
    PROVE  /\ status' \in [Runs -> {"unborn", "deleted"} \cup Active \cup Terminal]
           /\ events' \in [Runs -> Seq({"progress"} \cup Terminal)]
           /\ messages' \in [Threads -> Seq(Message)]
<1>1. PICK k \in AnswerKinds(o) : messages' = [messages EXCEPT ![home[r]] = Append(@, Answer(r, k))]
  BY DEF Publish
<1>2. Answer(r, k) \in Message
  BY DEF Answer, AnswerKinds, Message, Kinds
<1> QED
  BY <1>1, <1>2 DEF Publish, TypeOK

(***************************************************************************)
(* Appending to a transcript or to a replay log.                            *)
(***************************************************************************)
\* An appended turn is linked to its own run and to no other.
LEMMA LinkedAppend ==
    ASSUME NEW m \in Seq(Message), NEW x \in Message, NEW r
    PROVE  LinkedIn(Append(m, x), r) =
             IF x.run = r THEN LinkedIn(m, r) \cup {Len(m) + 1} ELSE LinkedIn(m, r)
<1>1. Len(Append(m, x)) = Len(m) + 1 /\ Len(m) \in Nat
  OBVIOUS
<1>2. \A i \in 1..Len(m) : Append(m, x)[i] = m[i]
  OBVIOUS
<1>3. Append(m, x)[Len(m) + 1] = x
  OBVIOUS
<1> QED
  BY <1>1, <1>2, <1>3 DEF LinkedIn

\* An appended event is the last one (append_running_event and the terminal events).
LEMMA LastAppend ==
    ASSUME NEW e \in Seq({"progress"} \cup Terminal), NEW k \in {"progress"} \cup Terminal
    PROVE  /\ Append(e, k) # <<>> /\ Len(Append(e, k)) = Len(e) + 1
           /\ Append(e, k)[Len(Append(e, k))] = k
OBVIOUS

\* An appended progress event adds no terminal event; a terminal one adds exactly one.
LEMMA TerminalAppend ==
    ASSUME NEW e \in Seq({"progress"} \cup Terminal), NEW k \in {"progress"} \cup Terminal
    PROVE  TerminalIn(Append(e, k)) =
             IF k \in Terminal THEN TerminalIn(e) \cup {Len(e) + 1} ELSE TerminalIn(e)
<1>1. Len(Append(e, k)) = Len(e) + 1 /\ Len(e) \in Nat
  OBVIOUS
<1>2. \A i \in 1..Len(e) : Append(e, k)[i] = e[i]
  OBVIOUS
<1>3. Append(e, k)[Len(e) + 1] = k
  OBVIOUS
<1> QED
  BY <1>1, <1>2, <1>3 DEF TerminalIn

(***************************************************************************)
(* One lemma per transaction.                                               *)
(***************************************************************************)
\* Publishing terminal event, status and turn together keeps the database invariant.
LEMMA PublishDB ==
    ASSUME TypeOK, DBInv, NEW r \in Runs \ Legacy, status[r] \in Active,
           NEW o \in Terminal, Publish(r, o), UNCHANGED <<thread, home>>
    PROVE  DBInv'
<1> DEFINE h == home[r]
<1>0. PICK k \in AnswerKinds(o) : messages' = [messages EXCEPT ![h] = Append(messages[h], Answer(r, k))]
  BY DEF Publish
<1> DEFINE x == Answer(r, k)
<1>1. /\ h \in Threads /\ Linked(r) = {} /\ TerminalIn(events[r]) = {}
      /\ x \in Message /\ x.run = r /\ x.kind \in AnswerKinds(o)
      /\ r # NoRun
  BY RunsAssumption DEF DBInv, RowsHaveHomes, AtomicPublication, PublishedAtomically, Answer, AnswerKinds, Message, Kinds
<1>2. /\ status' = [status EXCEPT ![r] = o]
      /\ events' = [events EXCEPT ![r] = Append(events[r], o)]
      /\ messages' = [messages EXCEPT ![h] = Append(messages[h], x)]
  BY <1>0 DEF Publish
<1>3. /\ events[r] \in Seq({"progress"} \cup Terminal) /\ messages[h] \in Seq(Message)
      /\ status' \in [Runs -> {"unborn", "deleted"} \cup Active \cup Terminal]
      /\ Len(messages[h]) \in Nat /\ Len(events[r]) \in Nat
  BY <1>1, PublishType DEF TypeOK
<1>4. \A q \in Runs : q # r => status'[q] = status[q] /\ events'[q] = events[q] /\ Linked(q)' = Linked(q)
  <2> TAKE q \in Runs
  <2> HAVE q # r
  <2>1. LinkedIn(Append(messages[h], x), q) = LinkedIn(messages[h], q)
    BY <1>1, <1>3, LinkedAppend
  <2>2. CASE home[q] = h
    BY <2>1, <2>2, <1>1, <1>2 DEF Linked, TypeOK
  <2>3. CASE home[q] # h
    BY <2>3, <1>1, <1>2 DEF Linked, TypeOK
  <2> QED
    BY <2>2, <2>3, <1>2 DEF TypeOK
<1>5. /\ Linked(r)' = {Len(messages[h]) + 1}
      /\ messages'[h][Len(messages[h]) + 1] = x
  <2>1. LinkedIn(Append(messages[h], x), r) = LinkedIn(messages[h], r) \cup {Len(messages[h]) + 1}
    BY <1>1, <1>3, LinkedAppend
  <2>2. messages'[h] = Append(messages[h], x)
    BY <1>1, <1>2 DEF TypeOK
  <2> QED
    BY <2>1, <2>2, <1>1, <1>3 DEF Linked
<1>6. /\ TerminalIn(events'[r]) = {Len(events[r]) + 1}
      /\ Len(events'[r]) = Len(events[r]) + 1
      /\ events'[r] # <<>> /\ events'[r][Len(events'[r])] = o
  <2>1. events'[r] = Append(events[r], o)
    BY <1>2 DEF TypeOK
  <2>2. TerminalIn(Append(events[r], o)) = TerminalIn(events[r]) \cup {Len(events[r]) + 1}
    BY <1>3, TerminalAppend
  <2> QED
    BY <2>1, <2>2, <1>1, <1>3
<1>7. o \notin Active /\ status'[r] = o
  BY <1>2 DEF Active, Terminal, TypeOK
<1>8. RowsHaveHomes' /\ OneActiveRun' /\ ActiveThreadIsCurrent'
  BY <1>4, <1>7 DEF DBInv, RowsHaveHomes, OneActiveRun, ActiveThreadIsCurrent, ActiveOn, ActiveRuns
<1>9. UnbornIsBlank' /\ LegacyTurnsAtMostOne'
  BY <1>4, <1>7, RunsAssumption DEF DBInv, UnbornIsBlank, LegacyTurnsAtMostOne, Terminal
<1>10. TurnsStayHome'
  <2> SUFFICES ASSUME NEW t \in Threads, NEW i \in 1..Len(messages'[t]), messages'[t][i].run # NoRun
               PROVE  home[messages'[t][i].run] = t
    BY DEF TurnsStayHome
  <2>1. CASE t # h
    BY <2>1, <1>2 DEF DBInv, TurnsStayHome, TypeOK
  <2>2. CASE t = h
    <3>1. messages'[t] = Append(messages[h], x)
      BY <2>2, <1>1, <1>2 DEF TypeOK
    <3>2. i \in 1..(Len(messages[h]) + 1)
      BY <3>1, <1>3
    <3>3. CASE i = Len(messages[h]) + 1
      BY <3>1, <3>3, <2>2, <1>1, <1>3
    <3>4. CASE i \in 1..Len(messages[h])
      BY <3>1, <3>4, <2>2, <1>1, <1>3 DEF DBInv, TurnsStayHome
    <3> QED
      BY <3>2, <3>3, <3>4, <1>3
  <2> QED
    BY <2>1, <2>2
<1>11. AtomicPublication'
  <2> SUFFICES ASSUME NEW q \in Runs PROVE PublishedAtomically(q)'
    BY DEF AtomicPublication
  <2>0. PublishedAtomically(q)
    BY DEF DBInv, AtomicPublication
  <2>1. CASE q = r
    BY <2>1, <1>1, <1>5, <1>6, <1>7 DEF PublishedAtomically
  <2>2. CASE q # r
    <3>1. \A i \in Linked(q) : messages'[home[q]][i] = messages[home[q]][i]
      BY <1>1, <1>2, <1>3 DEF Linked, LinkedIn, TypeOK
    <3> QED
      BY <2>0, <2>2, <3>1, <1>4 DEF PublishedAtomically
  <2> QED
    BY <2>1, <2>2
<1> QED
  BY <1>8, <1>9, <1>10, <1>11 DEF DBInv

\* Steps that leave the five tables alone keep what is said of them.
LEMMA SameDB ==
    ASSUME DBInv, UNCHANGED <<thread, status, home, events, messages>>
    PROVE  DBInv'
BY DEF DBInv, RowsHaveHomes, TurnsStayHome, UnbornIsBlank, LegacyTurnsAtMostOne, OneActiveRun,
       ActiveThreadIsCurrent, AtomicPublication, PublishedAtomically, ActiveOn, ActiveRuns, Linked, LinkedIn, TerminalIn

\* the claim of a queued row
LEMMA ClaimDB ==
    ASSUME TypeOK, DBInv, NEW r \in Runs, status[r] = "queued",
           status' = [status EXCEPT ![r] = "running"],
           UNCHANGED <<thread, home, events, messages>>
    PROVE  DBInv'
<1>1. \A q \in Runs : /\ status'[q] \in Active <=> status[q] \in Active
                      /\ status'[q] \in Terminal => status[q] = status'[q]
                      /\ status[q] \in Terminal => status[q] = status'[q]
                      /\ status'[q] = "unborn" => status[q] = "unborn"
                      /\ Linked(q)' = Linked(q)
  BY DEF TypeOK, Active, Terminal, Linked
<1>2. RowsHaveHomes' /\ TurnsStayHome' /\ UnbornIsBlank' /\ LegacyTurnsAtMostOne'
  BY <1>1, RunsAssumption DEF DBInv, RowsHaveHomes, TurnsStayHome, UnbornIsBlank, LegacyTurnsAtMostOne
<1>3. OneActiveRun' /\ ActiveThreadIsCurrent'
  BY <1>1 DEF DBInv, OneActiveRun, ActiveThreadIsCurrent, ActiveOn, ActiveRuns
<1>4. AtomicPublication'
  BY <1>1 DEF DBInv, AtomicPublication, PublishedAtomically
<1> QED
  BY <1>2, <1>3, <1>4 DEF DBInv

\* a progress frame accepted by a running row
LEMMA FrameDB ==
    ASSUME TypeOK, DBInv, NEW r \in Runs \ Legacy, status[r] = "running",
           events' = [events EXCEPT ![r] = Append(@, "progress")],
           UNCHANGED <<thread, status, home, messages>>
    PROVE  DBInv'
<1>1. \A q \in Runs : Linked(q)' = Linked(q)
  BY DEF Linked
<1>2. TerminalIn(events'[r]) = TerminalIn(events[r])
  <2>1. events'[r] = Append(events[r], "progress") /\ events[r] \in Seq({"progress"} \cup Terminal)
    BY DEF TypeOK
  <2>2. "progress" \notin Terminal
    BY DEF Terminal
  <2> QED
    BY <2>1, <2>2, TerminalAppend
<1>3. \A q \in Runs : q # r => events'[q] = events[q]
  BY DEF TypeOK
<1>4. RowsHaveHomes' /\ TurnsStayHome' /\ LegacyTurnsAtMostOne' /\ OneActiveRun' /\ ActiveThreadIsCurrent'
  BY <1>1, RunsAssumption DEF DBInv, RowsHaveHomes, TurnsStayHome, LegacyTurnsAtMostOne, OneActiveRun,
     ActiveThreadIsCurrent, ActiveOn, ActiveRuns
<1>5. UnbornIsBlank'
  BY <1>3 DEF DBInv, UnbornIsBlank
<1>6. AtomicPublication'
  <2> SUFFICES ASSUME NEW q \in Runs PROVE PublishedAtomically(q)'
    BY DEF AtomicPublication
  <2>0. PublishedAtomically(q)
    BY DEF DBInv, AtomicPublication
  <2>1. CASE q = r
    BY <2>0, <2>1, <1>1, <1>2 DEF PublishedAtomically, Active, Terminal
  <2>2. CASE q # r
    BY <2>0, <2>2, <1>1, <1>3 DEF PublishedAtomically
  <2> QED
    BY <2>1, <2>2
<1> QED
  BY <1>4, <1>5, <1>6 DEF DBInv

\* a turn linked to no run
LEMMA UnlinkedDB ==
    ASSUME TypeOK, DBInv, NEW t \in Threads, NEW x \in Message, x.run = NoRun,
           messages' = [messages EXCEPT ![t] = Append(@, x)],
           UNCHANGED <<thread, status, home, events>>
    PROVE  DBInv'
<1>1. messages[t] \in Seq(Message) /\ Len(messages[t]) \in Nat /\ messages'[t] = Append(messages[t], x)
  BY DEF TypeOK
<1>2. \A q \in Runs : Linked(q)' = Linked(q)
  <2> TAKE q \in Runs
  <2>1. q # NoRun
    BY RunsAssumption
  <2>2. LinkedIn(Append(messages[t], x), q) = LinkedIn(messages[t], q)
    BY <2>1, <1>1, LinkedAppend
  <2> QED
    BY <2>2, <1>1 DEF Linked, TypeOK
<1>3. \A u \in Threads, i \in Nat : i \in 1..Len(messages[u]) => messages'[u][i] = messages[u][i]
  BY <1>1 DEF TypeOK
<1>4. TurnsStayHome'
  <2> SUFFICES ASSUME NEW u \in Threads, NEW i \in 1..Len(messages'[u]), messages'[u][i].run # NoRun
               PROVE  home[messages'[u][i].run] = u
    BY DEF TurnsStayHome
  <2>1. i \in 1..Len(messages[u])
    BY <1>1 DEF TypeOK
  <2> QED
    BY <2>1, <1>3 DEF DBInv, TurnsStayHome
<1>5. \A q \in Runs : \A i \in Linked(q) : messages'[home[q]][i] = messages[home[q]][i]
  BY <1>3 DEF Linked, LinkedIn
<1>6. AtomicPublication'
  <2> SUFFICES ASSUME NEW q \in Runs PROVE PublishedAtomically(q)'
    BY DEF AtomicPublication
  <2>0. PublishedAtomically(q)
    BY DEF DBInv, AtomicPublication
  <2>1. Linked(q)' = Linked(q) /\ \A i \in Linked(q) : messages'[home[q]][i] = messages[home[q]][i]
    BY <1>2, <1>5
  <2> QED
    BY <2>0, <2>1 DEF PublishedAtomically
<1>7. RowsHaveHomes' /\ UnbornIsBlank' /\ LegacyTurnsAtMostOne' /\ OneActiveRun' /\ ActiveThreadIsCurrent'
  BY <1>2, RunsAssumption DEF DBInv, RowsHaveHomes, UnbornIsBlank, LegacyTurnsAtMostOne, OneActiveRun,
     ActiveThreadIsCurrent, ActiveOn, ActiveRuns
<1> QED
  BY <1>4, <1>6, <1>7 DEF DBInv

\* archiving or restoring a thread; archiving requires an idle one
LEMMA ThreadDB ==
    ASSUME DBInv, UNCHANGED <<status, home, events, messages>>,
           \A t \in Threads : ActiveOn(t) # {} => (thread[t] = "current" => thread'[t] = "current")
    PROVE  DBInv'
<1>1. ActiveThreadIsCurrent'
  BY DEF DBInv, ActiveThreadIsCurrent, ActiveOn, ActiveRuns
<1>2. RowsHaveHomes' /\ TurnsStayHome' /\ UnbornIsBlank' /\ LegacyTurnsAtMostOne' /\ OneActiveRun' /\ AtomicPublication'
  BY DEF DBInv, RowsHaveHomes, TurnsStayHome, UnbornIsBlank, LegacyTurnsAtMostOne, OneActiveRun,
         AtomicPublication, PublishedAtomically, ActiveOn, ActiveRuns, Linked, LinkedIn, TerminalIn
<1> QED
  BY <1>1, <1>2 DEF DBInv

\* the admission transaction
LEMMA AdmitDB ==
    ASSUME TypeOK, DBInv, NEW r \in Runs, NEW t \in Threads, status[r] = "unborn", ActiveOn(t) = {},
           thread' = [thread EXCEPT ![t] = "current"],
           status' = [status EXCEPT ![r] = "queued"],
           home' = [home EXCEPT ![r] = t],
           messages' = [messages EXCEPT ![t] = Append(@, Question)],
           UNCHANGED events
    PROVE  DBInv'
<1>1. /\ messages[t] \in Seq(Message) /\ Len(messages[t]) \in Nat
      /\ messages'[t] = Append(messages[t], Question)
      /\ Question \in Message /\ Question.run = NoRun /\ NoRun \notin Runs
      /\ r \notin Legacy /\ events[r] = <<>> /\ home[r] \notin Threads
  <2>1. Question \in Message /\ Question.run = NoRun /\ NoRun \notin Runs
    BY RunsAssumption DEF Question, Message, Kinds
  <2>2. r \notin Legacy /\ events[r] = <<>>
    BY DEF DBInv, UnbornIsBlank
  <2>3. home[r] \notin Threads
    BY DEF DBInv, RowsHaveHomes, Active, Terminal
  <2> QED
    BY <2>1, <2>2, <2>3 DEF TypeOK
<1>2. /\ status'[r] = "queued" /\ home'[r] = t
      /\ \A q \in Runs : q # r => status'[q] = status[q] /\ home'[q] = home[q]
  BY DEF TypeOK
<1>3. \A q \in Runs, u \in Threads : LinkedIn(messages'[u], q) = LinkedIn(messages[u], q)
  BY <1>1, LinkedAppend DEF TypeOK
<1>4. Linked(r)' = {}
  <2>1. LinkedIn(messages[t], r) = {}
    BY <1>1 DEF LinkedIn, DBInv, TurnsStayHome
  <2> QED
    BY <2>1, <1>2, <1>3 DEF Linked
<1>5. \A q \in Runs : q # r => Linked(q)' = Linked(q)
  BY <1>2, <1>3 DEF Linked
<1>6. \A u \in Threads, i \in Nat : i \in 1..Len(messages[u]) => messages'[u][i] = messages[u][i]
  BY <1>1 DEF TypeOK
<1>7. TurnsStayHome'
  <2> SUFFICES ASSUME NEW u \in Threads, NEW i \in 1..Len(messages'[u]), messages'[u][i].run # NoRun
               PROVE  home'[messages'[u][i].run] = u
    BY DEF TurnsStayHome
  <2>1. i \in 1..Len(messages[u])
    BY <1>1 DEF TypeOK
  <2>2. messages'[u][i] = messages[u][i] /\ messages[u][i].run \in Runs
    <3>1. messages'[u][i] = messages[u][i]
      BY <2>1, <1>6
    <3>2. messages[u][i] \in Message
      BY <2>1 DEF TypeOK
    <3> QED
      BY <3>1, <3>2 DEF Message
  <2>3. home[messages[u][i].run] = u
    BY <2>1, <2>2 DEF DBInv, TurnsStayHome
  <2> QED
    BY <2>2, <2>3, <1>1, <1>2
<1>8. RowsHaveHomes' /\ UnbornIsBlank'
  BY <1>2 DEF DBInv, RowsHaveHomes, UnbornIsBlank, Active
<1>9. LegacyTurnsAtMostOne'
  BY <1>1, <1>2, <1>5, RunsAssumption DEF DBInv, LegacyTurnsAtMostOne
<1>10. OneActiveRun'
  BY <1>2 DEF DBInv, OneActiveRun, ActiveOn, ActiveRuns
<1>11. ActiveThreadIsCurrent'
  <2>1. \A u \in Threads : thread[u] = "current" \/ u = t => thread'[u] = "current"
    BY DEF TypeOK
  <2> QED
    BY <2>1, <1>2 DEF DBInv, ActiveThreadIsCurrent, ActiveRuns
<1>12. AtomicPublication'
  <2> SUFFICES ASSUME NEW q \in Runs PROVE PublishedAtomically(q)'
    BY DEF AtomicPublication
  <2>0. PublishedAtomically(q)
    BY DEF DBInv, AtomicPublication
  <2>1. CASE q = r
    <3>1. TerminalIn(<<>>) = {}
      BY DEF TerminalIn
    <3> QED
      BY <2>1, <3>1, <1>1, <1>2, <1>4 DEF PublishedAtomically, Terminal
  <2>2. CASE q # r
    <3>1. \A i \in Linked(q) : messages'[home[q]][i] = messages[home[q]][i]
      BY <1>6 DEF Linked, LinkedIn
    <3> QED
      BY <2>0, <2>2, <3>1, <1>2, <1>5 DEF PublishedAtomically
  <2> QED
    BY <2>1, <2>2
<1> QED
  BY <1>7, <1>8, <1>9, <1>10, <1>11, <1>12 DEF DBInv

\* the cascade of a thread deletion
LEMMA DeleteDB ==
    ASSUME TypeOK, DBInv, NEW t \in Threads, DeleteThread(t)
    PROVE  DBInv'
<1>1. /\ ActiveOn(t) = {} /\ NoThread \notin Threads
      /\ messages' = [messages EXCEPT ![t] = <<>>]
      /\ thread' = [thread EXCEPT ![t] = "absent"]
      /\ \A q \in Runs : home[q] = t => status'[q] = "deleted" /\ home'[q] = NoThread
      /\ \A q \in Runs : home[q] # t => status'[q] = status[q] /\ home'[q] = home[q] /\ events'[q] = events[q]
  BY RunsAssumption DEF DeleteThread, TypeOK
<1>2. /\ messages'[t] = <<>>
      /\ \A u \in Threads : u # t => messages'[u] = messages[u] /\ thread'[u] = thread[u]
  BY <1>1 DEF TypeOK
<1>3. \A q \in Runs : home[q] # t => Linked(q)' = Linked(q)
  BY <1>1, <1>2 DEF Linked
<1>4. TurnsStayHome'
  <2> SUFFICES ASSUME NEW u \in Threads, NEW i \in 1..Len(messages'[u]), messages'[u][i].run # NoRun
               PROVE  home'[messages'[u][i].run] = u
    BY DEF TurnsStayHome
  <2>1. u # t
    BY <1>2
  <2>2. messages[u][i].run \in Runs /\ messages'[u] = messages[u] /\ home[messages[u][i].run] = u
    <3>1. messages'[u] = messages[u]
      BY <2>1, <1>2
    <3>2. messages[u][i] \in Message
      BY <3>1 DEF TypeOK
    <3>3. home[messages[u][i].run] = u
      BY <3>1 DEF DBInv, TurnsStayHome
    <3> QED
      BY <3>1, <3>2, <3>3 DEF Message
  <2> QED
    BY <2>1, <2>2, <1>1
<1>5. RowsHaveHomes' /\ UnbornIsBlank'
  BY <1>1 DEF DBInv, RowsHaveHomes, UnbornIsBlank, Active, Terminal
<1>6. LegacyTurnsAtMostOne'
  BY <1>1, <1>3, RunsAssumption DEF DBInv, LegacyTurnsAtMostOne, Active
<1>7. OneActiveRun'
  BY <1>1 DEF DBInv, OneActiveRun, ActiveOn, ActiveRuns, Active
<1>8. ActiveThreadIsCurrent'
  BY <1>1, <1>2 DEF DBInv, ActiveThreadIsCurrent, ActiveRuns, Active
<1>9. AtomicPublication'
  <2> SUFFICES ASSUME NEW q \in Runs PROVE PublishedAtomically(q)'
    BY DEF AtomicPublication
  <2>0. PublishedAtomically(q)
    BY DEF DBInv, AtomicPublication
  <2>1. CASE home[q] = t
    BY <2>1, <1>1 DEF PublishedAtomically, Active, Terminal
  <2>2. CASE home[q] # t
    <3>1. Linked(q) # {} => messages'[home[q]] = messages[home[q]]
      BY <2>2, <1>2 DEF Linked
    <3> QED
      BY <2>0, <2>2, <3>1, <1>1, <1>3 DEF PublishedAtomically
  <2> QED
    BY <2>1, <2>2
<1> QED
  BY <1>4, <1>5, <1>6, <1>7, <1>8, <1>9 DEF DBInv

\* reconciliation: an active run has at most one turn, so a thread gets one turn at most
LEMMA ReconcileStep ==
    ASSUME TypeOK, DBInv, Reconcile
    PROVE  /\ status' \in [Runs -> {"unborn", "deleted"} \cup Active \cup Terminal]
           /\ events' \in [Runs -> Seq({"progress"} \cup Terminal)]
           /\ messages' \in [Threads -> Seq(Message)]
           /\ \A r \in Runs : status[r] \in Active => status'[r] \in Terminal
           /\ \A r \in Runs : status[r] \notin Active => status'[r] = status[r] /\ events'[r] = events[r]
<1>1. \A r \in Runs : Recovered(r) => events[r][Len(events[r])] \in Terminal
  BY DEF Recovered, TerminalIn
<1>2. "interrupted" \in Terminal
  BY DEF Terminal
<1>3. \A r \in Runs : events[r] \in Seq({"progress"} \cup Terminal)
  BY DEF TypeOK
<1>4. \A r \in Runs : Append(events[r], "interrupted") \in Seq({"progress"} \cup Terminal)
  BY <1>2, <1>3
<1>5. \A t \in Threads : (\E r \in ActiveOn(t) : Linked(r) = {}) =>
         Answer(CHOOSE r \in ActiveOn(t) : Linked(r) = {}, "error") \in Message
  BY DEF ActiveOn, ActiveRuns, Answer, Message, Kinds
<1>6. messages' \in [Threads -> Seq(Message)]
  <2> DEFINE NextTurns(t) == IF \E r \in ActiveOn(t) : Linked(r) = {}
                        THEN Append(messages[t], Answer(CHOOSE r \in ActiveOn(t) : Linked(r) = {}, "error"))
                        ELSE messages[t]
  <2>1. \A t \in Threads : messages[t] \in Seq(Message)
    BY DEF TypeOK
  <2>2. \A t \in Threads : NextTurns(t) \in Seq(Message)
    <3> TAKE t \in Threads
    <3>1. CASE \E r \in ActiveOn(t) : Linked(r) = {}
      <4> DEFINE x == Answer(CHOOSE r \in ActiveOn(t) : Linked(r) = {}, "error")
      <4>1. x \in Message
        BY <1>5, <3>1
      <4>2. NextTurns(t) = Append(messages[t], x)
        BY <3>1
      <4> HIDE DEF x, NextTurns
      <4> QED
        BY <2>1, <4>1, <4>2
    <3>2. CASE ~ \E r \in ActiveOn(t) : Linked(r) = {}
      BY <2>1, <3>2
    <3> QED
      BY <3>1, <3>2
  <2>3. messages' = [t \in Threads |-> NextTurns(t)]
    BY DEF Reconcile
  <2> HIDE DEF NextTurns
  <2> QED
    BY <2>2, <2>3
<1>7. events' \in [Runs -> Seq({"progress"} \cup Terminal)]
  BY <1>3, <1>4 DEF Reconcile
<1>8. \A r \in Runs : /\ status[r] \in Active => status'[r] \in Terminal
                      /\ status[r] \notin Active => status'[r] = status[r] /\ events'[r] = events[r]
  BY <1>1, <1>2 DEF Reconcile
<1>9. status' \in [Runs -> {"unborn", "deleted"} \cup Active \cup Terminal]
  BY <1>1, <1>2 DEF Reconcile, TypeOK
<1> QED
  BY <1>6, <1>7, <1>8, <1>9

\* Reconciliation adds one error turn to an active run without a turn and touches no other
\* linked turn (reconcile_interrupted).
LEMMA ReconcileLinked ==
    ASSUME TypeOK, DBInv, Reconcile, UNCHANGED home, NEW q \in Runs
    PROVE  /\ status[q] \notin Active => Linked(q)' = Linked(q)
           /\ Linked(q) # {} => Linked(q)' = Linked(q)
           /\ \A i \in Linked(q) : messages'[home[q]][i] = messages[home[q]][i]
           /\ status[q] \in Active /\ Linked(q) = {} =>
                \E i \in Linked(q)' : Linked(q)' = {i} /\ messages'[home[q]][i].kind = "error"
<1>1. CASE home[q] \notin Threads
  BY <1>1 DEF Linked, DBInv, RowsHaveHomes
<1>2. CASE home[q] \in Threads
  <2> DEFINE t == home[q]
             Blank == \E r \in ActiveOn(t) : Linked(r) = {}
             p == CHOOSE r \in ActiveOn(t) : Linked(r) = {}
             x == Answer(p, "error")
  <2>1. messages[t] \in Seq(Message) /\ Len(messages[t]) \in Nat
    BY <1>2 DEF TypeOK
  <2>2. CASE ~Blank
    <3>1. messages'[t] = messages[t]
      BY <1>2, <2>2 DEF Reconcile
    <3>2. Linked(q)' = Linked(q)
      BY <3>1 DEF Linked
    <3>3. ~(status[q] \in Active /\ Linked(q) = {})
      BY <2>2 DEF ActiveOn, ActiveRuns
    <3> QED
      BY <3>1, <3>2, <3>3
  <2>3. CASE Blank
    <3>1. p \in ActiveOn(t) /\ Linked(p) = {}
      BY <2>3
    <3>2. messages'[t] = Append(messages[t], x)
      BY <1>2, <2>3 DEF Reconcile
    <3>3. x \in Message /\ x.run = p /\ x.kind = "error"
      BY <3>1 DEF ActiveOn, ActiveRuns, Answer, Message, Kinds
    <3> HIDE DEF p, x
    <3>4. LinkedIn(messages'[t], q) =
             IF p = q THEN LinkedIn(messages[t], q) \cup {Len(messages[t]) + 1} ELSE LinkedIn(messages[t], q)
      <4>1. LinkedIn(Append(messages[t], x), q) =
             IF x.run = q THEN LinkedIn(messages[t], q) \cup {Len(messages[t]) + 1} ELSE LinkedIn(messages[t], q)
        BY <2>1, <3>3, LinkedAppend
      <4> QED
        BY <3>2, <3>3, <4>1
    <3>5. Linked(q) = LinkedIn(messages[t], q) /\ Linked(q)' = LinkedIn(messages'[t], q)
      BY <1>2 DEF Linked
    <3>6. \A i \in Linked(q) : messages'[t][i] = messages[t][i]
      BY <3>2, <3>3, <3>5, <2>1 DEF LinkedIn
    <3>7. CASE p = q
      <4>1. status[q] \in Active /\ Linked(q) = {}
        BY <3>1, <3>7 DEF ActiveOn, ActiveRuns
      <4>2. Linked(q)' = {Len(messages[t]) + 1}
        BY <3>4, <3>5, <3>7, <4>1
      <4>3. messages'[t][Len(messages[t]) + 1] = x
        BY <3>2, <3>3, <2>1
      <4> QED
        BY <3>3, <4>1, <4>2, <4>3
    <3>8. CASE p # q
      <4>1. status[q] \notin Active
        BY <1>2, <3>1, <3>8 DEF ActiveOn, ActiveRuns, DBInv, OneActiveRun
      <4> QED
        BY <3>4, <3>5, <3>6, <3>8, <4>1
    <3> QED
      BY <3>7, <3>8
  <2> QED
    BY <2>2, <2>3
<1> QED
  BY <1>1, <1>2

\* Reconciliation leaves no active run and keeps the database invariant.
LEMMA ReconcileDB ==
    ASSUME TypeOK, DBInv, Reconcile, UNCHANGED <<thread, home>>
    PROVE  DBInv' /\ \A r \in Runs : status'[r] \notin Active
<1>1. /\ \A r \in Runs : status[r] \in Active => status'[r] \in Terminal
      /\ \A r \in Runs : status[r] \notin Active => status'[r] = status[r] /\ events'[r] = events[r]
  BY ReconcileStep
<1>2. \A r \in Runs : status'[r] \notin Active
  BY <1>1 DEF Active, Terminal
<1>3. RowsHaveHomes' /\ UnbornIsBlank' /\ LegacyTurnsAtMostOne' /\ OneActiveRun' /\ ActiveThreadIsCurrent'
  BY <1>1, <1>2, RunsAssumption DEF DBInv, RowsHaveHomes, UnbornIsBlank, LegacyTurnsAtMostOne, OneActiveRun,
     ActiveThreadIsCurrent, ActiveOn, ActiveRuns, Active, Terminal
<1>4. TurnsStayHome'
  <2> SUFFICES ASSUME NEW t \in Threads, NEW i \in 1..Len(messages'[t]), messages'[t][i].run # NoRun
               PROVE  home[messages'[t][i].run] = t
    BY DEF TurnsStayHome
  <2> DEFINE p == CHOOSE r \in ActiveOn(t) : Linked(r) = {}
             x == Answer(p, "error")
  <2>1. messages[t] \in Seq(Message) /\ Len(messages[t]) \in Nat
    BY DEF TypeOK
  <2>2. CASE messages'[t] = messages[t]
    BY <2>2 DEF DBInv, TurnsStayHome
  <2>3. CASE messages'[t] # messages[t]
    <3>1. messages'[t] = Append(messages[t], x) /\ p \in ActiveOn(t)
      BY <2>3 DEF Reconcile
    <3>2. x.run = p /\ home[p] = t
      BY <3>1 DEF Answer, ActiveOn
    <3>a. x \in Message
      BY <3>1 DEF Answer, Message, Kinds, ActiveOn, ActiveRuns
    <3> HIDE DEF p, x
    <3>3. CASE i = Len(messages[t]) + 1
      BY <2>1, <3>1, <3>2, <3>3, <3>a
    <3>4. CASE i # Len(messages[t]) + 1
      BY <2>1, <3>1, <3>4, <3>a DEF DBInv, TurnsStayHome
    <3> QED
      BY <3>3, <3>4
  <2> QED
    BY <2>2, <2>3
<1>5. AtomicPublication'
  <2> SUFFICES ASSUME NEW q \in Runs PROVE PublishedAtomically(q)'
    BY DEF AtomicPublication
  <2>0. PublishedAtomically(q)
    BY DEF DBInv, AtomicPublication
  <2>1. CASE status[q] \notin Active
    BY <2>0, <2>1, <1>1, ReconcileLinked DEF PublishedAtomically
  <2>2. CASE status[q] \in Active
    <3>1. \E i \in Linked(q)' : Linked(q)' = {i}
      <4>1. CASE Linked(q) = {}
        BY <2>2, <4>1, ReconcileLinked
      <4>2. CASE Linked(q) # {}
        BY <2>0, <2>2, <4>2, ReconcileLinked DEF PublishedAtomically, DBInv, LegacyTurnsAtMostOne
      <4> QED
        BY <4>1, <4>2
    <3>2. events[q] \in Seq({"progress"} \cup Terminal) /\ Len(events[q]) \in Nat
          /\ "interrupted" \in Terminal
      BY DEF TypeOK, Terminal
    <3>3. CASE Recovered(q)
      <4>1. /\ status'[q] = events[q][Len(events[q])] /\ events'[q] = events[q]
            /\ Len(events[q]) \in TerminalIn(events[q]) /\ Linked(q) # {}
        BY <2>2, <3>3 DEF Reconcile, Recovered
      <4>2. q \in Legacy
        BY <2>0, <2>2, <4>1 DEF PublishedAtomically
      <4>3. events[q] # <<>>
        BY <4>1 DEF TerminalIn
      <4> QED
        BY <3>1, <4>1, <4>2, <4>3 DEF PublishedAtomically
    <3>4. CASE ~Recovered(q)
      <4>1. status'[q] = "interrupted" /\ events'[q] = Append(events[q], "interrupted")
        BY <2>2, <3>4 DEF Reconcile
      <4>2. /\ events'[q] # <<>> /\ Len(events'[q]) = Len(events[q]) + 1
            /\ events'[q][Len(events'[q])] = "interrupted"
        BY <3>2, <4>1, LastAppend
      <4>3. TerminalIn(events'[q]) = TerminalIn(events[q]) \cup {Len(events[q]) + 1}
        BY <3>2, <4>1, TerminalAppend
      <4>4. q \notin Legacy => \A i \in Linked(q)' : messages'[home[q]][i].kind = "error"
        BY <2>0, <2>2, ReconcileLinked DEF PublishedAtomically
      <4>5. q \notin Legacy => TerminalIn(events[q]) = {}
        BY <2>0, <2>2 DEF PublishedAtomically
      <4>6. AnswerKinds("interrupted") = {"error"}
        BY DEF AnswerKinds
      <4> QED
        BY <1>2, <3>1, <4>1, <4>2, <4>3, <4>4, <4>5, <4>6 DEF PublishedAtomically
    <3> QED
      BY <3>3, <3>4
  <2> QED
    BY <2>1, <2>2
<1> QED
  BY <1>2, <1>3, <1>4, <1>5 DEF DBInv

(***************************************************************************)
(* Every action preserves the invariant.  First the actions that do not     *)
(* write to the database: routes in memory, notes, cancellation flags, and  *)
(* a crash.                                                                 *)
(***************************************************************************)
\* A first request starts to construct its store (get_run_store).
LEMMA OpenStartInv ==
    ASSUME IInv, NEW s \in Stores, OpenStart(s)
    PROVE  IInv'
<1> USE RunsAssumption, BoundsAssumption DEF IInv
<1>1. TypeOK'
  BY DEF TypeOK, OpenStart, db, ghosts, budget
<1>2. DBInv'
  BY SameDB DEF OpenStart, db
<1>3. MemInv'
  BY DEF MemInv, TypeOK, Creation, OpenStart, db
<1> QED
  BY <1>1, <1>2, <1>3

\* A store construction that raises is not cached (get_run_store).
LEMMA OpenFailsInv ==
    ASSUME IInv, NEW s \in Stores, OpenFails(s)
    PROVE  IInv'
<1> USE RunsAssumption, BoundsAssumption DEF IInv
<1>1. TypeOK'
  BY DEF TypeOK, OpenFails, db, ghosts, budget
<1>2. DBInv'
  BY SameDB DEF OpenFails, db
<1>3. MemInv'
  BY DEF MemInv, TypeOK, Creation, OpenFails, db
<1> QED
  BY <1>1, <1>2, <1>3

\* create_research_run's reads before the admission transaction.
LEMMA CreateReadInv ==
    ASSUME IInv, NEW s \in Stores, NEW t \in Threads, CreateRead(s, t)
    PROVE  IInv'
<1> USE RunsAssumption, BoundsAssumption DEF IInv
<1>1. TypeOK'
  BY DEF TypeOK, Creation, CreateRead, Usable, Consume, db, ghosts, budget
<1>2. DBInv'
  BY SameDB DEF CreateRead, db
<1>3. MemInv'
  BY DEF MemInv, TypeOK, Creation, CreateRead, Usable, Consume, db
<1> QED
  BY <1>1, <1>2, <1>3

\* A refused admission writes nothing.
LEMMA CreateRefusedInv ==
    ASSUME IInv, CreateRefused
    PROVE  IInv'
<1> USE RunsAssumption, BoundsAssumption DEF IInv
<1>1. TypeOK'
  BY DEF TypeOK, CreateRefused, Idle, Creation, db, ghosts, budget
<1>2. DBInv'
  BY SameDB DEF CreateRefused, db
<1>3. MemInv'
  BY DEF MemInv, TypeOK, Creation, CreateRefused, Idle, db
<1> QED
  BY <1>1, <1>2, <1>3

\* schedule_research_run registers the task.
LEMMA CreateScheduleInv ==
    ASSUME IInv, CreateSchedule
    PROVE  IInv'
<1> USE RunsAssumption, BoundsAssumption DEF IInv
<1>1. TypeOK'
  BY DEF TypeOK, CreateSchedule, Idle, Creation, db, ghosts, budget
<1>2. DBInv'
  BY SameDB DEF CreateSchedule, db
<1>3. MemInv'
  BY DEF MemInv, TypeOK, Creation, CreateSchedule, Idle, db
<1> QED
  BY <1>1, <1>2, <1>3

\* Scheduling raises after the admission has committed.
LEMMA ScheduleFailsInv ==
    ASSUME IInv, ScheduleFails
    PROVE  IInv'
<1> USE RunsAssumption, BoundsAssumption DEF IInv
<1>1. TypeOK'
  <2>1. creating' \in Creation
    BY DEF TypeOK, ScheduleFails, Creation
  <2>2. writeFaults' \in Nat /\ life' \in Nat /\ readFaults' \in Nat /\ turns' \in Nat
    BY DEF TypeOK, ScheduleFails
  <2> QED
    BY <2>1, <2>2 DEF TypeOK, ScheduleFails, db, ghosts
<1>2. DBInv'
  BY SameDB DEF ScheduleFails, db
<1>3. MemInv'
  BY DEF MemInv, TypeOK, Creation, ScheduleFails, db
<1> QED
  BY <1>1, <1>2, <1>3

\* The handoff transaction itself fails: the route reports the store as unavailable.
LEMMA HandoffFailsInv ==
    ASSUME IInv, HandoffFails
    PROVE  IInv'
<1> USE RunsAssumption, BoundsAssumption DEF IInv
<1>1. TypeOK'
  BY DEF TypeOK, HandoffFails, Idle, Creation, db, ghosts, budget
<1>2. DBInv'
  BY SameDB DEF HandoffFails, db
<1>3. MemInv'
  BY DEF MemInv, TypeOK, Creation, HandoffFails, Idle, db
<1> QED
  BY <1>1, <1>2, <1>3

\* A task cancelled before its first step leaves only the registry.
LEMMA TaskCancelledUnstartedInv ==
    ASSUME IInv, NEW r \in Runs, TaskCancelledUnstarted(r)
    PROVE  IInv'
<1> USE RunsAssumption, BoundsAssumption DEF IInv
<1>1. TypeOK'
  BY DEF TypeOK, TaskCancelledUnstarted, EndTask, db, ghosts, budget
<1>2. DBInv'
  BY SameDB DEF TaskCancelledUnstarted, db
<1>3. MemInv'
  BY DEF MemInv, TypeOK, Creation, TaskCancelledUnstarted, EndTask, db
<1> QED
  BY <1>1, <1>2, <1>3

\* The agent stream ends; what it ended with is remembered by the task.
LEMMA TaskStreamEndsInv ==
    ASSUME IInv, NEW r \in Runs, NEW o \in {"done", "error"}, TaskStreamEnds(r, o)
    PROVE  IInv'
<1> USE RunsAssumption, BoundsAssumption DEF IInv
<1>1. TypeOK'
  BY DEF TypeOK, TaskStreamEnds, db, ghosts, budget
<1>2. DBInv'
  BY SameDB DEF TaskStreamEnds, db
<1>3. MemInv'
  BY DEF MemInv, TypeOK, Creation, TaskStreamEnds, db
<1> QED
  BY <1>1, <1>2, <1>3

\* A failing write of the task is noted and ends it (_persist).
LEMMA TaskWriteFailsInv ==
    ASSUME IInv, NEW r \in Runs, TaskWriteFails(r)
    PROVE  IInv'
<1> USE RunsAssumption, BoundsAssumption DEF IInv
<1>1. TypeOK'
  BY DEF TypeOK, TaskWriteFails, NoteFailure, EndTask, db, ghosts, budget
<1>2. DBInv'
  BY SameDB DEF TaskWriteFails, db
<1>3. MemInv'
  BY DEF MemInv, TypeOK, Creation, TaskWriteFails, NoteFailure, EndTask, db
<1> QED
  BY <1>1, <1>2, <1>3

\* The cancel route marks a live task as cancelled.
LEMMA CancelRequestInv ==
    ASSUME IInv, NEW s \in Stores, NEW r \in Runs, CancelRequest(s, r)
    PROVE  IInv'
<1> USE RunsAssumption, BoundsAssumption DEF IInv
<1>1. TypeOK'
  BY DEF TypeOK, CancelRequest, Usable, Consume, db, ghosts, budget
<1>2. DBInv'
  BY SameDB DEF CancelRequest, db
<1>3. MemInv'
  BY DEF MemInv, TypeOK, Creation, CancelRequest, Usable, Consume, db
<1> QED
  BY <1>1, <1>2, <1>3

\* The cancel route's own terminalization fails.
LEMMA CancelFailsInv ==
    ASSUME IInv, NEW s \in Stores, NEW r \in Runs, CancelFails(s, r)
    PROVE  IInv'
<1> USE RunsAssumption, BoundsAssumption DEF IInv
<1>1. TypeOK'
  BY DEF TypeOK, CancelFails, db, ghosts, budget
<1>2. DBInv'
  BY SameDB DEF CancelFails, db
<1>3. MemInv'
  BY DEF MemInv, TypeOK, Creation, CancelFails, db
<1> QED
  BY <1>1, <1>2, <1>3

\* The process dies: the registry, the cached store and its notes go, the tables stay.
LEMMA CrashInv ==
    ASSUME IInv, Crash
    PROVE  IInv'
<1> USE RunsAssumption, BoundsAssumption DEF IInv
<1>1. TypeOK'
  BY DEF TypeOK, Crash, Idle, Creation, db, ghosts, budget
<1>2. DBInv'
  BY SameDB DEF Crash, db
<1>3. MemInv'
  BY DEF MemInv, TypeOK, Creation, Crash, Idle, db
<1> QED
  BY <1>1, <1>2, <1>3


(***************************************************************************)
(* Then the actions that commit a transaction.                              *)
(***************************************************************************)
\* A constructed store reconciles and may become the cached one.
LEMMA OpenFinishInv ==
    ASSUME IInv, NEW s \in Stores, OpenFinish(s)
    PROVE  IInv'
<1> USE RunsAssumption DEF IInv
<1>1. Reconcile /\ UNCHANGED <<thread, home>>
  BY DEF OpenFinish
<1>2. TypeOK'
  BY <1>1, ReconcileStep DEF TypeOK, OpenFinish, ghosts, budget
<1>3. DBInv' /\ \A r \in Runs : status'[r] \notin Active
  BY <1>1, ReconcileDB
<1>4. MemInv'
  BY <1>3 DEF MemInv, OpenFinish, TypeOK
<1> QED
  BY <1>2, <1>3, <1>4

\* Admission: thread, user turn and queued row in one transaction, guarded by Admissible.
LEMMA CreateAdmitInv ==
    ASSUME IInv, NEW r \in Runs, NEW retry \in BOOLEAN, CreateAdmit(r, retry)
    PROVE  IInv'
<1> USE RunsAssumption DEF IInv
<1> DEFINE t == creating.thread
<1>1. t \in Threads /\ r \notin Legacy /\ cached # NoStore
  BY DEF CreateAdmit, MemInv, DBInv, UnbornIsBlank
<1>2. /\ thread' = [thread EXCEPT ![t] = "current"]
      /\ status' = [status EXCEPT ![r] = "queued"]
      /\ home' = [home EXCEPT ![r] = t]
      /\ messages' = [messages EXCEPT ![t] = Append(@, Question)]
      /\ context' = [context EXCEPT ![r] = HistoryOf(messages[t], retry)]
      /\ asked' = [asked EXCEPT ![r] = Len(messages[t]) + 1]
      /\ born' = [born EXCEPT ![r] = life]
      /\ creating' = [creating EXCEPT !.pc = "schedule", !.run = r]
      /\ status[r] = "unborn" /\ ActiveOn(t) = {}
      /\ UNCHANGED <<events, verified, cached, opener, task, via, cancelReq, cancelling, notes, direct, unread, budget>>
  BY DEF CreateAdmit, Admissible
<1>3. TypeOK'
  <2>1. Question \in Message
    BY DEF Question, Message, Kinds
  <2>2. messages[t] \in Seq(Message) /\ Len(messages[t]) \in Nat
    BY <1>1 DEF TypeOK
  <2>3. HistoryOf(messages[t], retry) \subseteq Nat
    BY <2>2 DEF HistoryOf
  <2>4. creating' \in Creation
    BY <1>2 DEF TypeOK, Creation
  <2>5. messages' \in [Threads -> Seq(Message)]
    BY <1>1, <1>2, <2>1, <2>2 DEF TypeOK
  <2>6. context' \in [Runs -> SUBSET Nat] /\ asked' \in [Runs -> Nat] /\ born' \in [Runs -> Nat]
    BY <1>2, <2>2, <2>3 DEF TypeOK
  <2>7. /\ status' \in [Runs -> {"unborn", "deleted"} \cup Active \cup Terminal]
        /\ thread' \in [Threads -> {"absent", "current", "archived"}]
        /\ home' \in [Runs -> Threads \cup {NoThread}]
    BY <1>1, <1>2 DEF TypeOK, Active
  <2> QED
    BY <1>2, <2>4, <2>5, <2>6, <2>7 DEF TypeOK, budget
<1>4. DBInv'
  BY <1>1, <1>2, AdmitDB
<1>5. MemInv'
  <2>1. \A q \in Legacy : status'[q] = status[q]
    BY <1>1, <1>2 DEF TypeOK
  <2>2. creating'.pc = "schedule" /\ creating'.run = r /\ creating'.store = creating.store
    BY <1>2 DEF TypeOK, Creation
  <2>3. creating.pc = "admit"
    BY DEF CreateAdmit
  <2> QED
    BY <1>1, <1>2, <2>1, <2>2, <2>3 DEF MemInv
<1> QED
  BY <1>3, <1>4, <1>5

\* publication by any caller: what remains of the step touches no database field
LEMMA TerminalizeErrorInv ==
    ASSUME IInv, NEW s, NEW r \in Runs, NEW o \in Terminal, cached # NoStore,
           TerminalizeError(s, r, o), UNCHANGED <<thread, home>>
    PROVE  /\ DBInv'
           /\ status' \in [Runs -> {"unborn", "deleted"} \cup Active \cup Terminal]
           /\ events' \in [Runs -> Seq({"progress"} \cup Terminal)]
           /\ messages' \in [Threads -> Seq(Message)]
           /\ notes' \subseteq (Stores \cup {NoStore}) \X Runs
           /\ \A q \in Legacy : status'[q] \notin Active
<1> USE RunsAssumption DEF IInv
<1>1. CASE status[r] \in Active
  <2>1. Publish(r, o) /\ r \notin Legacy /\ home[r] \in Threads
    BY <1>1 DEF TerminalizeError, MemInv, DBInv, RowsHaveHomes
  <2>2. status' = [status EXCEPT ![r] = o]
    BY <2>1 DEF Publish
  <2> QED
    BY <1>1, <2>1, <2>2, PublishDB, PublishType DEF TerminalizeError, TypeOK, MemInv
<1>2. CASE status[r] \notin Active
  <2>1. UNCHANGED <<thread, status, home, events, messages>>
    BY <1>2 DEF TerminalizeError
  <2> QED
    BY <2>1, SameDB DEF TerminalizeError, TypeOK, MemInv
<1> QED
  BY <1>1, <1>2

\* Success is published only for a running row, with its turn (terminalize_success_with_message).
LEMMA TerminalizeSuccessInv ==
    ASSUME IInv, NEW s, NEW r \in Runs, cached # NoStore,
           TerminalizeSuccess(s, r), UNCHANGED <<thread, home>>
    PROVE  /\ DBInv'
           /\ status' \in [Runs -> {"unborn", "deleted"} \cup Active \cup Terminal]
           /\ events' \in [Runs -> Seq({"progress"} \cup Terminal)]
           /\ messages' \in [Threads -> Seq(Message)]
           /\ notes' \subseteq (Stores \cup {NoStore}) \X Runs
           /\ \A q \in Legacy : status'[q] \notin Active
<1> USE RunsAssumption DEF IInv
<1>1. CASE status[r] = "running"
  <2>1. status[r] \in Active /\ "succeeded" \in Terminal
    BY <1>1 DEF Active, Terminal
  <2>2. Publish(r, "succeeded") /\ r \notin Legacy /\ home[r] \in Threads
    BY <1>1, <2>1 DEF TerminalizeSuccess, MemInv, DBInv, RowsHaveHomes
  <2>3. status' = [status EXCEPT ![r] = "succeeded"]
    BY <2>2 DEF Publish
  <2>4. \A q \in Legacy : status'[q] \notin Active
    BY <2>2, <2>3 DEF TypeOK, MemInv
  <2> QED
    BY <1>1, <2>1, <2>2, <2>4, PublishDB, PublishType DEF TerminalizeSuccess, TypeOK
<1>2. CASE status[r] # "running"
  <2>1. UNCHANGED <<thread, status, home, events, messages, notes>>
    BY <1>2 DEF TerminalizeSuccess
  <2> QED
    BY <2>1, SameDB DEF TypeOK, MemInv
<1> QED
  BY <1>1, <1>2

\* A queued row whose scheduling failed is terminalized with its error turn.
LEMMA HandoffInv ==
    ASSUME IInv, Handoff
    PROVE  IInv'
<1> USE RunsAssumption DEF IInv
<1> DEFINE r == creating.run
<1>1. r \in Runs /\ cached # NoStore /\ UNCHANGED <<thread, home>> /\ "failed" \in Terminal
  BY DEF Handoff, MemInv, Terminal
<1>2. CASE status[r] = "queued"
  <2>1. Publish(r, "failed") /\ status[r] \in Active
    BY <1>2 DEF Handoff, Active
  <2>2. r \notin Legacy /\ home[r] \in Threads
    BY <1>1, <2>1 DEF MemInv, DBInv, RowsHaveHomes
  <2>3. DBInv'
    BY <1>1, <2>1, <2>2, PublishDB
  <2>4. TypeOK'
    BY <1>1, <2>1, <2>2, PublishType DEF Handoff, TypeOK, Idle, Creation, ghosts, budget
  <2>5. \A q \in Legacy : status'[q] = status[q]
    BY <1>1, <2>1, <2>2 DEF Publish, TypeOK
  <2>6. MemInv'
    BY <1>1, <2>5 DEF MemInv, Handoff, Idle
  <2> QED
    BY <2>3, <2>4, <2>6
<1>3. CASE status[r] # "queued"
  <2>1. UNCHANGED <<thread, status, home, events, messages>>
    BY <1>3 DEF Handoff
  <2>2. TypeOK'
    BY <2>1 DEF Handoff, TypeOK, Idle, Creation, ghosts, budget
  <2>3. MemInv'
    BY <2>1 DEF MemInv, Handoff, Idle
  <2> QED
    BY <2>1, <2>2, <2>3, SameDB
<1> QED
  BY <1>2, <1>3

\* The task claims its queued row.
LEMMA TaskStartInv ==
    ASSUME IInv, NEW r \in Runs, TaskStart(r)
    PROVE  IInv'
<1> USE RunsAssumption DEF IInv
<1>1. cached # NoStore
  BY DEF TaskStart, MemInv
<1>2. TypeOK'
  BY DEF TaskStart, TypeOK, Active, ghosts, budget
<1>3. DBInv'
  BY ClaimDB, SameDB DEF TaskStart
<1>4. \A q \in Legacy : status'[q] \notin Active
  <2>1. status[r] = "queued" => r \notin Legacy
    BY <1>1 DEF MemInv, Active
  <2> QED
    BY <1>1, <2>1 DEF TaskStart, MemInv, TypeOK
<1>5. MemInv'
  BY <1>1, <1>4 DEF MemInv, TaskStart
<1> QED
  BY <1>2, <1>3, <1>5

\* A failing read ends the task without a note.
LEMMA TaskReadFailsInv ==
    ASSUME IInv, NEW r \in Runs, TaskReadFails(r)
    PROVE  IInv'
<1> USE RunsAssumption, BoundsAssumption DEF IInv
<1>1. cached # NoStore
  BY DEF TaskReadFails, MemInv
<1>2. TypeOK'
  BY DEF TaskReadFails, EndTask, TypeOK, Active, ghosts
<1>3. DBInv'
  BY ClaimDB, SameDB DEF TaskReadFails
<1>4. \A q \in Legacy : status'[q] \notin Active
  <2>1. status[r] = "queued" => r \notin Legacy
    BY <1>1 DEF MemInv, Active
  <2> QED
    BY <1>1, <2>1 DEF TaskReadFails, MemInv, TypeOK
<1>5. MemInv'
  BY <1>1, <1>4 DEF MemInv, TaskReadFails
<1> QED
  BY <1>2, <1>3, <1>5

\* A progress event is appended while the row is running.
LEMMA TaskFrameInv ==
    ASSUME IInv, NEW r \in Runs, TaskFrame(r)
    PROVE  IInv'
<1> USE RunsAssumption DEF IInv
<1>1. cached # NoStore
  BY DEF TaskFrame, MemInv
<1>2. status[r] = "running" => r \notin Legacy
  BY <1>1 DEF MemInv, Active
<1>3. events' \in [Runs -> Seq({"progress"} \cup Terminal)]
  <2>1. Append(events[r], "progress") \in Seq({"progress"} \cup Terminal)
    BY DEF TypeOK
  <2> QED
    BY <2>1 DEF TaskFrame, TypeOK
<1>4. TypeOK'
  BY <1>3 DEF TaskFrame, EndTask, TypeOK, ghosts, budget
<1>5. DBInv'
  BY <1>2, FrameDB, SameDB DEF TaskFrame
<1>6. MemInv'
  BY <1>1 DEF MemInv, TaskFrame
<1> QED
  BY <1>4, <1>5, <1>6

\* The task publishes what its stream ended with.
LEMMA TaskFinishInv ==
    ASSUME IInv, NEW r \in Runs, TaskFinish(r)
    PROVE  IInv'
<1> USE RunsAssumption DEF IInv
<1>1. cached # NoStore /\ UNCHANGED <<thread, home>> /\ "failed" \in Terminal
  BY DEF TaskFinish, MemInv, Terminal
<1>2. /\ DBInv'
      /\ status' \in [Runs -> {"unborn", "deleted"} \cup Active \cup Terminal]
      /\ events' \in [Runs -> Seq({"progress"} \cup Terminal)]
      /\ messages' \in [Threads -> Seq(Message)]
      /\ notes' \subseteq (Stores \cup {NoStore}) \X Runs
      /\ \A q \in Legacy : status'[q] \notin Active
  BY <1>1, TerminalizeErrorInv, TerminalizeSuccessInv DEF TaskFinish
<1>3. TypeOK'
  BY <1>2 DEF TaskFinish, EndTask, TypeOK, ghosts, budget
<1>4. MemInv'
  BY <1>1, <1>2 DEF MemInv, TaskFinish
<1> QED
  BY <1>2, <1>3, <1>4

\* The cancellation handler publishes the cancellation.
LEMMA TaskCancelledInv ==
    ASSUME IInv, NEW r \in Runs, TaskCancelled(r)
    PROVE  IInv'
<1> USE RunsAssumption DEF IInv
<1>1. cached # NoStore /\ UNCHANGED <<thread, home>> /\ "cancelled" \in Terminal
  BY DEF TaskCancelled, MemInv, Terminal
<1>2. /\ DBInv'
      /\ status' \in [Runs -> {"unborn", "deleted"} \cup Active \cup Terminal]
      /\ events' \in [Runs -> Seq({"progress"} \cup Terminal)]
      /\ messages' \in [Threads -> Seq(Message)]
      /\ notes' \subseteq (Stores \cup {NoStore}) \X Runs
      /\ \A q \in Legacy : status'[q] \notin Active
  BY <1>1, TerminalizeErrorInv DEF TaskCancelled
<1>3. TypeOK'
  BY <1>2 DEF TaskCancelled, EndTask, TypeOK, ghosts, budget
<1>4. MemInv'
  BY <1>1, <1>2 DEF MemInv, TaskCancelled
<1> QED
  BY <1>2, <1>3, <1>4

\* The cancel route terminalizes a row that has no task.
LEMMA CancelTerminalizeInv ==
    ASSUME IInv, NEW s \in Stores, NEW r \in Runs, CancelTerminalize(s, r)
    PROVE  IInv'
<1> USE RunsAssumption DEF IInv
<1>1. cached # NoStore /\ UNCHANGED <<thread, home>> /\ "cancelled" \in Terminal
  BY DEF CancelTerminalize, MemInv, Terminal
<1>2. /\ DBInv'
      /\ status' \in [Runs -> {"unborn", "deleted"} \cup Active \cup Terminal]
      /\ events' \in [Runs -> Seq({"progress"} \cup Terminal)]
      /\ messages' \in [Threads -> Seq(Message)]
      /\ notes' \subseteq (Stores \cup {NoStore}) \X Runs
      /\ \A q \in Legacy : status'[q] \notin Active
  BY <1>1, TerminalizeErrorInv DEF CancelTerminalize
<1>3. TypeOK'
  BY <1>2 DEF CancelTerminalize, TypeOK, ghosts, budget
<1>4. MemInv'
  BY <1>1, <1>2 DEF MemInv, CancelTerminalize
<1> QED
  BY <1>2, <1>3, <1>4

\* Archiving, deleting and the direct stream's turns.
LEMMA ThreadStepInv ==
    ASSUME IInv, NEW t \in Threads, ThreadStep(t)
    PROVE  IInv'
<1> USE RunsAssumption, BoundsAssumption DEF IInv
<1>1. ASSUME NEW archived \in BOOLEAN, SetArchived(t, archived) PROVE IInv'
  <2>1. TypeOK'
    BY <1>1 DEF SetArchived, TypeOK, memory, ghosts, budget
  <2>2. DBInv'
    BY <1>1, ThreadDB DEF SetArchived, TypeOK
  <2>3. MemInv'
    BY <1>1 DEF SetArchived, MemInv, memory
  <2> QED
    BY <2>1, <2>2, <2>3
<1>2. CASE DeleteThread(t)
  <2>1. TypeOK'
    <3>1. messages' \in [Threads -> Seq(Message)] /\ events' \in [Runs -> Seq({"progress"} \cup Terminal)]
      BY <1>2 DEF DeleteThread, TypeOK
    <3> QED
      BY <1>2, <3>1 DEF DeleteThread, TypeOK, memory, ghosts, budget
  <2>2. DBInv'
    BY <1>2, DeleteDB
  <2>3. MemInv'
    <3>1. \A q \in Runs : status'[q] \in Active => status[q] \in Active
      BY <1>2 DEF DeleteThread, Active, TypeOK
    <3> QED
      BY <1>2, <3>1 DEF DeleteThread, MemInv, memory
  <2> QED
    BY <2>1, <2>2, <2>3
<1>3. CASE DirectEnsure(t)
  <2>1. TypeOK'
    BY <1>3 DEF DirectEnsure, TypeOK, ghosts
  <2>2. DBInv'
    BY <1>3, ThreadDB DEF DirectEnsure, TypeOK
  <2>3. MemInv'
    BY <1>3 DEF DirectEnsure, MemInv
  <2> QED
    BY <2>1, <2>2, <2>3
<1>4. ASSUME NEW x \in Message, x.run = NoRun, AppendUnlinked(t, x),
             UNCHANGED <<thread, status, home, events>>
      PROVE  DBInv' /\ messages' \in [Threads -> Seq(Message)]
  <2>1. CASE thread[t] = "absent"
    BY <1>4, <2>1, SameDB DEF AppendUnlinked, TypeOK
  <2>2. CASE thread[t] # "absent"
    <3>1. messages' = [messages EXCEPT ![t] = Append(@, x)]
      BY <1>4, <2>2 DEF AppendUnlinked
    <3>2. Append(messages[t], x) \in Seq(Message)
      BY <1>4 DEF TypeOK
    <3>3. messages' \in [Threads -> Seq(Message)]
      BY <3>1, <3>2 DEF TypeOK
    <3> QED
      BY <1>4, <3>1, <3>3, UnlinkedDB
  <2> QED
    BY <2>1, <2>2
<1>5. CASE DirectAsk(t)
  <2>1. Question \in Message /\ Question.run = NoRun
    BY DEF Question, Message, Kinds
  <2>2. DBInv' /\ messages' \in [Threads -> Seq(Message)]
    BY <1>4, <1>5, <2>1 DEF DirectAsk
  <2>3. TypeOK' /\ MemInv'
    BY <1>5, <2>2 DEF DirectAsk, TypeOK, MemInv, ghosts, budget
  <2> QED
    BY <2>2, <2>3
<1>6. CASE DirectEnd(t)
  <2>1. \A k \in Kinds : Answer(NoRun, k) \in Message /\ Answer(NoRun, k).run = NoRun
    BY DEF Answer, Message
  <2>2. DBInv' /\ messages' \in [Threads -> Seq(Message)]
    <3>1. CASE UNCHANGED messages
      BY <1>6, <3>1, SameDB DEF DirectEnd, TypeOK
    <3>2. CASE \E k \in Kinds : AppendUnlinked(t, Answer(NoRun, k))
      BY <1>4, <1>6, <2>1, <3>2 DEF DirectEnd
    <3> QED
      BY <1>6, <3>1, <3>2 DEF DirectEnd
  <2>3. TypeOK' /\ MemInv'
    BY <1>6, <2>2 DEF DirectEnd, TypeOK, MemInv, ghosts, budget
  <2> QED
    BY <2>2, <2>3
<1> QED
  BY <1>1, <1>2, <1>3, <1>5, <1>6 DEF ThreadStep

\* The databases an older version may have left satisfy the invariant.
LEMMA InitInv == Init => IInv
<1> SUFFICES ASSUME Init PROVE IInv
  OBVIOUS
<1> USE RunsAssumption
<1>1. LegacyEvents \subseteq Seq({"progress"} \cup Terminal)
  BY DEF LegacyEvents, Terminal
<1>2. \A r \in Legacy : LegacyTurns(r) \subseteq Seq(Message)
  <2> TAKE r \in Legacy
  <2>1. Question \in Message /\ \A k \in Kinds : Answer(r, k) \in Message
    BY DEF Question, Answer, Message, Kinds
  <2>2. <<Question>> \in Seq(Message)
    BY <2>1
  <2>3. \A k \in Kinds : <<Question, Answer(r, k)>> \in Seq(Message)
    BY <2>1
  <2> QED
    BY <2>2, <2>3 DEF LegacyTurns
<1>3. TypeOK
  <2>1. events \in [Runs -> Seq({"progress"} \cup Terminal)]
    BY <1>1 DEF Init
  <2>2. messages \in [Threads -> Seq(Message)]
    <3>1. {<<>>} \cup UNION {LegacyTurns(r) : r \in Legacy} \subseteq Seq(Message)
      <4>1. <<>> \in Seq(Message)
        OBVIOUS
      <4> QED
        BY <1>2, <4>1
    <3> QED
      BY <3>1 DEF Init
  <2> QED
    BY <2>1, <2>2 DEF Init, TypeOK, Active, Idle, Creation
<1>4. MemInv
  BY DEF Init, MemInv, Idle
<1>5. \A r \in Runs : status[r] \notin Terminal /\ (status[r] \in Active <=> r \in Legacy)
  BY DEF Init, Active, Terminal
<1>6. \A t \in Threads : (\E r \in Legacy : home[r] = t /\ messages[t] \in LegacyTurns(r)) \/ messages[t] = <<>>
  BY DEF Init
<1>7. \A r \in Legacy : \A m \in LegacyTurns(r) :
        /\ \A i \in 1..Len(m) : m[i].run = NoRun \/ m[i].run = r
        /\ LinkedIn(m, r) = {} \/ LinkedIn(m, r) = {2}
  <2> TAKE r \in Legacy
  <2> TAKE m \in LegacyTurns(r)
  <2>1. r # NoRun
    OBVIOUS
  <2>2. CASE m = <<Question>>
    BY <2>1, <2>2 DEF LinkedIn, Question
  <2>3. ASSUME NEW k \in Kinds, m = <<Question, Answer(r, k)>>
        PROVE  /\ \A i \in 1..Len(m) : m[i].run = NoRun \/ m[i].run = r
               /\ LinkedIn(m, r) = {2}
    <3>1. Len(m) = 2 /\ m[1].run = NoRun /\ m[2].run = r
      BY <2>3 DEF Question, Answer
    <3> QED
      BY <2>1, <3>1 DEF LinkedIn
  <2> QED
    BY <2>2, <2>3 DEF LegacyTurns
<1>8. RowsHaveHomes /\ UnbornIsBlank /\ OneActiveRun /\ ActiveThreadIsCurrent
  <2>1. RowsHaveHomes
    BY <1>5 DEF Init, RowsHaveHomes
  <2>2. UnbornIsBlank
    BY DEF Init, UnbornIsBlank
  <2>3. OneActiveRun
    BY <1>5 DEF Init, OneActiveRun, ActiveOn, ActiveRuns
  <2>4. ActiveThreadIsCurrent
    BY <1>5, <2>1 DEF Init, ActiveThreadIsCurrent, ActiveRuns, RowsHaveHomes
  <2> QED
    BY <2>1, <2>2, <2>3, <2>4
<1>9. TurnsStayHome
  <2> SUFFICES ASSUME NEW t \in Threads, NEW i \in 1..Len(messages[t]), messages[t][i].run # NoRun
               PROVE  home[messages[t][i].run] = t
    BY DEF TurnsStayHome
  <2>1. messages[t] # <<>>
    OBVIOUS
  <2>2. PICK r \in Legacy : home[r] = t /\ messages[t] \in LegacyTurns(r)
    BY <1>6, <2>1
  <2> QED
    BY <1>7, <2>2
<1>10. LegacyTurnsAtMostOne
  BY <1>7 DEF Init, LegacyTurnsAtMostOne, Linked
<1>11. AtomicPublication
  BY <1>5 DEF AtomicPublication, PublishedAtomically
<1> QED
  BY <1>3, <1>4, <1>8, <1>9, <1>10, <1>11 DEF IInv, DBInv

\* Every step keeps the inductive invariant.
LEMMA StepInv == IInv /\ [Next]_vars => IInv'
<1> SUFFICES ASSUME IInv, [Next]_vars PROVE IInv'
  OBVIOUS
<1>1. ASSUME NEW r \in Runs, TaskStep(r) PROVE IInv'
  BY <1>1, TaskStartInv, TaskCancelledUnstartedInv, TaskFrameInv, TaskStreamEndsInv, TaskFinishInv,
     TaskCancelledInv, TaskWriteFailsInv, TaskReadFailsInv DEF TaskStep
<1>2. CASE CreateStep
  BY <1>2, CreateReadInv, CreateAdmitInv, CreateRefusedInv, CreateScheduleInv, ScheduleFailsInv,
     HandoffInv, HandoffFailsInv DEF CreateStep
<1>3. ASSUME NEW t \in Threads, ThreadStep(t) PROVE IInv'
  BY <1>3, ThreadStepInv
<1>4. ASSUME NEW s \in Stores, StoreStep(s) PROVE IInv'
  BY <1>4, OpenStartInv, OpenFinishInv, OpenFailsInv, CancelRequestInv, CancelTerminalizeInv,
     CancelFailsInv DEF StoreStep
<1>5. CASE Crash
  BY <1>5, CrashInv
<1>6. CASE UNCHANGED vars
  <2>1. DBInv'
    BY <1>6, SameDB DEF IInv, vars, db
  <2>2. TypeOK'
    BY <1>6 DEF IInv, TypeOK, vars, db, memory, ghosts, budget
  <2>3. MemInv'
    BY <1>6 DEF IInv, MemInv, vars, db, memory
  <2> QED
    BY <2>1, <2>2, <2>3 DEF IInv
<1> QED
  BY <1>1, <1>2, <1>3, <1>4, <1>5, <1>6 DEF Next

\* The inductive invariant holds in every reachable state.
LEMMA Invariance == Spec => []IInv
BY InitInv, StepInv, PTL DEF Spec

-----------------------------------------------------------------------------
\* Every variable keeps its type, for any constants: in particular no step indexes
\* a transcript by the NULL thread.
THEOREM TypeCorrect == Spec => []TypeOK
<1>1. IInv => TypeOK
  BY DEF IInv
<1> QED
  BY <1>1, Invariance, PTL

\* Admission: one active run per thread at any time (_create_run_on_connection).
THEOREM AdmissionSafe == Spec => []OneActiveRun
<1>1. IInv => OneActiveRun
  BY DEF IInv, DBInv
<1> QED
  BY <1>1, Invariance, PTL

\* No thread is archived or deleted under an active run, whatever the routes and the
\* process do (update_thread_lifecycle, delete_thread).
THEOREM ThreadsHeld == Spec => []ActiveThreadIsCurrent
<1>1. IInv => ActiveThreadIsCurrent
  BY DEF IInv, DBInv
<1> QED
  BY <1>1, Invariance, PTL

\* Terminal status, terminal event and the single linked turn are visible together
\* or not at all, across crashes, write faults and concurrent reconciliations
\* (terminalize_*_with_message, reconcile_interrupted).
THEOREM PublicationAtomic == Spec => []AtomicPublication
<1>1. IInv => AtomicPublication
  BY DEF IInv, DBInv
<1> QED
  BY <1>1, Invariance, PTL
=============================================================================
